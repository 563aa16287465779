---------------------------- MODULE LuauGCProofs ----------------------------
(***************************************************************************)
(* The collector never frees what is referred to, for any number of        *)
(* objects of each kind, any slots, any order of the mutator's operations  *)
(* and the collector's steps.                                              *)
(*                                                                         *)
(* LiveClosed, TriColour and GrayListed are not inductive one by one: that *)
(* only white objects become dead at the end of the marking needs the      *)
(* colours, and that everything marked is in a list needs that references  *)
(* lead to objects that exist.  They are proved together.  FullCollects    *)
(* rests on them and on OnlyReachable, about the cycle of luaC_fullgc.     *)
(***************************************************************************)
EXTENDS LuauGC, TLAPS

Colour == {"white", "dead", "gray", "black"}

Ok(v) == v \in Live \cup {Nil}

\* LiveClosed, one kind of object after the other.
References ==
    /\ active \subseteq Live /\ Main \in Live /\ Globals \in Live /\ Ok(mt) /\ Open \subseteq Live
    /\ \A t \in Tables \cap Live : Ok(field[t]) /\ Ok(meta[t])
    /\ \A f \in Closures \cap Live : Ok(cap[f])
    /\ \A th \in Threads \cap Live : \A i \in 1..Slots : Ok(stack[th][i])
    /\ \A u \in UpVals \cap Live : IF uth[u] = Nil THEN Ok(uval[u]) ELSE uth[u] \in Live

\* What is not allocated is as luaC_init would leave it.
Fresh ==
    /\ \A o \in Objects \ alive : mark[o] = "white"
    /\ \A o \in Tables \ alive : field[o] = Nil /\ meta[o] = Nil
    /\ \A o \in Closures \ alive : cap[o] = Nil
    /\ \A o \in Threads \ alive : stack[o] = [i \in 1..Slots |-> Nil] /\ top[o] = 0
    /\ \A o \in UpVals \ alive : uval[o] = Nil
    /\ markedopen \subseteq Open

\* Threads that wait for one they resumed form one chain from the main thread to
\* the running one.
Chain ==
    /\ Main \in active
    /\ \A th \in active \ {Main} : from[th] \in active /\ from[th] # running
    /\ \A a, b \in active \ {Main} : from[a] = from[b] => a = b
    /\ \A S \in SUBSET active :
          (Main \in S /\ \A th \in active \ {Main} : from[th] \in S => th \in S) => active = S

\* A thread that was resumed is in the frame of the one that resumed it, where no
\* upvalue can overwrite it.
Held ==
    \A th \in active \ {Main} :
        \E i \in 1..top[from[th]] :
            stack[from[th]][i] = th /\ \A u \in OpenOf(from[th]) : uslot[u] # i

\* Dead objects wait for the sweep; those it has passed are white.
Swept ==
    /\ unswept \subseteq alive \ {Main} /\ (phase # "sweep" => unswept = {})
    /\ \A o \in Objects : mark[o] = "dead" => o \in unswept
    /\ phase = "pause" => \A o \in Objects : mark[o] = "white"
    /\ phase = "sweep" => \A o \in Objects \ (unswept \cup {Main}) : mark[o] = "white"

\* What is written without a barrier is not black.
NeverBlack == \A o \in Open \cup active : mark[o] # "black"

\* While marking a black object refers to white ones only through slots that an
\* open upvalue writes, and not once these were marked again.
BlackRefs ==
    keepinvariant => \A o \in alive : mark[o] = "black" =>
        /\ o \in Tables => ~IsWhite(field[o]) /\ ~IsWhite(meta[o])
        /\ o \in Closures => ~IsWhite(cap[o])
        /\ o \in UpVals => ~IsWhite(uval[o])
        /\ o \in Threads =>
              /\ \A u \in OpenOf(o) : mark[u] = "gray"
              /\ \A i \in 1..Slots : IsWhite(stack[o][i]) =>
                    phase \notin Stages /\ \E u \in OpenOf(o) : uslot[u] = i

\* What is marked throughout the marking.
Marked ==
    keepinvariant =>
        /\ ~iswhite(Main) /\ ~iswhite(Globals)
        /\ \A u \in UpVals : mark[u] = "gray" => uth[u] # Nil
        /\ \A u \in markedopen : ~iswhite(u) /\ ~iswhite(uth[u])

\* What each stage of atomic() has marked for good.
Staged ==
    /\ phase \in Stages => \A u \in Open : mark[u] = "gray" => ~IsWhite(Val(u))
    /\ phase \in {"weak", "again"} =>
          ~iswhite(running) /\ ~IsWhite(mt) /\ \A t \in weak : ~IsWhite(meta[t])
    /\ phase = "again" => \A o \in grayagain :
          /\ o \in Threads /\ \A u \in OpenOf(o) : ~iswhite(u)
          /\ \A i \in 1..Slots : ~IsWhite(stack[o][i])

\* Between two markings no upvalue is taken for one of a marked thread, but for
\* a marking luaC_fullgc has abandoned.
OpenUnmarked == ~keepinvariant /\ full # "sweep" => markedopen = {}

Heap    == TypeOK /\ References /\ Fresh /\ Chain /\ Held
Colours == GrayListed /\ Swept /\ NeverBlack /\ BlackRefs /\ Marked /\ Staged /\ OpenUnmarked
IInv    == Heap /\ Colours

-----------------------------------------------------------------------------
(* Facts about one state.                                                  *)

\* The kinds of objects are disjoint, and Nil is none of them.
LEMMA Kinds ==
    /\ Main \in Threads /\ Globals \in Tables /\ Slots \in Nat \ {0} /\ 1 \in 1..Slots
    /\ Nil \notin Objects /\ Nil \in Values
    /\ Objects = Threads \cup Tables \cup Closures \cup UpVals \cup Strings
    /\ Listed = Threads \cup Tables \cup Closures
    /\ Values = (Threads \cup Tables \cup Closures \cup Strings) \cup {Nil}
    /\ Threads \cap Tables = {} /\ Threads \cap Closures = {} /\ Threads \cap UpVals = {}
    /\ Threads \cap Strings = {} /\ Tables \cap Closures = {} /\ Tables \cap UpVals = {}
    /\ Tables \cap Strings = {} /\ Closures \cap UpVals = {} /\ Closures \cap Strings = {}
    /\ UpVals \cap Strings = {}
BY GCAssumption DEF Objects, Listed, Values

\* The bounds on what a behaviour uses.
LEMMA Uses_ ==
    ASSUME TypeOK
    PROVE  use.objects \subseteq Objects /\ use.slots \in [Threads -> 0..Slots]
BY GCAssumption DEF TypeOK

\* What the running thread sees.
LEMMA SeenOk ==
    ASSUME IInv
    PROVE  /\ running \in Threads /\ running \in Live /\ mark[running] # "black"
           /\ Regs \subseteq 1..Slots
           /\ \A i \in 1..Slots : stack[running][i] \in Values /\ Ok(stack[running][i])
           /\ \A v \in Stack(running) : v \in Values /\ Ok(v)
           /\ Seen \subseteq Stack(running)
<1>1. running \in Threads /\ running \in active /\ running \in Live
  BY DEF IInv, Heap, TypeOK, References
<1>2. mark[running] # "black"
  BY <1>1 DEF IInv, Colours, NeverBlack
<1>3. Regs \subseteq 1..Slots /\ top[running] \in 0..Slots /\ Slots \in Nat
  BY <1>1, Kinds DEF IInv, Heap, TypeOK, Regs
<1>4. \A i \in 1..Slots : stack[running][i] \in Values /\ Ok(stack[running][i])
  BY <1>1 DEF IInv, Heap, TypeOK, References
<1>5. \A v \in Stack(running) : v \in Values /\ Ok(v)
  BY <1>3, <1>4 DEF Stack
<1> QED
  BY <1>1, <1>2, <1>3, <1>4, <1>5 DEF Seen

\* Values that upvalues hold.
LEMMA ValOk ==
    ASSUME IInv, NEW u \in UpVals \cap Live
    PROVE  Val(u) \in Values /\ Ok(Val(u)) /\ (uth[u] # Nil => uth[u] \in Threads \cap Live)
BY DEF IInv, Heap, TypeOK, References, Val

\* What can be read is a value that is not dead.
LEMMA ReadableOk ==
    ASSUME IInv
    PROVE  \A v \in Readable \cup Seen : v \in Values /\ Ok(v)
<1> SUFFICES ASSUME NEW v \in Readable \cup Seen PROVE v \in Values /\ Ok(v)
  OBVIOUS
<1>1. \A x \in Seen : x \in Values /\ x \in Live
  BY SeenOk DEF Seen, Ok
<1>2. CASE v \in Seen
  BY <1>1, <1>2 DEF Ok
<1>3. CASE v \in {Nil, mt}
  BY <1>3, Kinds DEF IInv, Heap, TypeOK, References, Ok
<1>4. CASE v \in {Globals, field[Globals]}
  BY <1>4, Kinds DEF IInv, Heap, TypeOK, References, Ok
<1>5. CASE \E t \in Seen \cap Tables : v \in {t, field[t], meta[t]}
  <2>1. PICK t \in Tables \cap Live : v \in {t, field[t], meta[t]}
    BY <1>1, <1>5
  <2> QED
    BY <2>1, Kinds DEF IInv, Heap, TypeOK, References, Ok
<1>6. CASE \E f \in Seen \cap Closures : v = IF cap[f] \in UpVals THEN Val(cap[f]) ELSE cap[f]
  <2>1. PICK f \in Closures \cap Live : v = IF cap[f] \in UpVals THEN Val(cap[f]) ELSE cap[f]
    BY <1>1, <1>6
  <2>2. Ok(cap[f]) /\ cap[f] \in Objects \cup {Nil}
    BY DEF IInv, Heap, TypeOK, References
  <2>3. CASE cap[f] \in UpVals
    <3>1. cap[f] \in UpVals \cap Live
      BY <2>2, <2>3, Kinds DEF Ok
    <3> QED
      BY <2>1, <2>3, <3>1, ValOk
  <2>4. CASE cap[f] \notin UpVals
    BY <2>1, <2>2, <2>4 DEF Values
  <2> QED
    BY <2>3, <2>4
<1>7. CASE v \in Readable
  <2>1. \/ v \in {Nil, mt} \/ v \in {Globals, field[Globals]}
        \/ v \in UNION {{t, field[t], meta[t]} : t \in Seen \cap Tables}
        \/ v \in {IF cap[f] \in UpVals THEN Val(cap[f]) ELSE cap[f] : f \in Seen \cap Closures}
    BY <1>7 DEF Readable
  <2>2. CASE v \in UNION {{t, field[t], meta[t]} : t \in Seen \cap Tables}
    <3>1. \E t \in Seen \cap Tables : v \in {t, field[t], meta[t]}
      BY <2>2
    <3> QED
      BY <1>5, <3>1
  <2>3. CASE v \in {IF cap[f] \in UpVals THEN Val(cap[f]) ELSE cap[f] : f \in Seen \cap Closures}
    BY <1>6, <2>3
  <2> QED
    BY <1>3, <1>4, <2>1, <2>2, <2>3
<1> QED
  BY <1>2, <1>7

\* While marking no object is dead.
LEMMA NoneDead ==
    ASSUME IInv, phase # "sweep"
    PROVE  \A o \in Objects : mark[o] # "dead" /\ (iswhite(o) <=> mark[o] = "white")
BY DEF IInv, Colours, Swept, iswhite

-----------------------------------------------------------------------------
(* Steps of the mutator.                                                   *)

\* A value put into a register of the running thread.
LEMMA PutType ==
    ASSUME TypeOK, NEW i \in 1..Slots, NEW v \in Values, Put(i, v)
    PROVE  /\ stack' \in [Threads -> [1..Slots -> Values]]
           /\ \A th \in Threads : th # running => stack'[th] = stack[th]
           /\ \A j \in 1..Slots : stack'[running][j] = IF j = i THEN v ELSE stack[running][j]
<1>1. running \in Threads /\ stack \in [Threads -> [1..Slots -> Values]]
  BY DEF TypeOK
<1>2. stack' = [stack EXCEPT ![running][i] = v]
  BY DEF Put
<1>3. stack' = [stack EXCEPT ![running] = [stack[running] EXCEPT ![i] = v]]
  BY <1>1, <1>2
<1>4. stack[running] \in [1..Slots -> Values]
  BY <1>1
<1>5. [stack[running] EXCEPT ![i] = v] \in [1..Slots -> Values]
  BY <1>4
<1> QED
  BY <1>1, <1>3, <1>4, <1>5

\* A step that puts a value into a register of the running thread and allocates
\* os keeps the invariant.
LEMMA RegisterStep ==
    ASSUME IInv, Runs, UNCHANGED <<fixed, field, meta, mt, top, cors, gray, grayagain, uval,
        markedopen>>,
           NEW os \in SUBSET (Objects \ Live), os \cap alive \subseteq Strings, New(os),
           NEW i \in Regs, NEW v \in Values, v \in Live \cup os \cup {Nil}, Put(i, v),
           cap' \in [Closures -> Objects \cup {Nil}],
           \A f \in Closures : cap'[f] = cap[f] \/ (f \in os /\ cap'[f] \in Live \cup os \cup {Nil}),
           uth' \in [UpVals -> Threads \cup {Nil}], uslot' \in [UpVals -> 1..Slots],
           \A u \in UpVals : (uth'[u] = uth[u] /\ uslot'[u] = uslot[u]) \/ (u \in os /\ uth'[u]
               = running)
    PROVE  IInv'
<1>1. running \in Threads /\ running \in Live /\ mark[running] # "black" /\ i \in 1..Slots /\ TypeOK
  BY SeenOk DEF IInv, Heap
<1>2. stack' \in [Threads -> [1..Slots -> Values]]
      /\ (\A th \in Threads : th # running => stack'[th] = stack[th])
      /\ (\A j \in 1..Slots : stack'[running][j] = IF j = i THEN v ELSE stack[running][j])
  BY <1>1, PutType
<1>3. /\ mark \in [Objects -> Colour] /\ mark' \in [Objects -> Colour]
      /\ alive' = alive \cup os /\ alive \subseteq Objects /\ os \subseteq Objects
      /\ \A o \in Objects : mark'[o] = IF o \in os THEN "white" ELSE mark[o]
  BY DEF New, IInv, Heap, TypeOK, Colour
<1>4. Live' = Live \cup os
  BY <1>3 DEF Live, isdead
<1>0. /\ use' = use /\ weak' = weak /\ phase' = phase /\ unswept' = unswept /\ full' = full
      /\ field' = field /\ meta' = meta /\ mt' = mt /\ top' = top /\ active' = active
      /\ running' = running /\ from' = from /\ gray' = gray /\ grayagain' = grayagain
      /\ uval' = uval /\ markedopen' = markedopen /\ phase \notin Stages
  BY DEF fixed, cors, Runs
<1>5. TypeOK'
  BY <1>2, <1>3, <1>0, Zenon DEF IInv, Heap, TypeOK, Colour
<1>6. \A u \in os \cap UpVals : u \notin Open /\ u \notin alive /\ uth[u] = Nil
  BY Kinds DEF IInv, Heap, References, Open
<1>7. OpenOf(running)' \subseteq OpenOf(running) \cup os /\ Open' \subseteq Open \cup os
        /\ Open \subseteq Open'
  BY <1>0, <1>1, <1>6, Kinds DEF Open, OpenOf
<1>8. ASSUME NEW th \in Threads, th # running
      PROVE  OpenOf(th)' = OpenOf(th) /\ \A u \in OpenOf(th) : uslot'[u] = uslot[u]
  <2>1. ASSUME NEW u \in UpVals PROVE uth'[u] = th <=> uth[u] = th
    BY <1>6, <1>8, Kinds
  <2>2. ASSUME NEW u \in UpVals, uth[u] = th PROVE uslot'[u] = uslot[u]
    BY <1>6, <1>8, <2>2, Kinds
  <2> QED
    BY <2>1, <2>2 DEF OpenOf
<1>9. References'
  <2>1. active' \subseteq Live' /\ Main \in Live' /\ Globals \in Live' /\ Ok(mt)'
          /\ Open' \subseteq Live'
    BY <1>0, <1>4, <1>7, Kinds DEF IInv, Heap, References, Ok
  <2>2. \A t \in Tables \cap Live' : Ok(field[t])' /\ Ok(meta[t])'
    BY <1>0, <1>3, <1>4, Kinds DEF IInv, Heap, References, Fresh, Ok
  <2>3. \A f \in Closures \cap Live' : Ok(cap[f])'
    BY <1>3, <1>4, Kinds DEF IInv, Heap, References, Fresh, Ok
  <2>4. \A th \in Threads \cap Live' : \A j \in 1..Slots : Ok(stack[th][j])'
    <3> SUFFICES ASSUME NEW th \in Threads \cap Live', NEW j \in 1..Slots PROVE Ok(stack[th][j])'
      OBVIOUS
    <3>1. CASE th = running
      BY <1>1, <1>2, <1>4, <3>1 DEF IInv, Heap, References, Ok
    <3>2. CASE th # running /\ th \in Live
      BY <1>2, <1>4, <3>2 DEF IInv, Heap, References, Ok
    <3>3. CASE th # running /\ th \in os
      BY <1>2, <1>4, <3>3, Kinds DEF IInv, Heap, Fresh, Ok
    <3> QED
      BY <1>4, <3>1, <3>2, <3>3
  <2>5. \A u \in UpVals \cap Live' : IF uth'[u] = Nil THEN Ok(uval[u])' ELSE uth'[u] \in Live'
    BY <1>0, <1>1, <1>4, <1>6, Kinds DEF IInv, Heap, References, Fresh, Ok
  <2> QED
    BY <2>1, <2>2, <2>3, <2>4, <2>5 DEF References
<1>10. Fresh'
  <2>1. \A th \in Threads \ alive' : stack'[th] = stack[th]
    BY <1>1, <1>2, <1>3 DEF Live
  <2>2. \A o \in Objects \ alive' : o \in Objects \ alive /\ mark'[o] = mark[o] /\ o \notin os
    BY <1>3
  <2>3. \A f \in Closures \ alive' : cap'[f] = cap[f]
    BY <1>3
  <2> QED
    BY <1>0, <1>7, <2>1, <2>2, <2>3, Kinds DEF IInv, Heap, Fresh
<1>11. Chain'
  BY <1>0 DEF IInv, Heap, Chain
<1>12. Held'
  <2> SUFFICES ASSUME NEW th \in active \ {Main}
               PROVE  \E k \in 1..top[from[th]] : stack'[from[th]][k] = th
                   /\ \A u \in OpenOf(from[th])' : uslot'[u] # k
    BY <1>0 DEF Held
  <2>1. from[th] \in Threads /\ from[th] # running
    BY DEF IInv, Heap, Chain, TypeOK
  <2>2. PICK k \in 1..top[from[th]] : stack[from[th]][k] = th
          /\ \A u \in OpenOf(from[th]) : uslot[u] # k
    BY DEF IInv, Heap, Held
  <2> QED
    BY <1>0, <1>2, <1>8, <2>1, <2>2
<1>13. GrayListed' /\ Swept'
  <2>1. {o \in alive' \cap Listed : mark'[o] = "gray"} = {o \in alive \cap Listed : mark[o] = "gray"}
    BY <1>3, Kinds, Zenon DEF IInv, Heap, Fresh, Live
  <2>2. GrayListed'
    BY <1>0, <2>1 DEF IInv, Colours, GrayListed, keepinvariant
  <2>3. \A o \in Objects : (mark'[o] = "dead" => mark[o] = "dead") /\ (mark[o] = "white"
          => mark'[o] = "white")
    BY <1>3
  <2>4. Swept'
    BY <1>0, <1>3, <2>3 DEF IInv, Colours, Swept
  <2> QED
    BY <2>2, <2>4
<1>14. NeverBlack'
  <2>1. active \subseteq Objects /\ Open' \subseteq Objects
    BY Kinds DEF IInv, Heap, TypeOK, Open
  <2>2. \A o \in Open \cup active : mark[o] # "black"
    BY DEF IInv, Colours, NeverBlack
  <2>3. \A o \in Open' \cup active' : o \in Objects /\ o \in Open \cup active \cup os
    BY <1>0, <1>7, <2>1
  <2> QED
    BY <1>3, <2>2, <2>3 DEF NeverBlack
<1>15. BlackRefs'
  <2> SUFFICES ASSUME keepinvariant, NEW o \in alive, o \notin os, o \in Live, mark[o] = "black"
               PROVE  (/\ o \in Tables => ~IsWhite(field[o]) /\ ~IsWhite(meta[o])
                       /\ o \in Closures => ~IsWhite(cap[o])
                       /\ o \in UpVals => ~IsWhite(uval[o])
                       /\ o \in Threads =>
                             /\ \A u \in OpenOf(o) : mark[u] = "gray"
                             /\ \A j \in 1..Slots : IsWhite(stack[o][j])
                                   => \E u \in OpenOf(o) : uslot[u] = j)'
    BY <1>0, <1>3 DEF BlackRefs, keepinvariant, Live, isdead
  <2>1. \A x : Ok(x) /\ IsWhite(x)' => IsWhite(x)
    BY <1>3 DEF Ok, Live, IsWhite, iswhite
  <2>2. CASE o \in Tables
    BY <1>0, <2>1, <2>2, Kinds DEF IInv, Heap, References, Colours, BlackRefs
  <2>3. CASE o \in Closures
    BY <1>0, <2>1, <2>3, Kinds DEF IInv, Heap, References, Colours, BlackRefs
  <2>4. CASE o \in UpVals
    BY <1>0, <2>1, <2>4, Kinds DEF IInv, Heap, References, Colours, BlackRefs, NeverBlack, Open
  <2>5. CASE o \in Threads
    <3>1. o # running /\ stack'[o] = stack[o] /\ o \in Threads
      BY <1>1, <1>2, <2>5
    <3>2. OpenOf(o)' = OpenOf(o) /\ \A u \in OpenOf(o) : uslot'[u] = uslot[u]
      BY <1>8, <3>1
    <3>3. \A u \in OpenOf(o) : mark[u] = "gray"
      BY <2>5 DEF IInv, Colours, BlackRefs
    <3>4. \A u \in OpenOf(o) : u \in Objects /\ u \notin os
      BY <1>6, <2>5, Kinds DEF OpenOf, Open
    <3>5. \A j \in 1..Slots : IsWhite(stack[o][j]) => \E u \in OpenOf(o) : uslot[u] = j
      BY <2>5 DEF IInv, Colours, BlackRefs
    <3>6. \A j \in 1..Slots : Ok(stack[o][j])
      BY <2>5 DEF IInv, Heap, References
    <3>7. \A j \in 1..Slots : IsWhite(stack[o][j])' => IsWhite(stack[o][j])
      BY <2>1, <3>1, <3>6 DEF IsWhite, iswhite
    <3> QED
      BY <1>3, <2>5, <3>1, <3>2, <3>3, <3>4, <3>5, <3>7, Kinds
  <2> QED
    <3>1. o \in Threads \/ o \in Tables \/ o \in Closures \/ o \in UpVals \/ o \in Strings
      BY <1>3, Kinds
    <3>2. CASE o \in Strings
      BY <3>2, Kinds
    <3> QED
      BY <2>2, <2>3, <2>4, <2>5, <3>1, <3>2
<1>16. Marked'
  <2> SUFFICES ASSUME keepinvariant
               PROVE (/\ ~iswhite(Main) /\ ~iswhite(Globals)
                      /\ \A u \in UpVals : mark[u] = "gray" => uth[u] # Nil
                      /\ \A u \in markedopen : ~iswhite(u) /\ ~iswhite(uth[u]))'
    BY <1>0 DEF Marked, keepinvariant
  <2>1. \A x \in Objects : mark'[x] = "gray" => mark[x] = "gray" /\ x \notin os
    BY <1>3
  <2>2. \A x \in Live : x \in Objects /\ x \notin os /\ mark'[x] = mark[x]
    BY <1>3 DEF Live
  <2>3. Main \in Live /\ Globals \in Live /\ \A u \in markedopen : u \in Live /\ u \in UpVals
          /\ uth[u] \in Live
    BY DEF IInv, Heap, References, Fresh, Open
  <2>4. /\ ~iswhite(Main) /\ ~iswhite(Globals)
        /\ \A u \in UpVals : mark[u] = "gray" => uth[u] # Nil
        /\ \A u \in markedopen : ~iswhite(u) /\ ~iswhite(uth[u])
    BY DEF IInv, Colours, Marked
  <2>5. \A u \in UpVals : u \notin os => uth'[u] = uth[u]
    OBVIOUS
  <2>6. \A u \in UpVals : mark'[u] = "gray" => uth'[u] # Nil
    BY <2>1, <2>4, <2>5, Kinds
  <2>7. \A u \in markedopen' : ~iswhite(u)' /\ ~iswhite(uth[u])'
    BY <1>0, <2>2, <2>3, <2>4, <2>5 DEF iswhite
  <2> QED
    BY <2>2, <2>3, <2>4, <2>6, <2>7 DEF iswhite
<1>17. Staged' /\ OpenUnmarked'
  BY <1>0 DEF Staged, Stages, IInv, Colours, OpenUnmarked, keepinvariant
<1> QED
  BY <1>5, <1>9, <1>10, <1>11, <1>12, <1>13, <1>14, <1>15, <1>16, <1>17 DEF IInv, Heap, Colours

\* A value is read into a register.
LEMMA LoadStep == ASSUME IInv, Load PROVE IInv'
<1>1. PICK i \in Regs, v \in Readable \cup Seen : Put(i, v)
  BY DEF Load
<1>2. UNCHANGED <<fixed, field, meta, mt, cap, top, cors, gray, grayagain, uth, uslot, uval,
        markedopen, alive, mark>> /\ Runs
  BY DEF Load, heap, upvs
<1>3. v \in Values /\ v \in Live \cup {Nil}
  BY ReadableOk DEF Ok
<1>4. mark' = [o \in Objects |-> mark[o]] /\ cap \in [Closures -> Objects \cup {Nil}]
        /\ uth \in [UpVals -> Threads \cup {Nil}] /\ uslot \in [UpVals -> 1..Slots]
  BY <1>2 DEF IInv, Heap, TypeOK
<1>5. New({})
  BY <1>2, <1>4 DEF New
<1>6. {} \in SUBSET (Objects \ Live) /\ {} \cap alive \subseteq Strings
  OBVIOUS
<1> QED
  BY <1>1, <1>2, <1>3, <1>4, <1>5, <1>6, RegisterStep DEF fixed, cors

\* A table or a coroutine is created.
LEMMA CreateStep == ASSUME IInv, Create PROVE IInv'
<1>1. PICK o \in (use.objects \ alive) \cap (Tables \cup Threads), i \in Regs : New({o}) /\ Put(i, o)
  BY DEF Create
<1>2. UNCHANGED <<fixed, field, meta, mt, cap, top, cors, gray, grayagain, uth, uslot, uval,
        markedopen>> /\ Runs
  BY DEF Create, heap, upvs
<1>3. o \in Values /\ o \in Objects \ Live /\ o \notin alive
  BY Kinds DEF Live
<1>4. cap \in [Closures -> Objects \cup {Nil}] /\ uth \in [UpVals -> Threads \cup {Nil}]
        /\ uslot \in [UpVals -> 1..Slots]
  BY DEF IInv, Heap, TypeOK
<1>6. {o} \in SUBSET (Objects \ Live) /\ {o} \cap alive \subseteq Strings
  BY <1>3
<1> QED
  BY <1>1, <1>2, <1>3, <1>4, <1>6, RegisterStep DEF fixed, cors

\* A string is created, or found: a dead one is white again.
LEMMA PushStringStep == ASSUME IInv, PushString PROVE IInv'
<1>1. PICK s \in use.objects \cap Strings, i \in Regs :
          alive' = alive \cup {s} /\ mark' = [mark EXCEPT ![s] = Interned(s)] /\ Put(i, s)
  BY DEF PushString
<1>2. UNCHANGED <<fixed, field, meta, mt, cap, top, cors, gray, grayagain, uth, uslot, uval,
        markedopen>> /\ Runs
  BY DEF PushString, heap, upvs
<1>3. s \in Values /\ s \in Objects
  BY Kinds
<1>4. cap \in [Closures -> Objects \cup {Nil}] /\ uth \in [UpVals -> Threads \cup {Nil}]
        /\ uslot \in [UpVals -> 1..Slots]
      /\ mark \in [Objects -> Colour]
  BY DEF IInv, Heap, TypeOK, Colour
<1>5. CASE s \in Live
  <2>1. mark' = mark /\ alive' = alive
    BY <1>1, <1>3, <1>4, <1>5 DEF Interned, Live
  <2>2. mark' = [o \in Objects |-> mark[o]]
    BY <2>1, <1>4
  <2>3. New({})
    BY <2>1, <2>2 DEF New
  <2>4. {} \in SUBSET (Objects \ Live) /\ {} \cap alive \subseteq Strings
    OBVIOUS
  <2> QED
    BY <1>1, <1>2, <1>3, <1>4, <1>5, <2>3, <2>4, RegisterStep DEF fixed, cors
<1>6. CASE s \notin Live
  <2>1. New({s})
    BY <1>1, <1>3, <1>4, <1>6 DEF New, Interned, Live
  <2>2. {s} \in SUBSET (Objects \ Live) /\ {s} \cap alive \subseteq Strings
    BY <1>3, <1>6
  <2> QED
    BY <1>1, <1>2, <1>3, <1>4, <2>1, <2>2, RegisterStep DEF fixed, cors
<1> QED
  BY <1>5, <1>6

\* A closure is created and captures a value, an upvalue or a register.
LEMMA NewClosureStep == ASSUME IInv, NewClosure PROVE IInv'
<1>1. PICK f \in (use.objects \ alive) \cap Closures, i \in Regs, j \in Regs :
          /\ Put(i, f)
          /\ \/ /\ cap' = [cap EXCEPT ![f] = stack'[running][j]]
                /\ New({f}) /\ UNCHANGED upvs
             \/ \E g \in Seen \cap Closures :
                   cap' = [cap EXCEPT ![f] = cap[g]] /\ New({f}) /\ UNCHANGED upvs
             \/ \E u \in OpenOf(running) :
                   /\ uslot[u] = j /\ cap' = [cap EXCEPT ![f] = u]
                   /\ New({f}) /\ UNCHANGED upvs
             \/ \E u \in (use.objects \ alive) \cap UpVals :
                   /\ \A w \in OpenOf(running) : uslot[w] # j
                   /\ cap' = [cap EXCEPT ![f] = u] /\ New({f, u})
                   /\ uth' = [uth EXCEPT ![u] = running] /\ uslot' = [uslot EXCEPT ![u] = j]
                   /\ UNCHANGED <<uval, markedopen>>
  BY DEF NewClosure
<1>2. UNCHANGED <<fixed, field, meta, mt, top, cors, gray, grayagain>> /\ Runs
  BY DEF NewClosure
<1>3. f \in Values /\ f \in Objects \ Live /\ f \notin alive /\ f \in Closures
  BY Kinds DEF Live
<1>4. cap \in [Closures -> Objects \cup {Nil}] /\ uth \in [UpVals -> Threads \cup {Nil}]
        /\ uslot \in [UpVals -> 1..Slots]
      /\ running \in Threads /\ i \in 1..Slots /\ j \in 1..Slots
  BY SeenOk DEF IInv, Heap, TypeOK
<1>5. {f} \in SUBSET (Objects \ Live) /\ {f} \cap alive \subseteq Strings
  BY <1>3
<1>6. ASSUME NEW c \in Objects \cup {Nil}, c \in Live \cup {f} \cup {Nil},
             cap' = [cap EXCEPT ![f] = c], New({f}), UNCHANGED upvs
      PROVE  IInv'
  <2>1. cap' \in [Closures -> Objects \cup {Nil}]
        /\ \A g \in Closures : cap'[g] = cap[g] \/ (g \in {f} /\ cap'[g] \in Live \cup {f} \cup {Nil})
    BY <1>3, <1>4, <1>6
  <2> QED
    BY <1>1, <1>2, <1>3, <1>4, <1>5, <1>6, <2>1, RegisterStep DEF upvs, fixed, cors
<1>7. CASE cap' = [cap EXCEPT ![f] = stack'[running][j]] /\ New({f}) /\ UNCHANGED upvs
  <2>1. stack'[running][j] = f \/ stack'[running][j] = stack[running][j]
    BY <1>1, <1>3, <1>4, PutType DEF IInv, Heap
  <2>2. stack[running][j] \in Values /\ Ok(stack[running][j])
    BY <1>4, SeenOk
  <2> QED
    BY <1>3, <1>6, <1>7, <2>1, <2>2 DEF Ok, Values
<1>8. CASE \E g \in Seen \cap Closures : cap' = [cap EXCEPT ![f] = cap[g]] /\ New({f}) /\ UNCHANGED upvs
  <2>1. PICK g \in Seen \cap Closures : cap' = [cap EXCEPT ![f] = cap[g]] /\ New({f}) /\ UNCHANGED upvs
    BY <1>8
  <2>2. g \in Live
    BY SeenOk DEF Seen, Ok
  <2>3. cap[g] \in Objects \cup {Nil} /\ Ok(cap[g])
    BY <1>4, <2>1, <2>2 DEF IInv, Heap, References
  <2> QED
    BY <1>6, <2>1, <2>3 DEF Ok
<1>9. CASE \E u \in OpenOf(running) : cap' = [cap EXCEPT ![f] = u] /\ New({f}) /\ UNCHANGED upvs
  <2>1. PICK u \in OpenOf(running) : cap' = [cap EXCEPT ![f] = u] /\ New({f}) /\ UNCHANGED upvs
    BY <1>9
  <2>2. u \in Live /\ u \in Objects
    BY <1>4, Kinds DEF OpenOf, Open, IInv, Heap, References
  <2> QED
    BY <1>6, <2>1, <2>2
<1>10. CASE \E u \in (use.objects \ alive) \cap UpVals :
                   /\ cap' = [cap EXCEPT ![f] = u] /\ New({f, u})
                   /\ uth' = [uth EXCEPT ![u] = running] /\ uslot' = [uslot EXCEPT ![u] = j]
                   /\ UNCHANGED <<uval, markedopen>>
  <2>1. PICK u \in (use.objects \ alive) \cap UpVals :
                   /\ cap' = [cap EXCEPT ![f] = u] /\ New({f, u})
                   /\ uth' = [uth EXCEPT ![u] = running] /\ uslot' = [uslot EXCEPT ![u] = j]
                   /\ UNCHANGED <<uval, markedopen>>
    BY <1>10
  <2>2. {f, u} \in SUBSET (Objects \ Live) /\ {f, u} \cap alive \subseteq Strings
    BY <1>3, <2>1, Kinds DEF Live
  <2>3. cap' \in [Closures -> Objects \cup {Nil}]
        /\ \A g \in Closures : cap'[g] = cap[g] \/ (g \in {f, u} /\ cap'[g] \in Live \cup {f,
              u} \cup {Nil})
    BY <1>3, <1>4, <2>1, Kinds
  <2>4. uth' \in [UpVals -> Threads \cup {Nil}] /\ uslot' \in [UpVals -> 1..Slots]
        /\ \A w \in UpVals : (uth'[w] = uth[w] /\ uslot'[w] = uslot[w]) \/ (w \in {f,
              u} /\ uth'[w] = running)
    BY <1>4, <2>1
  <2> QED
    BY <1>1, <1>2, <1>3, <2>1, <2>2, <2>3, <2>4, RegisterStep DEF fixed, cors
<1> QED
  BY <1>1, <1>7, <1>8, <1>9, <1>10

\* What the barriers of a mutator step that closes the upvalues us do to the colours.
Recoloured(us) ==
    /\ mark' \in [Objects -> Colour] /\ gray' \subseteq Listed /\ grayagain' \subseteq Listed
    /\ \A x \in Objects : mark'[x] # mark[x] =>
          \/ mark[x] = "white" /\ mark'[x] = "gray" /\ x \in Live \ UpVals /\ keepinvariant
          \/ mark[x] = "black" /\ mark'[x] = "gray" /\ x \in Listed
          \/ mark[x] = "black" /\ mark'[x] = "white" /\ ~keepinvariant
          \/ mark[x] = "gray" /\ x \in us /\ mark'[x] = IF keepinvariant THEN "black" ELSE "white"
    /\ keepinvariant =>
          /\ gray' \cup grayagain' = gray \cup grayagain \cup {x \in Listed : mark'[x] # mark[x]}
          /\ gray' \cap grayagain' = {}

\* Marking values, none of which is an upvalue.
LEMMA MarkValues ==
    ASSUME TypeOK, NEW vs \in SUBSET Values
    PROVE  /\ Reached(vs) = {v \in vs : IsWhite(v)} /\ Reached(vs) \subseteq Objects \ UpVals
           /\ Paint(Reached(vs)) = [o \in Objects |-> IF o \in vs
                 /\ IsWhite(o) THEN "gray" ELSE mark[o]]
<1>1. vs \cap UpVals = {}
  BY Kinds
<1>2. Reached(vs) = {v \in vs : IsWhite(v)}
  BY <1>1 DEF Reached
<1>3. \A v \in vs : IsWhite(v) => v \in Objects \ UpVals
  BY <1>1, Kinds DEF IsWhite
<1> QED
  BY <1>2, <1>3 DEF Paint

\* A state with other colours only.
LEMMA RecolouredOk ==
    ASSUME IInv, NEW us \in SUBSET UpVals, Recoloured(us), UNCHANGED <<alive, phase, unswept, weak>>
    PROVE  /\ Live' = Live /\ GrayListed' /\ Swept' /\ \A o \in Objects \ alive : mark'[o] = "white"
           /\ keepinvariant => \A x : IsWhite(x)' /\ x \in Objects \cup {Nil} => IsWhite(x)
           /\ \A x \in Objects : mark'[x] = "black" => mark[x] = "black" \/ (x \in us /\ mark[x]
                 = "gray")
           /\ \A x \in UpVals : mark'[x] = "gray" => mark[x] = "gray"
<1>1. mark \in [Objects -> Colour] /\ mark' \in [Objects -> Colour] /\ alive \subseteq Objects
  BY DEF IInv, Heap, TypeOK, Colour, Recoloured
<1>2. \A x \in Objects : mark'[x] = "dead" <=> mark[x] = "dead"
  BY <1>1 DEF Recoloured
<1>3. Live' = Live
  BY <1>1, <1>2 DEF Live, isdead
<1>4. \A o \in Objects \ alive : mark'[o] = "white"
  BY <1>1 DEF Recoloured, IInv, Heap, Fresh, Live
<1>5. keepinvariant => \A x : IsWhite(x)' /\ x \in Objects \cup {Nil} => IsWhite(x)
  BY <1>1, <1>2 DEF IsWhite, iswhite, Recoloured
<1>6. \A x \in Objects : mark'[x] = "black" => mark[x] = "black" \/ (x \in us /\ mark[x] = "gray")
  BY <1>1 DEF Recoloured
<1>7. \A x \in UpVals : mark'[x] = "gray" => mark[x] = "gray"
  BY <1>1, Kinds DEF Recoloured
<1>8. Swept'
  <2>1. phase = "pause" => \A o \in Objects : mark'[o] = "white"
    BY <1>1 DEF Recoloured, IInv, Colours, Swept, keepinvariant
  <2>2. phase = "sweep" => \A o \in Objects \ (unswept \cup {Main}) : mark'[o] = "white"
    BY <1>1 DEF Recoloured, IInv, Colours, Swept, keepinvariant
  <2> QED
    BY <1>2, <2>1, <2>2 DEF IInv, Colours, Swept
<1>9. GrayListed'
  <2> SUFFICES ASSUME keepinvariant
               PROVE  /\ {o \in alive \cap Listed : mark'[o] = "gray"} = gray' \cup grayagain' \cup weak
                      /\ gray' \cap grayagain' = {} /\ gray' \cap weak = {} /\ grayagain' \cap weak = {}
    BY DEF GrayListed, keepinvariant
  <2>1. /\ {o \in alive \cap Listed : mark[o] = "gray"} = gray \cup grayagain \cup weak
        /\ gray \cap weak = {} /\ grayagain \cap weak = {}
    BY DEF IInv, Colours, GrayListed
  <2>2. gray' \cup grayagain' = gray \cup grayagain \cup {x \in Listed : mark'[x] # mark[x]}
          /\ gray' \cap grayagain' = {}
    BY DEF Recoloured
  <2>3. \A x \in Listed : mark'[x] # mark[x] => mark[x] # "gray" /\ mark'[x] = "gray" /\ x \in alive
    BY <1>1, <1>4, Kinds DEF Recoloured, IInv, Heap, Fresh
  <2>4. \A x \in Listed : x \in alive /\ mark[x] = "gray" <=> x \in gray \cup grayagain \cup weak
    BY <2>1
  <2>5. gray \subseteq Listed /\ grayagain \subseteq Listed /\ weak \subseteq Listed
    BY Kinds DEF IInv, Heap, TypeOK
  <2>6. \A x \in alive \cap Listed : mark'[x] = "gray" <=> mark[x] = "gray" \/ mark'[x] # mark[x]
    BY <2>3
  <2>7. weak \cap (gray' \cup grayagain') = {}
    BY <2>1, <2>2, <2>3, <2>4, <2>5
  <2>8. {o \in alive \cap Listed : mark'[o] = "gray"} = gray' \cup grayagain' \cup weak
    BY <2>2, <2>3, <2>4, <2>5, <2>6
  <2> QED
    BY <2>2, <2>7, <2>8
<1> QED
  BY <1>3, <1>4, <1>5, <1>6, <1>7, <1>8, <1>9

\* The lists hold gray objects only.
LEMMA ListsGray ==
    ASSUME IInv
    PROVE  /\ gray \subseteq Listed /\ grayagain \subseteq Listed /\ mark \in [Objects -> Colour]
           /\ keepinvariant => gray \cap grayagain = {} /\ \A x \in gray \cup grayagain : mark[x]
                 = "gray"
BY DEF IInv, Heap, TypeOK, Colours, GrayListed, Colour

\* luaC_barrierf.
LEMMA ForwardOk ==
    ASSUME IInv, NEW o \in Objects, NEW v \in Values, Ok(v), BarrierForward(o, v)
    PROVE  /\ Recoloured({}) /\ (mark[o] # "black" => UNCHANGED <<mark, gray, grayagain>>)
           /\ keepinvariant /\ mark'[o] = "black" => ~IsWhite(v)'
<1>1. mark \in [Objects -> Colour] /\ gray \subseteq Listed /\ grayagain \subseteq Listed /\ TypeOK
  BY ListsGray DEF IInv, Heap
<1>2. CASE mark[o] # "black" \/ ~IsWhite(v)
  BY <1>1, <1>2, ListsGray DEF BarrierForward, Recoloured, IsWhite, iswhite
<1>3. CASE ~(mark[o] # "black" \/ ~IsWhite(v)) /\ keepinvariant
  <2>1. v \in Live /\ v \in Objects \ UpVals /\ mark[v] = "white"
    BY <1>1, <1>3, Kinds DEF Ok, IsWhite, iswhite, Live, isdead, Colour
  <2>2. Reached({v}) = {v} /\ Paint(Reached({v})) = [x \in Objects |-> IF x
          = v THEN "gray" ELSE mark[x]]
    BY <1>1, <1>3, MarkValues
  <2>3. mark' = [x \in Objects |-> IF x = v THEN "gray" ELSE mark[x]] /\ gray'
          = gray \cup ({v} \cap Listed) /\ grayagain' = grayagain
    BY <1>3, <2>2 DEF BarrierForward, Mark
  <2>4. mark' \in [Objects -> Colour]
    BY <1>1, <2>3 DEF Colour
  <2>5. {x \in Listed : mark'[x] # mark[x]} = {v} \cap Listed
    BY <2>1, <2>3, Kinds
  <2>6. gray' \cap grayagain' = {}
    BY <1>3, <2>1, <2>3, ListsGray
  <2>7. \A x \in Objects : mark'[x] # mark[x] => mark[x] = "white" /\ mark'[x] = "gray"
          /\ x \in Live \ UpVals
    BY <2>1, <2>3
  <2>8. ~IsWhite(v)'
    BY <2>1, <2>3 DEF IsWhite, iswhite
  <2> QED
    BY <1>1, <1>3, <2>3, <2>4, <2>5, <2>6, <2>7, <2>8 DEF Recoloured
<1>4. CASE ~(mark[o] # "black" \/ ~IsWhite(v)) /\ ~keepinvariant
  <2>1. mark' = [mark EXCEPT ![o] = "white"] /\ gray' = gray /\ grayagain' = grayagain /\ mark[o]
          = "black"
    BY <1>4 DEF BarrierForward
  <2> QED
    BY <1>1, <1>4, <2>1 DEF Recoloured, Colour
<1> QED
  BY <1>2, <1>3, <1>4

\* luaC_barriertable.
LEMMA TableOk ==
    ASSUME IInv, NEW t \in Tables, NEW v \in Values, Ok(v), BarrierTable(t, v)
    PROVE  Recoloured({}) /\ (keepinvariant /\ mark'[t] = "black" => ~IsWhite(v)')
<1>1. mark \in [Objects -> Colour] /\ gray \subseteq Listed /\ grayagain \subseteq Listed
        /\ TypeOK /\ t \in Objects /\ t \in Listed
  BY ListsGray, Kinds DEF IInv, Heap
<1>2. CASE mark[t] # "black" \/ ~IsWhite(v)
  BY <1>1, <1>2, ListsGray DEF BarrierTable, Recoloured, IsWhite, iswhite
<1>3. CASE ~(mark[t] # "black" \/ ~IsWhite(v)) /\ phase = "propagateagain"
  <2>1. BarrierForward(t, v)
    BY <1>3 DEF BarrierTable, BarrierForward, keepinvariant
  <2> QED
    BY <1>1, <2>1, ForwardOk
<1>4. CASE ~(mark[t] # "black" \/ ~IsWhite(v)) /\ phase # "propagateagain"
  <2>1. mark' = [mark EXCEPT ![t] = "gray"] /\ gray' = gray /\ grayagain' = grayagain \cup {t}
          /\ mark[t] = "black"
    BY <1>4 DEF BarrierTable
  <2>2. {x \in Listed : mark'[x] # mark[x]} = {t}
    BY <1>1, <2>1, Kinds
  <2>3. keepinvariant => gray' \cap grayagain' = {}
    BY <2>1, ListsGray
  <2> QED
    BY <1>1, <1>4, <2>1, <2>2, <2>3 DEF Recoloured, Colour
<1> QED
  BY <1>2, <1>3, <1>4

\* luaC_barrierback of a thread.
LEMMA ThreadOk ==
    ASSUME IInv, NEW th \in Threads, ThreadBarrier(th)
    PROVE  Recoloured({}) /\ mark'[th] # "black" /\ (mark[th] # "black" => UNCHANGED <<mark, gray,
        grayagain>>)
<1>1. mark \in [Objects -> Colour] /\ gray \subseteq Listed /\ grayagain \subseteq Listed
        /\ th \in Objects /\ th \in Listed
  BY ListsGray, Kinds
<1>2. CASE mark[th] # "black"
  BY <1>1, <1>2, ListsGray DEF ThreadBarrier, Recoloured
<1>4. CASE mark[th] = "black"
  <2>1. mark' = [mark EXCEPT ![th] = "gray"] /\ gray' = gray /\ grayagain' = grayagain \cup {th}
    BY <1>4 DEF ThreadBarrier
  <2>2. {x \in Listed : mark'[x] # mark[x]} = {th}
    BY <1>1, <1>4, <2>1, Kinds
  <2>3. keepinvariant => gray' \cap grayagain' = {}
    BY <1>4, <2>1, ListsGray
  <2> QED
    BY <1>1, <1>4, <2>1, <2>2, <2>3 DEF Recoloured, Colour
<1> QED
  BY <1>2, <1>4

\* A mutator step that closes no upvalue and writes with barriers, unless an open
\* upvalue refers to the slot, keeps the part of the invariant about colours.
LEMMA BarrierStep ==
    ASSUME IInv, TypeOK', Runs, Recoloured({}),
           UNCHANGED <<fixed, alive, cap, uth, uslot, markedopen>>,
           \A x \in active' : x \in active \/ mark'[x] # "black",
           keepinvariant =>
              /\ \A t \in Tables : mark'[t] = "black" =>
                    /\ (field'[t] = field[t] \/ ~IsWhite(field[t])')
                    /\ (meta'[t] = meta[t] \/ ~IsWhite(meta[t])')
              /\ \A u \in UpVals : mark'[u] = "black" => (uval'[u] = uval[u] \/ ~IsWhite(uval[u])')
              /\ \A th \in Threads : mark'[th] = "black" =>
                    \A j \in 1..Slots : \/ stack'[th][j] = stack[th][j]
                                        \/ ~IsWhite(stack[th][j])'
                                        \/ \E u \in OpenOf(th) : uslot[u] = j
    PROVE  Live' = Live /\ Colours' /\ \A o \in Objects \ alive : mark'[o] = "white"
<1>2. /\ weak' = weak /\ phase' = phase /\ unswept' = unswept /\ full' = full
      /\ alive' = alive /\ cap' = cap
      /\ uth' = uth /\ uslot' = uslot /\ markedopen' = markedopen /\ phase \notin Stages
  BY DEF fixed, Runs
<1>5. /\ Live' = Live /\ GrayListed' /\ Swept' /\ (\A o \in Objects \ alive : mark'[o] = "white")
      /\ (keepinvariant => \A x : IsWhite(x)' /\ x \in Objects \cup {Nil} => IsWhite(x))
      /\ (\A x \in Objects : mark'[x] = "black" => mark[x] = "black")
      /\ (\A x \in UpVals : mark'[x] = "gray" => mark[x] = "gray")
  BY <1>2, RecolouredOk
<1>12. NeverBlack'
  BY <1>2, <1>5, Kinds DEF IInv, Heap, TypeOK, Colours, NeverBlack, Open
<1>13. BlackRefs'
  <2> SUFFICES ASSUME keepinvariant, NEW o \in alive, mark'[o] = "black"
               PROVE  (/\ o \in Tables => ~IsWhite(field[o]) /\ ~IsWhite(meta[o])
                       /\ o \in Closures => ~IsWhite(cap[o])
                       /\ o \in UpVals => ~IsWhite(uval[o])
                       /\ o \in Threads =>
                             /\ \A u \in OpenOf(o) : mark[u] = "gray"
                             /\ \A j \in 1..Slots : IsWhite(stack[o][j])
                                   => \E u \in OpenOf(o) : uslot[u] = j)'
    BY <1>2 DEF BlackRefs, keepinvariant
  <2>1. o \in Objects /\ mark[o] = "black"
    BY <1>5 DEF IInv, Heap, TypeOK
  <2>2. CASE o \in Tables
    <3>1. ~IsWhite(field[o]) /\ ~IsWhite(meta[o]) /\ field[o] \in Objects \cup {Nil}
            /\ meta[o] \in Objects \cup {Nil}
      BY <2>1, <2>2, Kinds DEF IInv, Heap, TypeOK, Colours, BlackRefs
    <3>2. ~IsWhite(field[o])' /\ ~IsWhite(meta[o])'
      BY <1>5, <2>2, <3>1
    <3> QED
      BY <2>2, <3>2, Kinds
  <2>3. CASE o \in Closures
    <3>1. ~IsWhite(cap[o]) /\ cap[o] \in Objects \cup {Nil}
      BY <2>1, <2>3, Kinds DEF IInv, Heap, TypeOK, Colours, BlackRefs
    <3>2. ~IsWhite(cap[o])'
      BY <1>2, <1>5, <3>1
    <3> QED
      BY <2>3, <3>2, Kinds
  <2>4. CASE o \in UpVals
    <3>1. ~IsWhite(uval[o]) /\ uval[o] \in Objects \cup {Nil}
      BY <2>1, <2>4, Kinds DEF IInv, Heap, TypeOK, Colours, BlackRefs
    <3>2. ~IsWhite(uval[o])'
      BY <1>5, <2>4, <3>1
    <3> QED
      BY <2>4, <3>2, Kinds
  <2>5. CASE o \in Threads
    <3>1. OpenOf(o)' = OpenOf(o)
      BY <1>2 DEF OpenOf
    <3>2. \A u \in OpenOf(o) : mark[u] = "gray"
      BY <2>1, <2>5 DEF IInv, Colours, BlackRefs
    <3>3. \A u \in OpenOf(o) : mark'[u] = "gray"
      <4> SUFFICES ASSUME NEW u \in OpenOf(o) PROVE mark'[u] = "gray"
        OBVIOUS
      <4>1. u \in UpVals /\ u \in Objects /\ mark[u] = "gray" /\ u \notin Listed
        BY <3>2, Kinds DEF OpenOf
      <4> QED
        BY <4>1 DEF Recoloured
    <3>4. ASSUME NEW j \in 1..Slots, IsWhite(stack[o][j])' PROVE \E u \in OpenOf(o) : uslot[u] = j
      <4>1. CASE stack'[o][j] = stack[o][j]
        <5>1. IsWhite(stack[o][j])
          BY <1>5, <2>5, <3>4, <4>1, Kinds DEF IInv, Heap, TypeOK
        <5> QED
          BY <2>1, <2>5, <5>1 DEF IInv, Colours, BlackRefs
      <4>2. CASE stack'[o][j] # stack[o][j]
        BY <2>5, <3>4, <4>2
      <4> QED
        BY <4>1, <4>2
    <3> QED
      BY <1>2, <2>5, <3>1, <3>3, <3>4, Kinds
  <2> QED
    BY <2>1, <2>2, <2>3, <2>4, <2>5, Kinds
<1>14. Marked'
  <2> SUFFICES ASSUME keepinvariant
               PROVE (/\ ~iswhite(Main) /\ ~iswhite(Globals)
                      /\ \A u \in UpVals : mark[u] = "gray" => uth[u] # Nil
                      /\ \A u \in markedopen : ~iswhite(u) /\ ~iswhite(uth[u]))'
    BY <1>2 DEF Marked, keepinvariant
  <2>1. \A x \in Objects : iswhite(x)' => iswhite(x)
    BY <1>5, Kinds DEF IsWhite, iswhite
  <2>2. Main \in Objects /\ Globals \in Objects /\ markedopen \subseteq Objects
          /\ \A u \in markedopen : uth[u] \in Objects
    BY Kinds DEF IInv, Heap, Fresh, Open, TypeOK
  <2> QED
    BY <1>2, <1>5, <2>1, <2>2 DEF IInv, Colours, Marked
<1>15. Staged' /\ OpenUnmarked'
  BY <1>2 DEF Staged, Stages, IInv, Colours, OpenUnmarked, keepinvariant
<1> QED
  BY <1>5, <1>12, <1>13, <1>14, <1>15 DEF Colours

\* luaV_settable: the barrier of a black table.
LEMMA SetTableStep == ASSUME IInv, SetTable PROVE IInv'
<1>1. PICK t \in (Seen \cup {Globals}) \cap Tables \cap use.objects, v \in Stack(running) \cup {Nil} :
          field' = [field EXCEPT ![t] = v] /\ BarrierTable(t, v)
  BY DEF SetTable
<1>2. /\ UNCHANGED <<fixed, alive, meta, cap, mt, stack, top, uth, uslot, uval, markedopen, active,
            running, from, use>> /\ Runs
  BY DEF SetTable, stks, upvs, cors, fixed
<1>3. t \in Tables /\ v \in Values /\ Ok(v)
  BY SeenOk, Kinds DEF Ok
<1>4. Recoloured({}) /\ (keepinvariant /\ mark'[t] = "black" => ~IsWhite(v)')
  BY <1>1, <1>3, TableOk
<1>6. field \in [Tables -> Values] /\ field' \in [Tables -> Values] /\ \A x \in Tables : field'[x]
        = IF x = t THEN v ELSE field[x]
  BY <1>1, <1>3 DEF IInv, Heap, TypeOK
<1>7. TypeOK'
  BY <1>2, <1>4, <1>6 DEF IInv, Heap, TypeOK, Recoloured, Colour, fixed
<1>5. Live' = Live /\ Colours' /\ \A o \in Objects \ alive : mark'[o] = "white"
  BY <1>2, <1>4, <1>6, <1>7, BarrierStep DEF fixed
<1>8. References'
  BY <1>2, <1>3, <1>5, <1>6 DEF IInv, Heap, References, Ok, Open
<1>9. t \in Live
  BY <1>1, SeenOk, Kinds DEF Seen, Ok, IInv, Heap, References
<1>10. Fresh'
  BY <1>2, <1>5, <1>6, <1>9 DEF IInv, Heap, Fresh, Live, Open
<1>11. Chain' /\ Held'
  BY <1>2 DEF IInv, Heap, Chain, Held, OpenOf
<1> QED
  BY <1>5, <1>7, <1>8, <1>10, <1>11 DEF IInv, Heap

\* lua_setmetatable; those of the basic types are marked again in atomic().
LEMMA SetMetatableStep == ASSUME IInv, SetMetatable PROVE IInv'
<1>1. PICK m \in (Seen \cap Tables) \cup {Nil} :
          \/ \E t \in Seen \cap Tables :
                meta' = [meta EXCEPT ![t] = m] /\ BarrierForward(t, m) /\ mt' = mt
          \/ use.basic /\ mt' = m /\ UNCHANGED <<meta, mark, gray, grayagain>>
  BY DEF SetMetatable
<1>2. /\ UNCHANGED <<fixed, alive, field, cap, stack, top, uth, uslot, uval, markedopen, active,
            running, from, use>> /\ Runs
  BY DEF SetMetatable, stks, upvs, cors, fixed
<1>3. m \in Tables \cup {Nil} /\ m \in Values /\ Ok(m)
  BY SeenOk, Kinds DEF Ok, Seen
<1>4. CASE \E t \in Seen \cap Tables : meta' = [meta EXCEPT ![t] = m] /\ BarrierForward(t,
        m) /\ mt' = mt
  <2>1. PICK t \in Seen \cap Tables : meta' = [meta EXCEPT ![t] = m] /\ BarrierForward(t, m) /\ mt' = mt
    BY <1>4
  <2>2. t \in Objects /\ t \in Live
    BY <2>1, SeenOk, Kinds DEF Seen, Ok
  <2>3. Recoloured({}) /\ (keepinvariant /\ mark'[t] = "black" => ~IsWhite(m)')
    BY <1>3, <2>1, <2>2, ForwardOk
  <2>6. meta \in [Tables -> Tables \cup {Nil}] /\ meta' \in [Tables -> Tables \cup {Nil}]
          /\ \A x \in Tables : meta'[x] = IF x = t THEN m ELSE meta[x]
    BY <2>1, <1>3 DEF IInv, Heap, TypeOK
  <2>7. TypeOK'
    BY <1>2, <2>1, <2>3, <2>6 DEF IInv, Heap, TypeOK, Recoloured, Colour, fixed
  <2>5. Live' = Live /\ Colours' /\ \A o \in Objects \ alive : mark'[o] = "white"
    BY <1>2, <2>3, <2>6, <2>7, BarrierStep DEF fixed
  <2>8. References'
    BY <1>2, <1>3, <2>1, <2>5, <2>6 DEF IInv, Heap, References, Ok, Open
  <2>10. Fresh'
    BY <1>2, <2>2, <2>5, <2>6 DEF IInv, Heap, Fresh, Live, Open
  <2>11. Chain' /\ Held'
    BY <1>2 DEF IInv, Heap, Chain, Held, OpenOf
  <2> QED
    BY <2>5, <2>7, <2>8, <2>10, <2>11 DEF IInv, Heap
<1>5. CASE mt' = m /\ UNCHANGED <<meta, mark, gray, grayagain>>
  <2>1. UNCHANGED <<fixed, alive, field, meta, cap, stack, top, uth, uslot, uval, markedopen, active,
          running, from, use, mark, gray, grayagain, phase, weak, unswept, full>> /\ Runs
    BY <1>2, <1>5 DEF fixed
  <2>2. TypeOK'
    BY <1>3, <1>5, <2>1 DEF IInv, Heap, TypeOK
  <2>0. Live' = Live /\ Ok(mt)'
    BY <1>3, <1>5, <2>1 DEF Live, isdead, Ok
  <2>3. References' /\ Fresh' /\ Chain' /\ Held'
    <3>1. References'
      BY <2>0, <2>1 DEF IInv, Heap, References, Ok, Open
    <3>2. Fresh'
      BY <2>1 DEF IInv, Heap, Fresh, Open
    <3>3. Chain' /\ Held'
      BY <2>1 DEF IInv, Heap, Chain, Held, OpenOf
    <3> QED
      BY <3>1, <3>2, <3>3
  <2>4. GrayListed' /\ Swept' /\ NeverBlack' /\ BlackRefs' /\ Marked' /\ OpenUnmarked'
    BY <2>1 DEF IInv, Colours, GrayListed, Swept, NeverBlack, BlackRefs, Marked, OpenUnmarked,
        keepinvariant, IsWhite, iswhite, Open, OpenOf
  <2>5. Staged'
    BY <2>1 DEF Runs, Staged, Stages
  <2> QED
    BY <2>2, <2>3, <2>4, <2>5 DEF IInv, Heap, Colours
<1> QED
  BY <1>1, <1>4, <1>5

\* LOP_SETUPVAL: an open upvalue is never black, a closed one has a barrier.
LEMMA SetUpvalStep == ASSUME IInv, SetUpval PROVE IInv'
<1>1. PICK f \in Seen \cap Closures, v \in Stack(running) :
          /\ cap[f] \in UpVals
          /\ IF uth[cap[f]] # Nil
             THEN stack' = [stack EXCEPT ![uth[cap[f]]][uslot[cap[f]]] = v] /\ uval' = uval
             ELSE uval' = [uval EXCEPT ![cap[f]] = v] /\ stack' = stack
          /\ BarrierForward(cap[f], v)
  BY DEF SetUpval
<1> DEFINE uv == cap[f]
<1>2. /\ UNCHANGED <<fixed, alive, field, meta, mt, cap, top, uth, uslot, markedopen, active,
            running, from, use>> /\ Runs
  BY DEF SetUpval, heap, cors, fixed
<1>3. v \in Values /\ Ok(v) /\ uv \in UpVals /\ uv \in Objects /\ uv \in Live
  <2>1. f \in Closures \cap Live
    BY <1>1, SeenOk DEF Seen, Ok
  <2>2. Ok(cap[f])
    BY <2>1 DEF IInv, Heap, References
  <2> QED
    BY <1>1, <2>2, SeenOk, Kinds DEF Ok
<1>4. Recoloured({}) /\ (mark[uv] # "black" => UNCHANGED <<mark, gray, grayagain>>)
      /\ (keepinvariant /\ mark'[uv] = "black" => ~IsWhite(v)')
  BY <1>1, <1>3, ForwardOk
<1>5. /\ stack' \in [Threads -> [1..Slots -> Values]]
      /\ \A th \in Threads : \A j \in 1..Slots :
            stack'[th][j] = stack[th][j] \/ (stack'[th][j] = v /\ uth[uv] = th /\ uslot[uv] = j)
  <2>0. stack \in [Threads -> [1..Slots -> Values]]
    BY DEF IInv, Heap, TypeOK
  <2>1. CASE uth[uv] = Nil
    BY <1>1, <2>0, <2>1
  <2>2. CASE uth[uv] # Nil
    <3>1. uth[uv] \in Threads /\ uslot[uv] \in 1..Slots
      BY <1>3, <2>2 DEF IInv, Heap, TypeOK
    <3>2. stack' = [stack EXCEPT ![uth[uv]] = [stack[uth[uv]] EXCEPT ![uslot[uv]] = v]]
      BY <1>1, <2>0, <2>2, <3>1
    <3>3. stack[uth[uv]] \in [1..Slots -> Values]
      BY <2>0, <3>1
    <3>4. [stack[uth[uv]] EXCEPT ![uslot[uv]] = v] \in [1..Slots -> Values]
      BY <1>3, <3>3
    <3> QED
      BY <1>3, <2>0, <3>1, <3>2, <3>3, <3>4
  <2> QED
    BY <2>1, <2>2
<1>6. /\ uval' \in [UpVals -> Values]
      /\ \A u \in UpVals : uval'[u] = uval[u] \/ (uval'[u] = v /\ u = uv /\ uth[uv] = Nil)
  BY <1>1, <1>3 DEF IInv, Heap, TypeOK
<1> HIDE DEF uv
<1>7. TypeOK'
  BY <1>2, <1>4, <1>5, <1>6 DEF IInv, Heap, TypeOK, Recoloured, Colour, fixed
<1>8. Live' = Live /\ Colours' /\ \A o \in Objects \ alive : mark'[o] = "white"
  <2>1. ASSUME keepinvariant, NEW u \in UpVals, mark'[u] = "black"
          PROVE uval'[u] = uval[u] \/ ~IsWhite(uval[u])'
    BY <1>4, <1>6, <2>1
  <2>2. ASSUME NEW th \in Threads, NEW j \in 1..Slots
          PROVE stack'[th][j] = stack[th][j] \/ \E u \in OpenOf(th) : uslot[u] = j
    BY <1>3, <1>5 DEF OpenOf
  <2> QED
    BY <1>2, <1>4, <1>7, <2>1, <2>2, BarrierStep DEF fixed
<1>9. References'
  <2>1. \A th \in Threads \cap Live' : \A j \in 1..Slots : Ok(stack[th][j])'
    BY <1>3, <1>5, <1>8 DEF IInv, Heap, References, Ok
  <2>2. \A u \in UpVals \cap Live' : IF uth[u]' = Nil THEN Ok(uval[u])' ELSE uth[u]' \in Live'
    BY <1>2, <1>3, <1>6, <1>8 DEF IInv, Heap, References, Ok
  <2> QED
    BY <1>2, <1>8, <2>1, <2>2 DEF IInv, Heap, References, Ok, Open
<1>10. Fresh'
  <2>1. \A th \in Threads \ alive : stack'[th] = stack[th]
    <3> SUFFICES ASSUME NEW th \in Threads \ alive PROVE stack'[th] = stack[th]
      OBVIOUS
    <3>1. uth[uv] # th
      BY <1>3, Kinds DEF IInv, Heap, References, Live
    <3>2. \A j \in 1..Slots : stack'[th][j] = stack[th][j]
      BY <1>5, <3>1
    <3>3. stack'[th] \in [1..Slots -> Values] /\ stack[th] \in [1..Slots -> Values]
      BY <1>5 DEF IInv, Heap, TypeOK
    <3>4. stack'[th] = [j \in 1..Slots |-> stack'[th][j]] /\ stack[th]
            = [j \in 1..Slots |-> stack[th][j]]
      BY <3>3
    <3>5. [j \in 1..Slots |-> stack'[th][j]] = [j \in 1..Slots |-> stack[th][j]]
      BY <3>2
    <3> QED
      BY <3>4, <3>5
  <2>2. \A u \in UpVals \ alive : uval'[u] = uval[u]
    BY <1>3, <1>6 DEF Live
  <2> QED
    BY <1>2, <1>8, <2>1, <2>2 DEF IInv, Heap, Fresh, Open
<1>11. Chain'
  BY <1>2 DEF IInv, Heap, Chain
<1>12. Held'
  <2> SUFFICES ASSUME NEW th \in active \ {Main}
               PROVE  \E k \in 1..top[from[th]] : stack'[from[th]][k] = th
                   /\ \A u \in OpenOf(from[th]) : uslot[u] # k
    BY <1>2 DEF Held, OpenOf
  <2>1. from[th] \in Threads /\ top[from[th]] \in 0..Slots /\ Slots \in Nat
    BY Kinds DEF IInv, Heap, Chain, TypeOK
  <2>2. PICK k \in 1..top[from[th]] : stack[from[th]][k] = th
          /\ \A u \in OpenOf(from[th]) : uslot[u] # k
    BY DEF IInv, Heap, Held
  <2>3. ~(uth[uv] = from[th] /\ uslot[uv] = k)
    BY <1>3, <2>2 DEF OpenOf
  <2>4. k \in 1..Slots
    BY <2>1
  <2> QED
    BY <1>5, <2>1, <2>2, <2>3, <2>4
<1> QED
  BY <1>7, <1>8, <1>9, <1>10, <1>11, <1>12 DEF IInv, Heap

\* A call includes slots the last one left behind.
LEMMA CallStep == ASSUME IInv, Call PROVE IInv'
<1>1. PICK k \in top[running]+1..use.slots[running] : top' = [top EXCEPT ![running] = k]
  BY DEF Call
<1>2. /\ UNCHANGED <<fixed, alive, field, meta, mt, cap, stack, uth, uslot, uval, markedopen, active,
            running, from, mark, gray, grayagain,
                     use, weak, phase, unswept, full>> /\ Runs
  BY DEF Call, heap, upvs, cors, fixed
<1>3. running \in Threads /\ running \in Live /\ top \in [Threads -> 0..Slots]
        /\ use.slots[running] \in 0..Slots /\ Slots \in Nat
  BY SeenOk, Uses_, Kinds DEF IInv, Heap, TypeOK
<1>4. k \in 0..Slots
  BY <1>1, <1>3
<1>5. top' \in [Threads -> 0..Slots] /\ \A th \in Threads : th # running => top'[th] = top[th]
  BY <1>1, <1>3, <1>4
<1>6. TypeOK'
  BY <1>2, <1>5 DEF IInv, Heap, TypeOK
<1>7. References' /\ Fresh'
  <2>1. References'
    BY <1>2 DEF IInv, Heap, References, Ok, Live, isdead, Open
  <2>2. Fresh'
    BY <1>2, <1>3, <1>5 DEF IInv, Heap, Fresh, Open, Live
  <2> QED
    BY <2>1, <2>2
<1>8. Chain' /\ Held'
  <2>1. Chain'
    BY <1>2 DEF IInv, Heap, Chain
  <2>2. \A th \in active \ {Main} : from[th] \in Threads /\ from[th] # running
    BY DEF IInv, Heap, Chain, TypeOK
  <2>3. \A th \in active \ {Main} : top'[from[th]] = top[from[th]]
    BY <1>5, <2>2
  <2>4. Held'
    BY <1>2, <2>3 DEF IInv, Heap, Held, OpenOf
  <2> QED
    BY <2>1, <2>4
<1>9. GrayListed' /\ Swept' /\ NeverBlack' /\ BlackRefs' /\ Marked' /\ OpenUnmarked'
  BY <1>2 DEF IInv, Colours, GrayListed, Swept, NeverBlack, BlackRefs, Marked, OpenUnmarked,
      keepinvariant, IsWhite, iswhite, Open, OpenOf
<1>10. Staged'
  BY <1>2 DEF Runs, Staged, Stages
<1> QED
  BY <1>6, <1>7, <1>8, <1>9, <1>10 DEF IInv, Heap, Colours

\* A resumed coroutine is not black, and is in the frame of the one that resumed it.
LEMMA ResumeStep == ASSUME IInv, Resume PROVE IInv'
<1>1. PICK co \in Resumable :
          /\ \/ UNCHANGED stks
             \/ /\ top[co] < use.slots[co]
                /\ \E v \in Stack(running) : stack' = [stack EXCEPT ![co][top[co] + 1] = v]
                /\ top' = [top EXCEPT ![co] = @ + 1]
          /\ ThreadBarrier(co)
          /\ active' = active \cup {co} /\ running' = co /\ from' = [from EXCEPT ![co] = running]
  BY DEF Resume
<1>2. /\ UNCHANGED <<fixed, alive, field, meta, mt, cap, uth, uslot, uval, markedopen, use>> /\ Runs
  BY DEF Resume, heap, upvs, fixed
<1>3. /\ co \in Threads /\ co \notin active /\ running \in Threads /\ running \in active /\ co # running
      /\ co \in Live
  <2>1. co \in Stack(running)
    BY DEF Resumable, Stack, Regs
  <2> QED
    BY <2>1, SeenOk, Kinds DEF Resumable, Ok, IInv, Heap, TypeOK
<1>4. Recoloured({}) /\ mark'[co] # "black"
  BY <1>1, <1>3, ThreadOk
<1>5. /\ stack' \in [Threads -> [1..Slots -> Values]]
      /\ top' \in [Threads -> 0..Slots]
      /\ \A th \in Threads : th # co => stack'[th] = stack[th] /\ top'[th] = top[th]
      /\ \A j \in 1..Slots : stack'[co][j] = stack[co][j] \/ (stack'[co][j] \in Values
            /\ Ok(stack'[co][j]))
  <2>0. stack \in [Threads -> [1..Slots -> Values]] /\ top \in [Threads -> 0..Slots]
          /\ Slots \in Nat /\ use.slots[co] \in 0..Slots
    BY <1>3, Uses_, Kinds DEF IInv, Heap, TypeOK
  <2>1. CASE UNCHANGED stks
    BY <2>0, <2>1 DEF stks
  <2>2. ASSUME top[co] < use.slots[co], NEW v \in Stack(running),
          stack' = [stack EXCEPT ![co][top[co] + 1] = v],
               top' = [top EXCEPT ![co] = @ + 1]
        PROVE  /\ stack' \in [Threads -> [1..Slots -> Values]]
               /\ top' \in [Threads -> 0..Slots]
               /\ \A th \in Threads : th # co => stack'[th] = stack[th] /\ top'[th] = top[th]
               /\ \A j \in 1..Slots : stack'[co][j] = stack[co][j] \/ (stack'[co][j] \in Values
                     /\ Ok(stack'[co][j]))
    <3>1. v \in Values /\ Ok(v)
      BY SeenOk
    <3>2. top[co] + 1 \in 1..Slots /\ top[co] + 1 \in 0..Slots
      BY <1>3, <2>0, <2>2
    <3>3. stack' = [stack EXCEPT ![co] = [stack[co] EXCEPT ![top[co] + 1] = v]]
      BY <1>3, <2>0, <2>2
    <3>4. stack[co] \in [1..Slots -> Values]
      BY <1>3, <2>0
    <3>5. [stack[co] EXCEPT ![top[co] + 1] = v] \in [1..Slots -> Values]
      BY <3>1, <3>4
    <3>6. stack' \in [Threads -> [1..Slots -> Values]] /\ \A th \in Threads : th # co => stack'[th]
            = stack[th]
      BY <1>3, <2>0, <3>3, <3>5
    <3>7. \A j \in 1..Slots : stack'[co][j] = stack[co][j] \/ stack'[co][j] = v
      BY <1>3, <2>0, <3>2, <3>3, <3>4
    <3>8. top' \in [Threads -> 0..Slots] /\ \A th \in Threads : th # co => top'[th] = top[th]
      BY <1>3, <2>0, <2>2, <3>2
    <3> QED
      BY <3>1, <3>6, <3>7, <3>8
  <2> QED
    BY <1>1, <2>1, <2>2
<1>6. active \subseteq Threads /\ from \in [Threads -> Threads \cup {Nil}]
  BY DEF IInv, Heap, TypeOK
<1>7. TypeOK'
  BY <1>1, <1>2, <1>3, <1>4, <1>5, <1>6 DEF IInv, Heap, TypeOK, Recoloured, Colour, fixed
<1>8. Live' = Live /\ Colours' /\ \A o \in Objects \ alive : mark'[o] = "white"
  <2>1. \A x \in active' : x \in active \/ mark'[x] # "black"
    BY <1>1, <1>4
  <2>2. \A th \in Threads : mark'[th] = "black" => stack'[th] = stack[th]
    BY <1>4, <1>5
  <2> QED
    BY <1>2, <1>4, <1>7, <2>1, <2>2, BarrierStep, Kinds DEF fixed, IInv, Heap, TypeOK
<1>9. References'
  <2>1. \A th \in Threads \cap Live' : \A j \in 1..Slots : Ok(stack[th][j])'
    BY <1>3, <1>5, <1>8 DEF IInv, Heap, References, Ok
  <2> QED
    BY <1>1, <1>2, <1>3, <1>8, <2>1 DEF IInv, Heap, References, Ok, Open
<1>10. Fresh'
  BY <1>2, <1>3, <1>5, <1>8 DEF IInv, Heap, Fresh, Open, Live
<1>11. \A th \in active : th # co /\ from'[th] = from[th]
  BY <1>1, <1>3, <1>6
<1>12. from'[co] = running /\ running' = co /\ active' = active \cup {co} /\ co # Main
  BY <1>1, <1>3, <1>6 DEF IInv, Heap, Chain
<1>13. Chain'
  <2>1. Main \in active' /\ \A th \in active' \ {Main} : from'[th] \in active' /\ from'[th] # co
    BY <1>3, <1>11, <1>12 DEF IInv, Heap, Chain
  <2>2. \A a, b \in active' \ {Main} : from'[a] = from'[b] => a = b
    BY <1>3, <1>11, <1>12 DEF IInv, Heap, Chain
  <2>3. ASSUME NEW S \in SUBSET active', Main \in S,
          \A th \in active' \ {Main} : from'[th] \in S => th \in S
        PROVE  active' = S
    <3>1. \A th \in active \ {Main} : from[th] \in S \cap active => th \in S \cap active
      BY <1>11, <1>12, <2>3
    <3>2. active = S \cap active
      BY <2>3, <3>1 DEF IInv, Heap, Chain
    <3> QED
      BY <1>3, <1>12, <2>3, <3>2
  <2> QED
    BY <1>12, <2>1, <2>2, <2>3 DEF Chain
<1>14. Held'
  <2> SUFFICES ASSUME NEW th \in active' \ {Main}
               PROVE  \E k \in 1..top'[from'[th]] : stack'[from'[th]][k] = th
                   /\ \A u \in OpenOf(from'[th]) : uslot[u] # k
    BY <1>2 DEF Held, OpenOf
  <2>1. CASE th = co
    <3>1. PICK i \in Regs : stack[running][i] = co /\ \A u \in OpenOf(running) : uslot[u] # i
      BY DEF Resumable
    <3> QED
      BY <1>3, <1>5, <1>12, <2>1, <3>1 DEF Regs
  <2>2. CASE th \in active
    <3>1. from[th] \in active /\ from[th] \in Threads
      BY <1>6, <2>2 DEF IInv, Heap, Chain
    <3>2. \E k \in 1..top[from[th]] : stack[from[th]][k] = th
            /\ \A u \in OpenOf(from[th]) : uslot[u] # k
      BY <2>2 DEF IInv, Heap, Held
    <3> QED
      BY <1>3, <1>5, <1>11, <2>2, <3>1, <3>2
  <2> QED
    BY <1>12, <2>1, <2>2
<1> QED
  BY <1>7, <1>8, <1>9, <1>10, <1>13, <1>14 DEF IInv, Heap

\* The one that goes on was never black.
LEMMA YieldStep == ASSUME IInv, Yield PROVE IInv'
<1> DEFINE to == from[running]
<1>1. /\ \/ UNCHANGED stks
         \/ /\ top[running] > 0
            /\ \E i \in 1..top[to] : stack' = [stack EXCEPT ![to][i] = stack[running][top[running]]]
            /\ top' = [top EXCEPT ![running] = @ - 1]
      /\ ThreadBarrier(to)
      /\ active' = active \ {running} /\ running' = to /\ from' = [from EXCEPT ![running] = Nil]
      /\ running # Main
  BY DEF Yield
<1>2. /\ UNCHANGED <<fixed, alive, field, meta, mt, cap, uth, uslot, uval, markedopen, use>> /\ Runs
  BY DEF Yield, heap, upvs, fixed
<1>3. /\ running \in Threads /\ running \in active /\ to \in active /\ to \in Threads /\ to # running
      /\ active \subseteq Threads /\ from \in [Threads -> Threads \cup {Nil}]
  BY <1>1 DEF IInv, Heap, Chain, TypeOK
<1>4. \A th \in active' \ {Main} : th \in active \ {Main} /\ from'[th] = from[th]
        /\ from[th] \in active' /\ from[th] # to /\ from[th] # running
  BY <1>1, <1>3 DEF IInv, Heap, Chain
<1>5. /\ stack' \in [Threads -> [1..Slots -> Values]]
      /\ top' \in [Threads -> 0..Slots]
      /\ \A th \in Threads : th # to => stack'[th] = stack[th]
      /\ \A th \in Threads : th # running => top'[th] = top[th]
      /\ \A j \in 1..Slots : stack'[to][j] = stack[to][j] \/ (stack'[to][j] \in Values
            /\ Ok(stack'[to][j]))
  <2>0. stack \in [Threads -> [1..Slots -> Values]] /\ top \in [Threads -> 0..Slots] /\ Slots \in Nat
    BY Kinds DEF IInv, Heap, TypeOK
  <2>1. CASE UNCHANGED stks
    BY <2>0, <2>1 DEF stks
  <2>2. ASSUME top[running] > 0, NEW i \in 1..top[to],
          stack' = [stack EXCEPT ![to][i] = stack[running][top[running]]],
               top' = [top EXCEPT ![running] = @ - 1]
        PROVE  /\ stack' \in [Threads -> [1..Slots -> Values]]
               /\ top' \in [Threads -> 0..Slots]
               /\ \A th \in Threads : th # to => stack'[th] = stack[th]
               /\ \A th \in Threads : th # running => top'[th] = top[th]
               /\ \A j \in 1..Slots : stack'[to][j] = stack[to][j] \/ (stack'[to][j] \in Values
                     /\ Ok(stack'[to][j]))
    <3> DEFINE v == stack[running][top[running]]
    <3>1. top[running] \in 1..Slots /\ top[running] - 1 \in 0..Slots /\ i \in 1..Slots
      BY <1>3, <2>0, <2>2
    <3>2. v \in Values /\ Ok(v)
      BY <3>1, SeenOk
    <3>3. stack' = [stack EXCEPT ![to] = [stack[to] EXCEPT ![i] = v]]
      BY <1>3, <2>0, <2>2
    <3> HIDE DEF v
    <3>4. stack[to] \in [1..Slots -> Values]
      BY <1>3, <2>0
    <3>5. [stack[to] EXCEPT ![i] = v] \in [1..Slots -> Values]
      BY <3>2, <3>4
    <3>6. stack' \in [Threads -> [1..Slots -> Values]] /\ \A th \in Threads : th # to => stack'[th]
            = stack[th]
      BY <1>3, <2>0, <3>3, <3>5
    <3>7. \A j \in 1..Slots : stack'[to][j] = stack[to][j] \/ stack'[to][j] = v
      BY <1>3, <2>0, <3>1, <3>3, <3>4
    <3>8. top' \in [Threads -> 0..Slots] /\ \A th \in Threads : th # running => top'[th] = top[th]
      BY <1>3, <2>0, <2>2, <3>1
    <3> QED
      BY <3>2, <3>6, <3>7, <3>8
  <2> QED
    BY <1>1, <2>1, <2>2
<1> HIDE DEF to
<1>6. Recoloured({}) /\ UNCHANGED <<mark, gray, grayagain>>
  <2>1. mark[to] # "black"
    BY <1>3 DEF IInv, Colours, NeverBlack
  <2> QED
    BY <1>1, <1>3, <2>1, ThreadOk
<1>7. TypeOK'
  BY <1>1, <1>2, <1>3, <1>5, <1>6 DEF IInv, Heap, TypeOK, fixed
<1>8. Live' = Live /\ Colours' /\ \A o \in Objects \ alive : mark'[o] = "white"
  <2>1. \A x \in active' : x \in active
    BY <1>1
  <2>2. mark'[to] # "black"
    BY <1>3, <1>6 DEF IInv, Colours, NeverBlack
  <2>3. \A th \in Threads : mark'[th] = "black" => stack'[th] = stack[th]
    BY <1>5, <2>2
  <2> QED
    BY <1>2, <1>6, <1>7, <2>1, <2>3, BarrierStep, Kinds DEF fixed
<1>9. References'
  <2>1. \A th \in Threads \cap Live' : \A j \in 1..Slots : Ok(stack[th][j])'
    BY <1>3, <1>5, <1>8 DEF IInv, Heap, References, Ok
  <2> QED
    BY <1>1, <1>2, <1>3, <1>8, <2>1 DEF IInv, Heap, References, Ok, Open
<1>10. Fresh'
  <2>1. running \in Live /\ to \in Live
    BY <1>3 DEF IInv, Heap, References
  <2> QED
    BY <1>2, <1>5, <1>8, <2>1 DEF IInv, Heap, Fresh, Open, Live
<1>13. Chain'
  <2>1. Main \in active'
    BY <1>1 DEF IInv, Heap, Chain
  <2>2. \A a, b \in active' \ {Main} : from'[a] = from'[b] => a = b
    BY <1>4 DEF IInv, Heap, Chain
  <2>3. ASSUME NEW S \in SUBSET active', Main \in S,
          \A th \in active' \ {Main} : from'[th] \in S => th \in S
        PROVE  active' = S
    <3>1. \A th \in active \ {Main} : from[th] \in S \cup {running} => th \in S \cup {running}
      BY <1>1, <1>3, <1>4, <2>3
    <3>2. S \cup {running} \in SUBSET active /\ Main \in S \cup {running}
      BY <1>1, <1>3, <2>3
    <3>3. active = S \cup {running}
      BY <3>1, <3>2 DEF IInv, Heap, Chain
    <3> QED
      BY <1>1, <2>3, <3>3
  <2> QED
    BY <1>1, <1>4, <2>1, <2>2, <2>3 DEF Chain
<1>14. Held'
  <2> SUFFICES ASSUME NEW th \in active' \ {Main}
               PROVE  \E k \in 1..top'[from'[th]] : stack'[from'[th]][k] = th
                   /\ \A u \in OpenOf(from'[th]) : uslot[u] # k
    BY <1>2 DEF Held, OpenOf
  <2>1. from[th] \in Threads /\ from'[th] = from[th] /\ from[th] # to /\ from[th] # running
          /\ th \in active \ {Main}
    BY <1>1, <1>3, <1>4
  <2>2. \E k \in 1..top[from[th]] : stack[from[th]][k] = th /\ \A u \in OpenOf(from[th]) : uslot[u] # k
    BY <2>1 DEF IInv, Heap, Held
  <2> QED
    BY <1>5, <2>1, <2>2
<1> QED
  BY <1>7, <1>8, <1>9, <1>10, <1>13, <1>14 DEF IInv, Heap

\* luaF_closeupval with luaC_upvalclosed.
LEMMA CloseOk ==
    ASSUME IInv, NEW us \in SUBSET Open, CloseUpvals(us)
    PROVE  /\ Recoloured(us)
           /\ uth' \in [UpVals -> Threads \cup {Nil}] /\ uslot' \in [UpVals -> 1..Slots]
                 /\ uval' \in [UpVals -> Values]
           /\ \A u \in us : uth'[u] = Nil /\ uval'[u] = Val(u) /\ Ok(Val(u)) /\ u \in Live
           /\ \A u \in UpVals \ us : uth'[u] = uth[u] /\ uval'[u] = uval[u] /\ uslot'[u] = uslot[u]
           /\ markedopen' = markedopen \ us
           /\ keepinvariant => \A u \in us : mark'[u] # "gray" /\ (mark'[u] = "black"
                 => ~IsWhite(uval[u])')
<1> DEFINE marked == {u \in us : mark[u] = "gray"}
           vs == {Val(u) : u \in marked}
           es == Reached(vs)
<1>1. mark \in [Objects -> Colour] /\ gray \subseteq Listed /\ grayagain \subseteq Listed
        /\ TypeOK /\ us \subseteq UpVals
      /\ us \subseteq Objects /\ uth \in [UpVals -> Threads \cup {Nil}]
            /\ uslot \in [UpVals -> 1..Slots] /\ uval \in [UpVals -> Values]
      /\ 1 \in 1..Slots
  BY ListsGray, Kinds DEF IInv, Heap, TypeOK, Open
<1>2. \A u \in us : u \in Live /\ Val(u) \in Values /\ Ok(Val(u)) /\ mark[u] # "black"
  BY <1>1, ValOk DEF IInv, Heap, References, Colours, NeverBlack
<1>3. vs \in SUBSET Values
  BY <1>2
<1>4. /\ uval' = [u \in UpVals |-> IF u \in us THEN Val(u) ELSE uval[u]]
      /\ uth' = [u \in UpVals |-> IF u \in us THEN Nil ELSE uth[u]]
      /\ uslot' = [u \in UpVals |-> IF u \in us THEN 1 ELSE uslot[u]]
      /\ markedopen' = markedopen \ us /\ grayagain' = grayagain
      /\ keepinvariant => /\ mark' = [o \in Objects |-> IF o \in marked THEN "black" ELSE Paint(es)[o]]
                          /\ gray' = gray \cup (es \cap Listed)
      /\ ~keepinvariant => /\ mark' = [o \in Objects |-> IF o \in marked THEN "white" ELSE mark[o]]
                           /\ gray' = gray
  BY DEF CloseUpvals
<1>5. /\ es = {v \in vs : IsWhite(v)} /\ es \subseteq Objects \ UpVals
      /\ Paint(es) = [o \in Objects |-> IF o \in vs /\ IsWhite(o) THEN "gray" ELSE mark[o]]
  BY <1>1, <1>3, MarkValues
<1>6. \A v \in es : mark[v] \in {"white", "dead"} /\ v \in Live /\ mark[v] = "white"
  BY <1>1, <1>2, <1>5 DEF IsWhite, iswhite, Ok, Live, isdead
<1>7. \A o \in Objects : o \in es <=> o \in vs /\ IsWhite(o)
  BY <1>5
<1> HIDE DEF es, vs
<1>8. keepinvariant => mark'
        = [o \in Objects |-> IF o \in marked THEN "black" ELSE IF o \in es THEN "gray" ELSE mark[o]]
  BY <1>4, <1>5, <1>7
<1>9. Recoloured(us)
  <2>1. mark' \in [Objects -> Colour]
    BY <1>1, <1>4, <1>8 DEF Colour
  <2>2. gray' \subseteq Listed /\ grayagain' \subseteq Listed
    BY <1>1, <1>4
  <2>3. ASSUME NEW x \in Objects, mark'[x] # mark[x]
        PROVE  \/ mark[x] = "white" /\ mark'[x] = "gray" /\ x \in Live \ UpVals /\ keepinvariant
               \/ mark[x] = "gray" /\ x \in us /\ mark'[x] = IF keepinvariant THEN "black" ELSE "white"
    <3>1. CASE keepinvariant
      BY <1>5, <1>6, <1>8, <2>3, <3>1
    <3>2. CASE ~keepinvariant
      BY <1>4, <2>3, <3>2
    <3> QED
      BY <3>1, <3>2
  <2>4. ASSUME keepinvariant
        PROVE  /\ gray' \cup grayagain' = gray \cup grayagain \cup {x \in Listed : mark'[x] # mark[x]}
               /\ gray' \cap grayagain' = {}
    <3>1. us \cap Listed = {} /\ Listed \subseteq Objects
      BY <1>1, Kinds
    <3>2. {x \in Listed : mark'[x] # mark[x]} = es \cap Listed
      BY <1>5, <1>6, <1>8, <2>4, <3>1
    <3>3. es \cap grayagain = {}
      BY <1>6, <2>4, ListsGray
    <3> QED
      BY <1>4, <2>4, <3>2, <3>3, ListsGray
  <2> HIDE DEF marked
  <2> QED
    BY <2>1, <2>2, <2>3, <2>4 DEF Recoloured
<1>10. keepinvariant => \A u \in us : mark'[u] # "gray" /\ (mark'[u] = "black" => ~IsWhite(uval[u])')
  <2> SUFFICES ASSUME keepinvariant, NEW u \in us
        PROVE mark'[u] # "gray" /\ (mark'[u] = "black" => ~IsWhite(uval[u])')
    OBVIOUS
  <2>1. u \in Objects /\ u \notin es /\ uval'[u] = Val(u) /\ mark[u] # "black"
    BY <1>1, <1>2, <1>4, <1>5
  <2>2. mark'[u] # "gray"
    BY <1>8, <2>1
  <2>3. ASSUME mark'[u] = "black", Val(u) # Nil PROVE mark'[Val(u)] \notin {"white", "dead"}
    <3>1. u \in marked
      BY <1>8, <2>1, <2>3
    <3>2. Val(u) \in vs /\ Val(u) \in Objects
      BY <1>2, <2>3, <3>1 DEF vs, Values
    <3>3. CASE Val(u) \in es
      BY <1>8, <3>2, <3>3
    <3>4. CASE Val(u) \notin es
      BY <1>7, <1>8, <2>3, <3>2, <3>4 DEF IsWhite, iswhite
    <3> QED
      BY <3>3, <3>4
  <2> QED
    BY <2>1, <2>2, <2>3 DEF IsWhite, iswhite
<1> QED
  BY <1>1, <1>2, <1>4, <1>9, <1>10

\* A step that closes upvalues of the running thread, or all of a thread that is
\* reset.
LEMMA CloseStep ==
    ASSUME IInv, Runs, NEW th0 \in Threads \cap Live, NEW us \in SUBSET OpenOf(th0), CloseUpvals(us),
           UNCHANGED <<fixed, alive, field, meta, cap, mt, cors>>,
           stack' \in [Threads -> [1..Slots -> Values]], top' \in [Threads -> 0..Slots],
           \A th \in Threads : th # th0 => stack'[th] = stack[th] /\ top'[th] = top[th],
           \A j \in 1..Slots : stack'[th0][j] \in {stack[th0][j], Nil},
           \/ th0 = running
           \/ th0 \notin active /\ us = OpenOf(th0) /\ \A j \in 1..Slots : stack'[th0][j] = Nil
    PROVE  IInv'
<1>1. /\ use' = use /\ weak' = weak /\ phase' = phase /\ unswept' = unswept /\ full' = full
      /\ alive' = alive /\ field' = field /\ meta' = meta /\ cap' = cap /\ mt' = mt
      /\ active' = active /\ running' = running /\ from' = from /\ phase \notin Stages
  BY DEF fixed, cors, Runs
<1>2. us \in SUBSET Open /\ us \subseteq UpVals
  BY Kinds DEF Open, OpenOf
<1>3. /\ Recoloured(us)
      /\ uth' \in [UpVals -> Threads \cup {Nil}] /\ uslot' \in [UpVals -> 1..Slots]
            /\ uval' \in [UpVals -> Values]
      /\ (\A u \in us : uth'[u] = Nil /\ uval'[u] = Val(u) /\ Ok(Val(u)) /\ u \in Live)
      /\ (\A u \in UpVals \ us : uth'[u] = uth[u] /\ uval'[u] = uval[u] /\ uslot'[u] = uslot[u])
      /\ markedopen' = markedopen \ us
      /\ (keepinvariant => \A u \in us : mark'[u] # "gray" /\ (mark'[u] = "black"
            => ~IsWhite(uval[u])'))
  BY <1>2, CloseOk
<1>4. /\ Live' = Live /\ GrayListed' /\ Swept' /\ (\A o \in Objects \ alive : mark'[o] = "white")
      /\ (keepinvariant => \A x : IsWhite(x)' /\ x \in Objects \cup {Nil} => IsWhite(x))
      /\ (\A x \in Objects : mark'[x] = "black" => mark[x] = "black" \/ (x \in us /\ mark[x] = "gray"))
      /\ (\A x \in UpVals : mark'[x] = "gray" => mark[x] = "gray")
  BY <1>1, <1>2, <1>3, RecolouredOk
<1>5. Open' = Open \ us /\ OpenOf(th0)' = OpenOf(th0) \ us
      /\ \A th \in Threads : OpenOf(th)' \subseteq OpenOf(th) /\ (th # th0 => OpenOf(th)' = OpenOf(th))
  <2>1. \A u \in us : uth[u] = th0
    BY DEF OpenOf
  <2> QED
    BY <1>2, <1>3, <2>1, Kinds DEF Open, OpenOf
<1>6. TypeOK'
  <2>1. markedopen' \subseteq UpVals
    BY <1>3 DEF IInv, Heap, TypeOK
  <2>2. mark' \in [Objects -> {"white", "dead", "gray",
          "black"}] /\ gray' \subseteq Listed /\ grayagain' \subseteq Listed
    BY <1>3 DEF Recoloured, Colour
  <2> QED
    BY <1>1, <1>3, <2>1, <2>2 DEF IInv, Heap, TypeOK
<1>7. References'
  <2>1. \A th \in Threads \cap Live' : \A j \in 1..Slots : Ok(stack[th][j])'
    BY <1>4 DEF IInv, Heap, References, Ok
  <2>2. \A u \in UpVals \cap Live' : IF uth'[u] = Nil THEN Ok(uval[u])' ELSE uth'[u] \in Live'
    <3>1. \A u \in UpVals \cap Live : IF uth[u] = Nil THEN Ok(uval[u]) ELSE uth[u] \in Live
      BY DEF IInv, Heap, References
    <3>2. \A u \in us : uth'[u] = Nil /\ uval'[u] = Val(u) /\ Ok(Val(u))
      BY <1>3
    <3>3. \A u \in UpVals \ us : uth'[u] = uth[u] /\ uval'[u] = uval[u]
      BY <1>3
    <3>4. Live' = Live
      BY <1>4
    <3> QED
      BY <3>1, <3>2, <3>3, <3>4 DEF Ok
  <2> QED
    BY <1>1, <1>4, <1>5, <2>1, <2>2 DEF IInv, Heap, References, Ok
<1>8. Fresh'
  <2>1. \A u \in UpVals \ alive : uval'[u] = uval[u]
    BY <1>3 DEF Live
  <2>2. \A th \in Threads \ alive : stack'[th] = stack[th] /\ top'[th] = top[th]
    BY DEF Live
  <2>3. markedopen' \subseteq Open'
    BY <1>3, <1>5 DEF IInv, Heap, Fresh
  <2> QED
    BY <1>1, <1>4, <2>1, <2>2, <2>3 DEF IInv, Heap, Fresh
<1>9. Chain'
  BY <1>1 DEF IInv, Heap, Chain
<1>10. Held'
  <2> SUFFICES ASSUME NEW th \in active \ {Main}
               PROVE  \E k \in 1..top'[from[th]] : stack'[from[th]][k] = th
                   /\ \A u \in OpenOf(from[th])' : uslot'[u] # k
    BY <1>1 DEF Held
  <2>1. from[th] \in Threads /\ from[th] # th0
    BY DEF IInv, Heap, Chain, TypeOK
  <2>2. PICK k \in 1..top[from[th]] : stack[from[th]][k] = th
          /\ \A u \in OpenOf(from[th]) : uslot[u] # k
    BY DEF IInv, Heap, Held
  <2>3. OpenOf(from[th])' = OpenOf(from[th])
    BY <1>1, <1>5, <2>1
  <2>4. \A u \in OpenOf(from[th]) : uslot'[u] = uslot[u]
    BY <1>3, <2>1 DEF OpenOf
  <2> QED
    BY <2>1, <2>2, <2>3, <2>4
<1>11. NeverBlack'
  <2>1. Open' \subseteq Objects /\ active \subseteq Objects /\ us \cap active = {} /\ us \cap Open' = {}
    BY <1>2, <1>5, Kinds DEF IInv, Heap, TypeOK, Open
  <2> QED
    BY <1>1, <1>4, <1>5, <2>1 DEF IInv, Colours, NeverBlack
<1>13. BlackRefs'
  <2> SUFFICES ASSUME keepinvariant, NEW o \in alive, mark'[o] = "black"
               PROVE  (/\ o \in Tables => ~IsWhite(field[o]) /\ ~IsWhite(meta[o])
                       /\ o \in Closures => ~IsWhite(cap[o])
                       /\ o \in UpVals => ~IsWhite(uval[o])
                       /\ o \in Threads =>
                             /\ \A u \in OpenOf(o) : mark[u] = "gray"
                             /\ \A j \in 1..Slots : IsWhite(stack[o][j])
                                   => \E u \in OpenOf(o) : uslot[u] = j)'
    BY <1>1 DEF BlackRefs, keepinvariant
  <2>1. o \in Objects /\ (o \in us \/ mark[o] = "black")
    BY <1>4 DEF IInv, Heap, TypeOK
  <2>2. CASE o \in Tables
    <3>1. ~IsWhite(field[o]) /\ ~IsWhite(meta[o]) /\ field[o] \in Objects \cup {Nil}
            /\ meta[o] \in Objects \cup {Nil}
      BY <1>2, <2>1, <2>2, Kinds DEF IInv, Heap, TypeOK, Colours, BlackRefs
    <3>2. ~IsWhite(field[o])' /\ ~IsWhite(meta[o])'
      BY <1>1, <1>4, <2>2, <3>1
    <3> QED
      BY <2>2, <3>2, Kinds
  <2>3. CASE o \in Closures
    <3>1. ~IsWhite(cap[o]) /\ cap[o] \in Objects \cup {Nil}
      BY <1>2, <2>1, <2>3, Kinds DEF IInv, Heap, TypeOK, Colours, BlackRefs
    <3>2. ~IsWhite(cap[o])'
      BY <1>1, <1>4, <3>1
    <3> QED
      BY <2>3, <3>2, Kinds
  <2>4. CASE o \in UpVals
    <3>1. CASE o \in us
      BY <1>3, <2>4, <3>1, Kinds
    <3>2. CASE o \notin us
      <4>1. ~IsWhite(uval[o]) /\ uval[o] \in Objects \cup {Nil} /\ uval'[o] = uval[o]
        BY <1>3, <2>1, <2>4, <3>2, Kinds DEF IInv, Heap, TypeOK, Colours, BlackRefs
      <4>2. ~IsWhite(uval[o])'
        BY <1>4, <4>1
      <4> QED
        BY <2>4, <4>2, Kinds
    <3> QED
      BY <3>1, <3>2
  <2>5. CASE o \in Threads
    <3>0. mark[o] = "black" /\ o # running
      BY <1>2, <2>1, <2>5, Kinds, SeenOk
    <3>1. \A u \in OpenOf(o) : mark[u] = "gray"
      BY <2>5, <3>0 DEF IInv, Colours, BlackRefs
    <3>2. \A u \in OpenOf(o)' : u \in OpenOf(o) /\ u \in UpVals \ us /\ u \notin Listed
      BY <1>3, <1>5, <2>5, Kinds DEF OpenOf
    <3>3. \A u \in OpenOf(o)' : mark'[u] = "gray" /\ uslot'[u] = uslot[u]
      BY <1>3, <3>1, <3>2, Kinds DEF Recoloured
    <3>4. ASSUME NEW j \in 1..Slots, IsWhite(stack[o][j])' PROVE \E u \in OpenOf(o)' : uslot'[u] = j
      <4>1. CASE o = th0
        BY <3>0, <3>4, <4>1 DEF IsWhite
      <4>2. CASE o # th0
        <5>1. stack'[o][j] = stack[o][j] /\ stack[o][j] \in Objects \cup {Nil} /\ OpenOf(o)' = OpenOf(o)
          BY <1>5, <2>5, <4>2, Kinds DEF IInv, Heap, TypeOK
        <5>2. IsWhite(stack[o][j])
          BY <1>4, <3>4, <5>1
        <5>3. \E u \in OpenOf(o) : uslot[u] = j
          BY <2>5, <3>0, <5>2 DEF IInv, Colours, BlackRefs
        <5> QED
          BY <3>3, <5>1, <5>3
      <4> QED
        BY <4>1, <4>2
    <3> QED
      BY <2>5, <3>3, <3>4, Kinds
  <2> QED
    BY <2>1, <2>2, <2>3, <2>4, <2>5, Kinds
<1>14. Marked'
  <2> SUFFICES ASSUME keepinvariant
               PROVE (/\ ~iswhite(Main) /\ ~iswhite(Globals)
                      /\ \A u \in UpVals : mark[u] = "gray" => uth[u] # Nil
                      /\ \A u \in markedopen : ~iswhite(u) /\ ~iswhite(uth[u]))'
    BY <1>1 DEF Marked, keepinvariant
  <2>1. \A x \in Objects : iswhite(x)' => iswhite(x)
    BY <1>4, Kinds DEF IsWhite, iswhite
  <2>2. Main \in Objects /\ Globals \in Objects /\ markedopen \subseteq Objects
          /\ \A u \in markedopen : uth[u] \in Objects
    BY Kinds DEF IInv, Heap, Fresh, Open, TypeOK
  <2>3. \A u \in markedopen' : u \in markedopen /\ uth'[u] = uth[u]
    BY <1>3 DEF IInv, Heap, TypeOK
  <2>4. \A u \in UpVals : mark'[u] = "gray" => uth'[u] # Nil
    BY <1>3, <1>4 DEF IInv, Colours, Marked
  <2> QED
    BY <2>1, <2>2, <2>3, <2>4 DEF IInv, Colours, Marked
<1>15. Staged' /\ OpenUnmarked'
  BY <1>1, <1>3 DEF Staged, Stages, IInv, Colours, OpenUnmarked, keepinvariant
<1> QED
  BY <1>4, <1>6, <1>7, <1>8, <1>9, <1>10, <1>11, <1>13, <1>14, <1>15 DEF IInv, Heap, Colours

\* Upvalues of the frame are closed.
LEMMA ReturnStep == ASSUME IInv, Return PROVE IInv'
<1>1. PICK k \in 0..top[running] :
          /\ CloseUpvals({u \in OpenOf(running) : uslot[u] > k})
          /\ top' \in {top, [top EXCEPT ![running] = k]}
  BY DEF Return
<1>2. UNCHANGED <<fixed, alive, field, meta, cap, mt, stack, cors>> /\ Runs
  BY DEF Return, heap
<1>3. running \in Threads \cap Live /\ stack \in [Threads -> [1..Slots -> Values]]
        /\ top \in [Threads -> 0..Slots] /\ Slots \in Nat
  BY SeenOk, Kinds DEF IInv, Heap, TypeOK
<1>4. k \in 0..Slots
  BY <1>1, <1>3
<1>5. top' \in [Threads -> 0..Slots] /\ \A th \in Threads : th # running => top'[th] = top[th]
  BY <1>1, <1>3, <1>4
<1>6. {u \in OpenOf(running) : uslot[u] > k} \in SUBSET OpenOf(running)
  OBVIOUS
<1> DEFINE us == {u \in OpenOf(running) : uslot[u] > k}
<1>7. us \in SUBSET OpenOf(running) /\ CloseUpvals(us)
  BY <1>1
<1> HIDE DEF us
<1> QED
  BY <1>2, <1>3, <1>5, <1>7, CloseStep

\* A closed coroutine has an empty stack and no open upvalue.
LEMMA CloseThreadStep == ASSUME IInv, CloseThread PROVE IInv'
<1>1. PICK co \in Resumable :
          /\ CloseUpvals(OpenOf(co))
          /\ stack' = [stack EXCEPT ![co] = [i \in 1..Slots |-> Nil]]
          /\ top' = [top EXCEPT ![co] = 0]
  BY DEF CloseThread
<1>2. UNCHANGED <<fixed, alive, field, meta, cap, mt, cors>> /\ Runs
  BY DEF CloseThread, heap
<1>3. co \in Threads /\ co \in Live /\ co \notin active
  <2>1. co \in Stack(running)
    BY DEF Resumable, Stack, Regs
  <2> QED
    BY <2>1, SeenOk, Kinds DEF Resumable, Ok
<1>4. stack \in [Threads -> [1..Slots -> Values]] /\ top \in [Threads -> 0..Slots] /\ Slots \in Nat
  BY Kinds DEF IInv, Heap, TypeOK
<1>5. top' \in [Threads -> 0..Slots] /\ \A th \in Threads : th # co => top'[th] = top[th]
  BY <1>1, <1>3, <1>4
<1>6. /\ stack' \in [Threads -> [1..Slots -> Values]]
      /\ \A th \in Threads : th # co => stack'[th] = stack[th]
      /\ \A j \in 1..Slots : stack'[co][j] = Nil
  BY <1>1, <1>3, <1>4, Kinds
<1>7. OpenOf(co) \in SUBSET OpenOf(co)
  OBVIOUS
<1> QED
  BY <1>1, <1>2, <1>3, <1>5, <1>6, <1>7, CloseStep

\* A resume with an argument that fails has passed the barrier.
LEMMA ResumeFailsStep == ASSUME IInv, ResumeFails(1) PROVE IInv'
<1>1. PICK co \in Resumable, s \in use.objects \cap Strings, i \in Regs :
          /\ top[co] < use.slots[co]
          /\ alive' = alive \cup {s}
          /\ stack' = [stack EXCEPT ![co][top[co] + 1] = s, ![running][i] = s]
          /\ mark' = [mark EXCEPT ![s] = Interned(s),
                ![co] = IF 1 > 0 /\ mark[co] = "black" THEN "gray" ELSE @]
          /\ grayagain' = IF 1 > 0 /\ mark[co] = "black" THEN grayagain \cup {co} ELSE grayagain
  BY DEF ResumeFails
<1>2. /\ use' = use /\ weak' = weak /\ phase' = phase /\ unswept' = unswept /\ full' = full
      /\ field' = field /\ meta' = meta /\ cap' = cap /\ mt' = mt /\ top' = top /\ gray' = gray
      /\ uth' = uth /\ uslot' = uslot /\ uval' = uval /\ markedopen' = markedopen
      /\ active' = active /\ running' = running /\ from' = from /\ phase \notin Stages
  BY DEF ResumeFails, fixed, heap, upvs, cors, Runs
<1>3. co \in Threads /\ co \in Live /\ co \in alive /\ co \notin active /\ co \in Objects
        /\ co \in Listed
  <2>1. co \in Stack(running)
    BY DEF Resumable, Stack, Regs
  <2> QED
    BY <2>1, SeenOk, Kinds DEF Resumable, Ok, Live
<1>4. s \in Strings /\ s \in Objects /\ s \in Values /\ s # co /\ s \notin Listed
  BY <1>3, Kinds
<1>5. running \in Threads /\ running \in Live /\ running \in active /\ co # running
        /\ mark[running] # "black"
  BY <1>3, SeenOk DEF IInv, Heap, TypeOK
<1>6. /\ stack \in [Threads -> [1..Slots -> Values]] /\ top \in [Threads -> 0..Slots] /\ Slots \in Nat
      /\ use.slots[co] \in 0..Slots /\ i \in 1..Slots /\ mark \in [Objects -> Colour]
            /\ alive \subseteq Objects
      /\ grayagain \subseteq Listed
  BY <1>3, Uses_, SeenOk, Kinds DEF IInv, Heap, TypeOK, Colour
<1>7. top[co] + 1 \in 1..Slots
  BY <1>1, <1>3, <1>6
<1>8. /\ stack' \in [Threads -> [1..Slots -> Values]]
      /\ \A th \in Threads : th \notin {co, running} => stack'[th] = stack[th]
      /\ \A th \in Threads : \A j \in 1..Slots : stack'[th][j] = stack[th][j] \/ stack'[th][j] = s
  <2>1. [stack[co] EXCEPT ![top[co] + 1] = s] \in [1..Slots -> Values]
        /\ [stack[running] EXCEPT ![i] = s] \in [1..Slots -> Values]
    BY <1>3, <1>4, <1>5, <1>6
  <2>2. stack' = [stack EXCEPT ![co] = [stack[co] EXCEPT ![top[co] + 1] = s],
          ![running] = [stack[running] EXCEPT ![i] = s]]
    BY <1>1, <1>3, <1>5, <1>6
  <2>3. /\ stack'[co] = [stack[co] EXCEPT ![top[co] + 1] = s]
        /\ stack'[running] = [stack[running] EXCEPT ![i] = s]
        /\ \A th \in Threads : th \notin {co, running} => stack'[th] = stack[th]
    BY <1>3, <1>5, <1>6, <2>2
  <2>4. stack' \in [Threads -> [1..Slots -> Values]]
    BY <1>3, <1>5, <1>6, <2>1, <2>2
  <2>5. \A j \in 1..Slots : (stack'[co][j] = stack[co][j] \/ stack'[co][j] = s)
                            /\ (stack'[running][j] = stack[running][j] \/ stack'[running][j] = s)
    BY <1>3, <1>5, <1>6, <2>3
  <2> QED
    BY <2>3, <2>4, <2>5
<1>9. /\ mark' \in [Objects -> Colour]
      /\ \A o \in Objects : o \notin {s, co} => mark'[o] = mark[o]
      /\ mark'[s] = IF s \in Live THEN mark[s] ELSE "white"
      /\ mark'[co] = IF mark[co] = "black" THEN "gray" ELSE mark[co]
      /\ grayagain' = IF mark[co] = "black" THEN grayagain \cup {co} ELSE grayagain
  <2>1. Interned(s) = IF s \in Live THEN mark[s] ELSE "white"
    BY DEF Interned, Live
  <2>2. mark' = [mark EXCEPT ![s] = Interned(s),
          ![co] = IF mark[co] = "black" THEN "gray" ELSE mark[co]]
    BY <1>1, <1>3, <1>4, <1>6
  <2> QED
    BY <1>1, <1>3, <1>4, <1>6, <2>1, <2>2 DEF Colour
<1>10. alive' = alive \cup {s} /\ Live' = Live \cup {s}
  BY <1>1, <1>3, <1>4, <1>6, <1>9 DEF Live, isdead
<1>11. TypeOK'
  <2>1. alive' \subseteq Objects /\ grayagain' \subseteq Listed
    BY <1>3, <1>4, <1>6, <1>9, <1>10
  <2> QED
    BY <1>2, <1>8, <1>9, <2>1 DEF IInv, Heap, TypeOK, Colour
<1>12. References'
  <2>1. \A th \in Threads \cap Live' : \A j \in 1..Slots : Ok(stack[th][j])'
    <3> SUFFICES ASSUME NEW th \in Threads \cap Live', NEW j \in 1..Slots PROVE Ok(stack[th][j])'
      OBVIOUS
    <3>1. th \in Live
      BY <1>4, <1>10, Kinds
    <3>2. Ok(stack[th][j])
      BY <3>1 DEF IInv, Heap, References
    <3> QED
      BY <1>8, <1>10, <3>2 DEF Ok
  <2>2. active' \subseteq Live' /\ Main \in Live' /\ Globals \in Live' /\ Ok(mt)'
          /\ Open' \subseteq Live'
    BY <1>2, <1>10 DEF IInv, Heap, References, Ok, Open
  <2>3. /\ \A t \in Tables \cap Live' : Ok(field[t])' /\ Ok(meta[t])'
        /\ \A f \in Closures \cap Live' : Ok(cap[f])'
    BY <1>2, <1>4, <1>10, Kinds DEF IInv, Heap, References, Ok
  <2>4. \A u \in UpVals \cap Live' : IF uth'[u] = Nil THEN Ok(uval[u])' ELSE uth'[u] \in Live'
    BY <1>2, <1>4, <1>10, Kinds DEF IInv, Heap, References, Ok
  <2> QED
    BY <2>1, <2>2, <2>3, <2>4 DEF References
<1>13. Fresh'
  <2>1. \A th \in Threads \ alive : stack'[th] = stack[th]
    BY <1>3, <1>5, <1>8 DEF Live
  <2>2. \A o \in Objects \ alive' : mark'[o] = mark[o]
    BY <1>3, <1>9, <1>10
  <2> QED
    BY <1>2, <1>10, <2>1, <2>2 DEF IInv, Heap, Fresh, Open
<1>14. Chain'
  BY <1>2 DEF IInv, Heap, Chain
<1>15. Held'
  <2> SUFFICES ASSUME NEW th \in active \ {Main}
               PROVE  \E k \in 1..top[from[th]] : stack'[from[th]][k] = th
                   /\ \A u \in OpenOf(from[th]) : uslot[u] # k
    BY <1>2 DEF Held, OpenOf
  <2>1. from[th] \in Threads /\ from[th] \notin {co, running}
    BY <1>3 DEF IInv, Heap, Chain, TypeOK
  <2>2. \E k \in 1..top[from[th]] : stack[from[th]][k] = th /\ \A u \in OpenOf(from[th]) : uslot[u] # k
    BY DEF IInv, Heap, Held
  <2> QED
    BY <1>8, <2>1, <2>2
<1>16. GrayListed'
  <2> SUFFICES ASSUME keepinvariant
               PROVE  /\ {o \in alive' \cap Listed : mark'[o] = "gray"} = gray \cup grayagain' \cup weak
                      /\ gray \cap grayagain' = {} /\ gray \cap weak = {} /\ grayagain' \cap weak = {}
    BY <1>2 DEF GrayListed, keepinvariant
  <2>1. /\ {o \in alive \cap Listed : mark[o] = "gray"} = gray \cup grayagain \cup weak
        /\ gray \cap weak = {} /\ grayagain \cap weak = {} /\ gray \cap grayagain = {}
    BY DEF IInv, Colours, GrayListed
  <2>2. \A o \in Listed : mark'[o] = IF o = co /\ mark[co] = "black" THEN "gray" ELSE mark[o]
    BY <1>3, <1>4, <1>9, Kinds
  <2>3. alive' \cap Listed = alive \cap Listed
    BY <1>4, <1>10
  <2>4. CASE mark[co] = "black"
    <3>1. {o \in alive' \cap Listed : mark'[o] = "gray"} = {o \in alive \cap Listed : mark[o]
            = "gray"} \cup {co}
      BY <1>3, <2>2, <2>3, <2>4
    <3>2. co \notin gray /\ co \notin weak
      BY <2>1, <2>4
    <3> QED
      BY <1>9, <2>1, <2>4, <3>1, <3>2
  <2>5. CASE mark[co] # "black"
    <3>1. {o \in alive' \cap Listed : mark'[o] = "gray"} = {o \in alive \cap Listed : mark[o] = "gray"}
      BY <2>2, <2>3, <2>5
    <3> QED
      BY <1>9, <2>1, <2>5, <3>1
  <2> QED
    BY <2>4, <2>5
<1>17. Swept'
  <2>1. \A o \in Objects : (mark'[o] = "dead" => mark[o] = "dead") /\ (mark[o] = "white"
          => mark'[o] = "white")
    BY <1>3, <1>9
  <2> QED
    BY <1>2, <1>10, <2>1 DEF IInv, Colours, Swept
<1>18. \A o \in Objects : /\ mark'[o] = "black" => mark[o] = "black" /\ o # co
                          /\ o \in UpVals => mark'[o] = mark[o]
  BY <1>3, <1>4, <1>9, Kinds DEF Live, isdead
<1>19. \A x \in Live \cup {Nil} : IsWhite(x)' => IsWhite(x)
  BY <1>3, <1>6, <1>9 DEF IsWhite, iswhite, Live
<1>20. NeverBlack'
  BY <1>2, <1>18, Kinds DEF IInv, Heap, TypeOK, Colours, NeverBlack, Open
<1>21. BlackRefs'
  <2> SUFFICES ASSUME keepinvariant, NEW o \in alive', mark'[o] = "black"
               PROVE  (/\ o \in Tables => ~IsWhite(field[o]) /\ ~IsWhite(meta[o])
                       /\ o \in Closures => ~IsWhite(cap[o])
                       /\ o \in UpVals => ~IsWhite(uval[o])
                       /\ o \in Threads =>
                             /\ \A u \in OpenOf(o) : mark[u] = "gray"
                             /\ \A j \in 1..Slots : IsWhite(stack[o][j])
                                   => \E u \in OpenOf(o) : uslot[u] = j)'
    BY <1>2 DEF BlackRefs, keepinvariant
  <2>1. o \in Objects /\ mark[o] = "black" /\ o # co /\ o # running
    BY <1>4, <1>5, <1>6, <1>10, <1>18
  <2>2. o \notin Strings => o \in Live /\ o \in alive
    BY <1>4, <1>10, <2>1 DEF Live, isdead
  <2>3. CASE o \in Tables
    BY <1>2, <1>19, <2>1, <2>2, <2>3, Kinds DEF IInv, Heap, References, Ok, Colours, BlackRefs
  <2>4. CASE o \in Closures
    BY <1>2, <1>19, <2>1, <2>2, <2>4, Kinds DEF IInv, Heap, References, Ok, Colours, BlackRefs
  <2>5. CASE o \in UpVals
    <3>1. uth[o] = Nil
      BY <2>1, <2>5 DEF IInv, Colours, NeverBlack, Open
    <3>2. Ok(uval[o]) /\ ~IsWhite(uval[o])
      BY <2>1, <2>2, <2>5, <3>1, Kinds DEF IInv, Heap, References, Colours, BlackRefs
    <3> QED
      BY <1>2, <1>19, <2>5, <3>2, Kinds DEF Ok
  <2>6. CASE o \in Threads
    <3>1. stack'[o] = stack[o] /\ OpenOf(o)' = OpenOf(o)
      BY <1>2, <1>8, <2>1, <2>6 DEF OpenOf
    <3>2. \A u \in OpenOf(o) : mark'[u] = "gray"
      <4>1. \A u \in OpenOf(o) : u \in Objects /\ u \in UpVals
        BY Kinds DEF OpenOf
      <4> QED
        BY <1>18, <2>1, <2>2, <2>6, <4>1, Kinds DEF IInv, Colours, BlackRefs
    <3>3. ASSUME NEW j \in 1..Slots, IsWhite(stack[o][j])' PROVE \E u \in OpenOf(o) : uslot[u] = j
      <4>1. stack[o][j] \in Live \cup {Nil}
        BY <2>2, <2>6, Kinds DEF IInv, Heap, References, Ok
      <4>2. IsWhite(stack[o][j])
        BY <1>19, <3>1, <3>3, <4>1
      <4> QED
        BY <2>1, <2>2, <2>6, <4>2, Kinds DEF IInv, Colours, BlackRefs
    <3> QED
      BY <1>2, <2>6, <3>1, <3>2, <3>3, Kinds
  <2> QED
    BY <2>1, <2>3, <2>4, <2>5, <2>6, Kinds
<1>22. Marked'
  <2> SUFFICES ASSUME keepinvariant
               PROVE (/\ ~iswhite(Main) /\ ~iswhite(Globals)
                      /\ \A u \in UpVals : mark[u] = "gray" => uth[u] # Nil
                      /\ \A u \in markedopen : ~iswhite(u) /\ ~iswhite(uth[u]))'
    BY <1>2 DEF Marked, keepinvariant
  <2>1. \A x \in Objects \ Strings : iswhite(x)' => iswhite(x)
    BY <1>4, <1>9 DEF iswhite
  <2>2. Main \in Objects \ Strings /\ Globals \in Objects \ Strings /\ markedopen \subseteq UpVals
          /\ UpVals \subseteq Objects \ Strings
        /\ \A u \in markedopen : uth[u] \in Objects \ Strings
    BY Kinds DEF IInv, Heap, Fresh, Open, TypeOK
  <2> QED
    BY <1>2, <1>18, <2>1, <2>2 DEF IInv, Colours, Marked
<1>23. Staged' /\ OpenUnmarked'
  BY <1>2 DEF Staged, Stages, IInv, Colours, OpenUnmarked, keepinvariant
<1> QED
  BY <1>11, <1>12, <1>13, <1>14, <1>15, <1>16, <1>17, <1>20, <1>21, <1>22, <1>23 DEF IInv, Heap, Colours

\* No step of the mutator disturbs the invariant.
LEMMA MutatorStep == ASSUME IInv, Mutator PROVE IInv'
BY LoadStep, CreateStep, PushStringStep, SetTableStep, SetMetatableStep, NewClosureStep,
    SetUpvalStep, CallStep,
   ReturnStep, ResumeStep, YieldStep, ResumeFailsStep, CloseThreadStep DEF Mutator

-----------------------------------------------------------------------------
(* Steps of the collector.                                                 *)

\* What reallymarkobject does to objects that are not dead.
LEMMA PaintOk ==
    ASSUME IInv, phase # "sweep", NEW vs \in SUBSET (Objects \cup {Nil}), \A v \in vs : Ok(v)
    PROVE  /\ Paint(Reached(vs)) \in [Objects -> Colour] /\ Reached(vs) \subseteq Live
           /\ \A x \in Reached(vs) : mark[x] = "white" /\ Paint(Reached(vs))[x] = IF x \in UpVals
                 /\ uth[x] = Nil THEN "black" ELSE "gray"
           /\ \A x \in Objects \ Reached(vs) : Paint(Reached(vs))[x] = mark[x]
           /\ \A v \in vs : v # Nil => Paint(Reached(vs))[v] \in {"gray", "black"}
           /\ \A u \in Reached(vs) \cap UpVals : Val(u) # Nil => Val(u) \in Objects
                 /\ Paint(Reached(vs))[Val(u)] \in {"gray", "black"}
           /\ \A x \in Objects : Paint(Reached(vs))[x] \in {"white", "dead"} => mark[x] = "white"
<1> DEFINE ws == {v \in vs : IsWhite(v)}
           us == {v \in {Val(u) : u \in ws \cap UpVals} : IsWhite(v)}
           R  == Reached(vs)
<1>1. R = ws \cup us
  BY DEF Reached
<1>2. \A v \in ws : v \in Live /\ v \in Objects
  BY DEF IsWhite, Ok
<1>3. \A u \in ws \cap UpVals : Val(u) \in Values /\ Ok(Val(u))
  BY <1>2, ValOk
<1>4. \A v \in us : v \in Live /\ v \in Objects
  BY <1>3 DEF IsWhite, Ok, Values
<1>5. \A v \in R : v \in Live /\ v \in Objects /\ IsWhite(v)
  BY <1>1, <1>2, <1>4
<1>6. mark \in [Objects -> Colour]
  BY ListsGray
<1>7. \A v \in R : mark[v] = "white"
  BY <1>5, <1>6 DEF Live, isdead, IsWhite, iswhite
<1>8. Paint(R) = [o \in Objects |-> IF o \notin R THEN mark[o] ELSE IF o \in UpVals /\ uth[o]
        = Nil THEN "black" ELSE "gray"]
  BY DEF Paint
<1>9. \A u \in R \cap UpVals : u \in ws
  <2>1. \A v \in us : v \notin UpVals
    BY <1>3, Kinds
  <2> QED
    BY <1>1, <2>1
<1>10. \A u \in R \cap UpVals : Val(u) # Nil => Val(u) \in Objects /\ (IsWhite(Val(u)) => Val(u) \in R)
  BY <1>1, <1>3, <1>9 DEF Values
<1>11. \A v \in vs : v # Nil => v \in Objects /\ (IsWhite(v) => v \in R)
  BY <1>1
<1> HIDE DEF R
<1>12. \A x \in Objects : x # Nil /\ (IsWhite(x) => x \in R) => Paint(R)[x] \in {"gray", "black"}
  BY <1>6, <1>8 DEF Colour, IsWhite, iswhite
<1>13. \A x \in Objects : Paint(R)[x] \in {"white", "dead"} => mark[x] = "white"
  <2>1. \A x \in Objects : mark[x] # "dead"
    BY NoneDead
  <2> QED
    BY <1>6, <1>8, <2>1
<1>14. Paint(R) \in [Objects -> Colour]
  BY <1>6, <1>8 DEF Colour
<1>15. /\ \A x \in R : mark[x] = "white" /\ Paint(R)[x] = IF x \in UpVals /\ uth[x]
             = Nil THEN "black" ELSE "gray"
       /\ \A x \in Objects \ R : Paint(R)[x] = mark[x]
  BY <1>5, <1>7, <1>8
<1>16. \A v \in vs : v # Nil => Paint(R)[v] \in {"gray", "black"}
  BY <1>11, <1>12
<1>17. \A u \in R \cap UpVals : Val(u) # Nil => Val(u) \in Objects /\ Paint(R)[Val(u)] \in {"gray",
         "black"}
  BY <1>10, <1>12
<1> QED
  BY <1>5, <1>13, <1>14, <1>15, <1>16, <1>17 DEF R

\* A step of the marking: vs is marked and o, if there is one, was taken from a
\* list and traversed.
LEMMA MarkingStep ==
    ASSUME IInv, keepinvariant, NEW vs \in SUBSET (Objects \cup {Nil}), \A v \in vs : Ok(v),
           NEW o \in Listed \cup {Nil}, o # Nil => mark[o] = "gray" /\ o \in alive,
               NEW c \in {"gray", "black"},
           mark' \in [Objects -> Colour],
           \A x \in Objects : mark'[x] = IF x = o THEN c ELSE Paint(Reached(vs))[x],
           UNCHANGED <<use, alive, field, meta, cap, mt, active, running, from, top, uth, uslot,
               uval, unswept, full>>,
           stack' \in [Threads -> [1..Slots -> Values]],
           \A th \in Threads : th # o => stack'[th] = stack[th],
           \A th \in Threads : \A j \in 1..Slots : stack'[th][j] = stack[th][j] \/ (j > top[th]
               /\ stack'[th][j] = Nil),
           c = "black" =>
              /\ o \notin active
              /\ o \in Tables => field[o] \in vs /\ meta[o] \in vs
              /\ o \in Closures => cap[o] \in vs
              /\ o \in Threads => OpenOf(o) \subseteq vs
                    /\ \A j \in 1..Slots : stack'[o][j] \in vs \cup {Nil},
           markedopen' \subseteq UpVals,
           \A u \in markedopen' : u \in markedopen \/ (u \in vs \cap Open /\ uth[u] = o),
           phase' \in Phases \ {"pause", "sweep"},
           phase \in Stages => phase' \in Stages,
           phase' \in Stages /\ phase \notin Stages => \A u \in Open : mark[u] = "gray"
               => Val(u) \in vs,
           gray' \subseteq Listed, grayagain' \subseteq Listed, weak' \subseteq Tables
    PROVE  /\ Heap' /\ Swept' /\ NeverBlack' /\ BlackRefs' /\ Marked' /\ OpenUnmarked'
           /\ phase' \in Stages => \A u \in Open : mark'[u] = "gray" => ~IsWhite(Val(u))'
           /\ \A x \in vs : x # Nil => ~iswhite(x)'
           /\ \A x \in Objects : iswhite(x)' => iswhite(x)
<1> DEFINE R == Reached(vs)
           P == Paint(R)
<1>1. phase # "sweep" /\ phase # "pause" /\ phase' # "sweep" /\ phase' # "pause"
  BY DEF keepinvariant
<1>2. /\ R \subseteq Live
      /\ \A x \in R : mark[x] = "white" /\ P[x] = IF x \in UpVals /\ uth[x]
            = Nil THEN "black" ELSE "gray"
      /\ \A x \in Objects \ R : P[x] = mark[x]
      /\ \A v \in vs : v # Nil => P[v] \in {"gray", "black"}
      /\ \A u \in R \cap UpVals : Val(u) # Nil => Val(u) \in Objects /\ P[Val(u)] \in {"gray", "black"}
      /\ \A x \in Objects : P[x] \in {"white", "dead"} => mark[x] = "white"
  BY <1>1, PaintOk
<1>3. \A x \in Objects : mark'[x] = IF x = o THEN c ELSE P[x]
  OBVIOUS
<1>4. \A x \in Objects : mark[x] # "dead" /\ mark'[x] # "dead"
  BY <1>1, <1>2, <1>3, NoneDead
<1> HIDE DEF R, P
<1>5. Live' = Live /\ Live = alive
  BY <1>4 DEF Live, isdead, IInv, Heap, TypeOK
<1>6. o \notin UpVals /\ R \subseteq Objects
  BY <1>2, Kinds DEF Live, IInv, Heap, TypeOK
<1>7. TypeOK'
  BY DEF IInv, Heap, TypeOK, Colour
<1>8. References'
  <2>1. \A th \in Threads \cap Live' : \A j \in 1..Slots : Ok(stack[th][j])'
    BY <1>5 DEF IInv, Heap, References, Ok
  <2> QED
    BY <1>5, <2>1 DEF IInv, Heap, References, Ok, Open
<1>9. Fresh'
  <2>1. \A x \in Objects \ alive : mark'[x] = "white"
    BY <1>2, <1>3, <1>5, Kinds DEF IInv, Heap, Fresh
  <2>2. \A th \in Threads \ alive : th # o
    BY Kinds
  <2>3. markedopen' \subseteq Open'
    BY DEF IInv, Heap, Fresh, Open
  <2> QED
    BY <2>1, <2>2, <2>3 DEF IInv, Heap, Fresh
<1>10. Chain'
  BY DEF IInv, Heap, Chain
<1>11. Held'
  <2> SUFFICES ASSUME NEW th \in active \ {Main}
               PROVE  \E k \in 1..top[from[th]] : stack'[from[th]][k] = th
                   /\ \A u \in OpenOf(from[th]) : uslot[u] # k
    BY DEF Held, OpenOf
  <2>1. from[th] \in Threads /\ top[from[th]] \in 0..Slots /\ Slots \in Nat
    BY Kinds DEF IInv, Heap, Chain, TypeOK
  <2>2. PICK k \in 1..top[from[th]] : stack[from[th]][k] = th
          /\ \A u \in OpenOf(from[th]) : uslot[u] # k
    BY DEF IInv, Heap, Held
  <2>3. k \in 1..Slots /\ ~(k > top[from[th]])
    BY <2>1
  <2> QED
    BY <2>1, <2>2, <2>3
<1>12. Swept'
  BY <1>1, <1>4 DEF IInv, Colours, Swept
<1>13. ASSUME NEW x \in Objects PROVE iswhite(x)' => iswhite(x)
  BY <1>2, <1>3 DEF iswhite
<1>14. \A x \in vs : x # Nil => ~iswhite(x)'
  BY <1>2, <1>3 DEF iswhite
<1>15. \A u \in Open : mark'[u] # "black" /\ u \in Objects /\ uth[u] # Nil
  BY <1>2, <1>3, <1>6, Kinds DEF IInv, Colours, NeverBlack, Open
<1>16. NeverBlack'
  <2>1. \A x \in active : mark'[x] # "black"
    <3> SUFFICES ASSUME NEW x \in active PROVE mark'[x] # "black"
      OBVIOUS
    <3>1. x \in Objects /\ x \notin UpVals /\ mark[x] # "black"
      BY Kinds DEF IInv, Heap, TypeOK, Colours, NeverBlack
    <3>2. P[x] # "black"
      BY <1>2, <3>1
    <3> QED
      BY <1>3, <3>1, <3>2
  <2> QED
    BY <1>15, <2>1 DEF NeverBlack, Open
<1>17. \A x \in Objects \cup {Nil} : IsWhite(x)' => IsWhite(x)
  BY <1>13 DEF IsWhite
<1>18. \A x \in vs \cup {Nil} : ~IsWhite(x)'
  BY <1>14 DEF IsWhite
<1>19. BlackRefs'
  <2> SUFFICES ASSUME NEW x \in alive, mark'[x] = "black"
               PROVE  (/\ x \in Tables => ~IsWhite(field[x]) /\ ~IsWhite(meta[x])
                       /\ x \in Closures => ~IsWhite(cap[x])
                       /\ x \in UpVals => ~IsWhite(uval[x])
                       /\ x \in Threads =>
                             /\ \A u \in OpenOf(x) : mark[u] = "gray"
                             /\ \A j \in 1..Slots : IsWhite(stack[x][j]) => phase \notin Stages
                                   /\ \E u \in OpenOf(x) : uslot[u] = j)'
    BY DEF BlackRefs
  <2>1. x \in Objects
    BY DEF IInv, Heap, TypeOK
  <2>2. CASE x \in Tables
    <3>1. CASE x = o
      BY <1>3, <1>18, <2>1, <2>2, <3>1, Kinds
    <3>2. CASE x # o
      <4>1. mark[x] = "black"
        BY <1>2, <1>3, <2>1, <2>2, <3>2, Kinds
      <4>2. ~IsWhite(field[x]) /\ ~IsWhite(meta[x]) /\ field[x] \in Objects \cup {Nil}
              /\ meta[x] \in Objects \cup {Nil}
        BY <2>2, <4>1, Kinds DEF IInv, Heap, TypeOK, Colours, BlackRefs
      <4>3. ~IsWhite(field[x])' /\ ~IsWhite(meta[x])'
        BY <1>17, <4>2
      <4> QED
        BY <2>2, <4>3, Kinds
    <3> QED
      BY <3>1, <3>2
  <2>3. CASE x \in Closures
    <3>1. CASE x = o
      BY <1>3, <1>18, <2>1, <2>3, <3>1, Kinds
    <3>2. CASE x # o
      <4>1. mark[x] = "black"
        BY <1>2, <1>3, <2>1, <2>3, <3>2, Kinds
      <4>2. ~IsWhite(cap[x]) /\ cap[x] \in Objects \cup {Nil}
        BY <2>3, <4>1, Kinds DEF IInv, Heap, TypeOK, Colours, BlackRefs
      <4>3. ~IsWhite(cap[x])'
        BY <1>17, <4>2
      <4> QED
        BY <2>3, <4>3, Kinds
    <3> QED
      BY <3>1, <3>2
  <2>4. CASE x \in UpVals
    <3>1. uval[x] \in Objects \cup {Nil} /\ x # o /\ uth[x] = Nil
      BY <1>6, <1>15, <2>4, Kinds DEF IInv, Heap, TypeOK, Open
    <3>2. CASE x \in R
      <4>1. Val(x) = uval[x]
        BY <3>1 DEF Val
      <4>2. uval[x] # Nil => P[uval[x]] \in {"gray", "black"}
        BY <1>2, <2>4, <3>2, <4>1
      <4>3. ~IsWhite(uval[x])'
        BY <1>3, <3>1, <4>2 DEF IsWhite, iswhite
      <4> QED
        BY <2>4, <4>3, Kinds
    <3>3. CASE x \notin R
      <4>1. mark[x] = "black"
        BY <1>2, <1>3, <2>1, <3>1, <3>3
      <4>2. ~IsWhite(uval[x])
        BY <2>4, <4>1, Kinds DEF IInv, Colours, BlackRefs
      <4>3. ~IsWhite(uval[x])'
        BY <1>17, <3>1, <4>2
      <4> QED
        BY <2>4, <4>3, Kinds
    <3> QED
      BY <3>2, <3>3
  <2>5. CASE x \in Threads
    <3>0. OpenOf(x)' = OpenOf(x) /\ \A u \in OpenOf(x) : u \in Open /\ u \in Objects /\ u # o
      BY <1>6, <2>5, Kinds DEF OpenOf, Open
    <3>1. CASE x = o
      <4>1. \A u \in OpenOf(x) : mark'[u] = "gray"
        <5> SUFFICES ASSUME NEW u \in OpenOf(x) PROVE mark'[u] = "gray"
          OBVIOUS
        <5>1. c = "black"
          BY <1>3, <2>1, <3>1
        <5>2. u \in vs /\ u # Nil /\ u \in Objects /\ u \in Open
          BY <2>5, <3>0, <3>1, <5>1, Kinds
        <5>3. mark'[u] \notin {"white", "dead"} /\ mark'[u] \in Colour /\ mark'[u] # "black"
          BY <1>14, <1>15, <5>2 DEF iswhite
        <5> QED
          BY <5>3 DEF Colour
      <4>2. \A j \in 1..Slots : ~IsWhite(stack[x][j])'
        BY <1>3, <1>18, <2>1, <2>5, <3>1
      <4> QED
        BY <2>5, <3>0, <4>1, <4>2, Kinds
    <3>2. CASE x # o
      <4>1. mark[x] = "black"
        BY <1>2, <1>3, <2>1, <2>5, <3>2, Kinds
      <4>2. \A u \in OpenOf(x) : mark[u] = "gray"
        BY <2>5, <4>1 DEF IInv, Colours, BlackRefs
      <4>3. \A u \in OpenOf(x) : mark'[u] = "gray"
        BY <1>2, <1>3, <3>0, <4>2
      <4>4. ASSUME NEW j \in 1..Slots, IsWhite(stack[x][j])'
              PROVE phase' \notin Stages /\ \E u \in OpenOf(x) : uslot[u] = j
        <5>1. stack'[x][j] = stack[x][j] /\ stack[x][j] \in Objects \cup {Nil}
          BY <2>5, <3>2, Kinds DEF IInv, Heap, TypeOK
        <5>2. IsWhite(stack[x][j])
          BY <1>17, <4>4, <5>1
        <5>3. phase \notin Stages /\ \E u \in OpenOf(x) : uslot[u] = j
          BY <2>5, <4>1, <5>2 DEF IInv, Colours, BlackRefs
        <5>4. PICK u \in OpenOf(x) : uslot[u] = j
          BY <5>3
        <5>5. u \in Open /\ mark[u] = "gray" /\ Val(u) = stack[x][j]
          BY <3>0, <4>2, <2>5, <5>4, Kinds DEF Val, OpenOf
        <5>6. phase' \in Stages => Val(u) \in vs
          BY <5>3, <5>5
        <5>7. phase' \notin Stages
          BY <1>18, <4>4, <5>1, <5>5, <5>6
        <5> QED
          BY <5>3, <5>7
      <4> QED
        BY <2>5, <3>0, <4>3, <4>4, Kinds
    <3> QED
      BY <3>1, <3>2
  <2> QED
    BY <2>1, <2>2, <2>3, <2>4, <2>5, Kinds
<1>20. Marked'
  <2>1. Main \in Objects /\ Globals \in Objects /\ \A u \in Open : u \in Objects /\ uth[u] \in Objects
    BY Kinds DEF IInv, Heap, TypeOK, Open
  <2>2. \A u \in UpVals : mark'[u] = "gray" => uth[u] # Nil
    BY <1>2, <1>3, <1>6, Kinds DEF IInv, Colours, Marked
  <2>3. \A u \in markedopen' : ~iswhite(u)' /\ ~iswhite(uth[u])'
    <3> SUFFICES ASSUME NEW u \in markedopen' PROVE ~iswhite(u)' /\ ~iswhite(uth[u])'
      OBVIOUS
    <3>1. CASE u \in markedopen
      BY <1>13, <2>1, <3>1 DEF IInv, Heap, Fresh, Colours, Marked
    <3>2. CASE u \in vs \cap Open /\ uth[u] = o
      <4>1. u # Nil /\ u \in vs /\ uth[u] = o /\ o \in Objects
        BY <1>15, <2>1, <3>2, Kinds
      <4>2. mark'[o] = c
        BY <1>3, <4>1
      <4> QED
        BY <1>14, <4>1, <4>2 DEF iswhite
    <3> QED
      BY <3>1, <3>2
  <2> QED
    BY <1>13, <2>1, <2>2, <2>3 DEF IInv, Colours, Marked
<1>21. OpenUnmarked'
  BY <1>1 DEF OpenUnmarked, keepinvariant
<1>22. ASSUME phase' \in Stages, NEW u \in Open, mark'[u] = "gray" PROVE ~IsWhite(Val(u))'
  <2>1. u \in UpVals /\ u \in Objects /\ uth[u] \in Threads /\ uslot[u] \in 1..Slots /\ u # o
          /\ Val(u) = stack[uth[u]][uslot[u]]
    BY <1>6, Kinds DEF Open, IInv, Heap, TypeOK, Val
  <2>2. Val(u) \in Objects \cup {Nil}
    BY <2>1, Kinds DEF IInv, Heap, TypeOK
  <2>3. Val(u)' = Val(u) \/ Val(u)' = Nil
    BY <2>1, Kinds DEF Val
  <2>4. Val(u) # Nil => mark'[Val(u)] \notin {"white", "dead"}
    <3>1. CASE u \in R
      BY <1>2, <1>3, <2>1, <3>1
    <3>2. CASE u \notin R /\ phase \in Stages
      BY <1>2, <1>3, <1>17, <1>22, <2>1, <2>2, <3>2 DEF IInv, Colours, Staged, IsWhite, iswhite
    <3>3. CASE u \notin R /\ phase \notin Stages
      BY <1>2, <1>3, <1>14, <1>22, <2>1, <2>2, <3>3 DEF iswhite
    <3> QED
      BY <3>1, <3>2, <3>3
  <2> QED
    BY <2>3, <2>4 DEF IsWhite, iswhite
<1> QED
  BY <1>7, <1>8, <1>9, <1>10, <1>11, <1>12, <1>13, <1>14, <1>16, <1>19, <1>20, <1>21, <1>22 DEF Heap

\* The objects that become gray are those that are marked.
LEMMA PaintListed ==
    ASSUME IInv, keepinvariant, NEW vs \in SUBSET (Objects \cup {Nil}), \A v \in vs : Ok(v)
    PROVE  LET R == Reached(vs) \cap Listed
           IN  /\ {x \in alive \cap Listed : Paint(Reached(vs))[x] = "gray"}
               = gray \cup grayagain \cup weak \cup R
               /\ R \cap (gray \cup grayagain \cup weak) = {} /\ R \subseteq Listed
<1>1. /\ Reached(vs) \subseteq Live
      /\ \A x \in Reached(vs) : mark[x] = "white" /\ Paint(Reached(vs))[x] = IF x \in UpVals
            /\ uth[x] = Nil THEN "black" ELSE "gray"
      /\ \A x \in Objects \ Reached(vs) : Paint(Reached(vs))[x] = mark[x]
  BY PaintOk DEF keepinvariant
<1>2. {x \in alive \cap Listed : mark[x] = "gray"} = gray \cup grayagain \cup weak
  BY DEF IInv, Colours, GrayListed
<1>3. \A x \in Listed : x \in Objects /\ x \notin UpVals
  BY Kinds
<1>4. Live \subseteq alive
  BY DEF Live
<1>5. \A x \in alive \cap Listed : Paint(Reached(vs))[x] = "gray" <=> mark[x] = "gray"
        \/ x \in Reached(vs)
  BY <1>1, <1>3
<1> QED
  BY <1>1, <1>2, <1>4, <1>5

\* From here on what open upvalues have written is marked.
LEMMA RemarkUpvalsStep == ASSUME IInv, RemarkUpvals PROVE IInv'
<1> DEFINE vs == {Val(u) : u \in {w \in Open : mark[w] = "gray"}}
<1>1. /\ phase = "atomic" /\ phase' = "upvals" /\ mark' = Paint(Reached(vs)) /\ gray'
            = gray \cup (Reached(vs) \cap Listed)
  BY DEF RemarkUpvals, Mark
<1>2. UNCHANGED <<use, alive, field, meta, cap, mt, active, running, from, stack, top, uth, uslot,
        uval, markedopen, grayagain, weak, unswept, full>>
  BY DEF RemarkUpvals, objs, heap, cors, stks, upvs
<1>3. keepinvariant /\ phase \notin Stages /\ phase' \in Stages /\ phase' \in Phases \ {"pause",
        "sweep"} /\ phase # "sweep"
  BY <1>1 DEF keepinvariant, Stages, Phases
<1>4. \A u \in Open : Val(u) \in Objects \cup {Nil} /\ Ok(Val(u))
  BY ValOk, Kinds DEF IInv, Heap, References, Open
<1>5. vs \in SUBSET (Objects \cup {Nil}) /\ \A v \in vs : Ok(v)
  BY <1>4
<1>6. \A u \in Open : mark[u] = "gray" => Val(u) \in vs
  OBVIOUS
<1> HIDE DEF vs
<1>7. Paint(Reached(vs)) \in [Objects -> Colour]
  BY <1>3, <1>5, PaintOk
<1>8. LET R == Reached(vs) \cap Listed
      IN  /\ {x \in alive \cap Listed : Paint(Reached(vs))[x] = "gray"}
          = gray \cup grayagain \cup weak \cup R
          /\ R \cap (gray \cup grayagain \cup weak) = {} /\ R \subseteq Listed
  BY <1>3, <1>5, PaintListed
<1>9. GrayListed'
  BY <1>1, <1>2, <1>3, <1>8 DEF IInv, Colours, GrayListed
<1>10. gray' \subseteq Listed /\ grayagain' \subseteq Listed /\ weak' \subseteq Tables
         /\ markedopen' \subseteq UpVals
       /\ stack' \in [Threads -> [1..Slots -> Values]]
  BY <1>1, <1>2 DEF IInv, Heap, TypeOK
<1>11. Nil \in Listed \cup {Nil} /\ Nil \notin Objects /\ Nil \notin Threads
  BY Kinds
<1>12. /\ Heap' /\ Swept' /\ NeverBlack' /\ BlackRefs' /\ Marked' /\ OpenUnmarked'
       /\ (phase' \in Stages => \A u \in Open : mark'[u] = "gray" => ~IsWhite(Val(u))')
  <2>1. \A x \in Objects : mark'[x] = IF x = Nil THEN "gray" ELSE Paint(Reached(vs))[x]
    BY <1>1, <1>11
  <2>2. mark' \in [Objects -> Colour]
    BY <1>1, <1>7
  <2> QED
    BY <1>2, <1>3, <1>5, <1>6, <1>10, <1>11, <2>1, <2>2, MarkingStep
<1>13. Staged'
  BY <1>1, <1>2, <1>3, <1>12 DEF Staged, Open
<1> QED
  BY <1>9, <1>12, <1>13 DEF IInv, Colours

\* The running thread and the basic metatables are marked for good.
LEMMA RemarkWeakStep == ASSUME IInv, RemarkWeak PROVE IInv'
<1> DEFINE vs == {running, mt}
<1>1. /\ phase = "upvals" /\ phase' = "weak" /\ mark' = Paint(Reached(vs)) /\ gray = {}
      /\ gray' = weak \cup (Reached(vs) \cap Listed) /\ weak' = {}
  BY DEF RemarkWeak
<1>2. UNCHANGED <<use, alive, field, meta, cap, mt, active, running, from, stack, top, uth, uslot,
        uval, markedopen, grayagain, unswept, full>>
  BY DEF RemarkWeak, objs, heap, cors, stks, upvs
<1>3. keepinvariant /\ phase \in Stages /\ phase' \in Stages /\ phase' \in Phases \ {"pause",
        "sweep"} /\ phase # "sweep"
  BY <1>1 DEF keepinvariant, Stages, Phases
<1>5. vs \in SUBSET (Objects \cup {Nil}) /\ \A v \in vs : Ok(v)
  BY Kinds, SeenOk DEF IInv, Heap, TypeOK, References, Ok
<1>6. running # Nil /\ running \in vs /\ mt \in vs
  BY Kinds, SeenOk
<1> HIDE DEF vs
<1>7. Paint(Reached(vs)) \in [Objects -> Colour]
  BY <1>3, <1>5, PaintOk
<1>8. LET R == Reached(vs) \cap Listed
      IN  /\ {x \in alive \cap Listed : Paint(Reached(vs))[x] = "gray"}
          = gray \cup grayagain \cup weak \cup R
          /\ R \cap (gray \cup grayagain \cup weak) = {} /\ R \subseteq Listed
  BY <1>3, <1>5, PaintListed
<1>9. GrayListed'
  BY <1>1, <1>2, <1>3, <1>8 DEF IInv, Colours, GrayListed
<1>10. gray' \subseteq Listed /\ grayagain' \subseteq Listed /\ weak' \subseteq Tables
         /\ markedopen' \subseteq UpVals
       /\ stack' \in [Threads -> [1..Slots -> Values]]
  BY <1>1, <1>2, Kinds DEF IInv, Heap, TypeOK
<1>11. Nil \in Listed \cup {Nil} /\ Nil \notin Objects /\ Nil \notin Threads
  BY Kinds
<1>12. /\ Heap' /\ Swept' /\ NeverBlack' /\ BlackRefs' /\ Marked' /\ OpenUnmarked'
       /\ (phase' \in Stages => \A u \in Open : mark'[u] = "gray" => ~IsWhite(Val(u))')
       /\ (\A x \in vs : x # Nil => ~iswhite(x)')
  <2>1. \A x \in Objects : mark'[x] = IF x = Nil THEN "gray" ELSE Paint(Reached(vs))[x]
    BY <1>1, <1>11
  <2>2. mark' \in [Objects -> Colour]
    BY <1>1, <1>7
  <2> QED
    BY <1>2, <1>3, <1>5, <1>6, <1>10, <1>11, <2>1, <2>2, MarkingStep
<1>13. Staged'
  <2>1. ~iswhite(running)' /\ ~IsWhite(mt)'
    BY <1>2, <1>6, <1>12 DEF IsWhite, iswhite
  <2> QED
    BY <1>1, <1>2, <1>3, <1>12, <2>1 DEF Staged, Open
<1> QED
  BY <1>9, <1>12, <1>13 DEF IInv, Colours

\* What was turned gray again is traversed.
LEMMA RemarkAgainStep == ASSUME IInv, RemarkAgain PROVE IInv'
<1>1. phase = "weak" /\ phase' = "again" /\ mark' = mark /\ gray = {} /\ gray' = grayagain
        /\ grayagain' = {}
  BY DEF RemarkAgain
<1>2. UNCHANGED <<use, alive, field, meta, cap, mt, active, running, from, stack, top, uth, uslot,
        uval, markedopen, weak, unswept, full, mark>>
  BY DEF RemarkAgain, objs, heap, cors, stks, upvs
<1>3. keepinvariant /\ keepinvariant' /\ phase \in Stages /\ phase' \in Stages /\ phase' \in Phases
  BY <1>1 DEF keepinvariant, Stages, Phases
<1>4. TypeOK'
  BY <1>1, <1>2, <1>3 DEF IInv, Heap, TypeOK
<1>5. References' /\ Fresh'
  BY <1>2 DEF IInv, Heap, References, Fresh, Ok, Live, isdead, Open
<1>6. Chain' /\ Held'
  BY <1>2 DEF IInv, Heap, Chain, Held, OpenOf
<1>7. GrayListed'
  BY <1>1, <1>2, <1>3 DEF IInv, Colours, GrayListed
<1>8. Swept'
  BY <1>1, <1>2 DEF IInv, Colours, Swept
<1>9. NeverBlack' /\ Marked' /\ OpenUnmarked'
  BY <1>2, <1>3 DEF IInv, Colours, NeverBlack, Marked, OpenUnmarked, Open, iswhite
<1>10. BlackRefs'
  BY <1>2, <1>3 DEF IInv, Colours, BlackRefs, OpenOf, IsWhite, iswhite
<1>11. Staged'
  BY <1>1, <1>2, <1>3 DEF IInv, Colours, Staged, Open, IsWhite, iswhite, Val
<1> QED
  BY <1>4, <1>5, <1>6, <1>7, <1>8, <1>9, <1>10, <1>11 DEF IInv, Heap, Colours

\* The references of an object.
LEMMA ChildrenOk ==
    ASSUME IInv, NEW o \in Listed \cap Live
    PROVE  /\ Children(o) \in SUBSET (Objects \cup {Nil}) /\ \A v \in Children(o) : Ok(v)
           /\ o \in Tables => meta[o] \in Children(o) /\ (~IsWeak(o) => field[o] \in Children(o))
           /\ o \in Closures => cap[o] \in Children(o)
           /\ o \in Threads => Stack(o) \subseteq Children(o) /\ OpenOf(o) \subseteq Children(o)
<1>1. Ok(Globals) /\ Globals \in Objects
  BY Kinds DEF IInv, Heap, References, Ok
<1>2. CASE o \in Tables
  <2>1. Children(o) = {meta[o]} \cup (IF IsWeak(o) THEN {} ELSE {field[o]})
    BY <1>2, Kinds DEF Children
  <2>2. Ok(meta[o]) /\ Ok(field[o]) /\ meta[o] \in Objects \cup {Nil} /\ field[o] \in Objects \cup {Nil}
    BY <1>2, Kinds DEF IInv, Heap, TypeOK, References
  <2> QED
    BY <1>2, <2>1, <2>2, Kinds
<1>3. CASE o \in Closures
  <2>1. Children(o) = {Globals, cap[o]}
    BY <1>3, Kinds DEF Children
  <2>2. Ok(cap[o]) /\ cap[o] \in Objects \cup {Nil}
    BY <1>3, Kinds DEF IInv, Heap, TypeOK, References
  <2> QED
    BY <1>1, <1>3, <2>1, <2>2, Kinds
<1>4. CASE o \in Threads
  <2>1. Children(o) = {Globals} \cup Stack(o) \cup OpenOf(o)
    BY <1>4, Kinds DEF Children
  <2>2. \A i \in 1..Slots : Ok(stack[o][i]) /\ stack[o][i] \in Objects \cup {Nil}
    BY <1>4, Kinds DEF IInv, Heap, TypeOK, References
  <2>3. top[o] \in 0..Slots /\ Slots \in Nat
    BY <1>4, Kinds DEF IInv, Heap, TypeOK
  <2>4. \A v \in Stack(o) : Ok(v) /\ v \in Objects \cup {Nil}
    BY <2>2, <2>3 DEF Stack
  <2>5. \A u \in OpenOf(o) : Ok(u) /\ u \in Objects
    BY <1>4, Kinds DEF IInv, Heap, References, Ok, OpenOf, Open
  <2> QED
    BY <1>1, <1>4, <2>1, <2>4, <2>5, Kinds
<1> QED
  BY <1>2, <1>3, <1>4, Kinds

\* clearstack.
LEMMA ClearStackOk ==
    ASSUME TypeOK, NEW o \in Threads
    PROVE  /\ ClearStack(o) \in [Threads -> [1..Slots -> Values]]
           /\ \A th \in Threads : th # o => ClearStack(o)[th] = stack[th]
           /\ \A j \in 1..Slots : ClearStack(o)[o][j] = IF j <= top[o] THEN stack[o][j] ELSE Nil
<1>1. stack \in [Threads -> [1..Slots -> Values]] /\ stack[o] \in [1..Slots -> Values]
  BY DEF TypeOK
<1>2. ClearStack(o) = [stack EXCEPT ![o]
        = [i \in 1..Slots |-> IF i <= top[o] THEN stack[o][i] ELSE Nil]]
  BY <1>1 DEF ClearStack
<1>3. [i \in 1..Slots |-> IF i <= top[o] THEN stack[o][i] ELSE Nil] \in [1..Slots -> Values]
  BY <1>1, Kinds
<1> QED
  BY <1>1, <1>2, <1>3

\* One object is traversed.
LEMMA PropagateStep == ASSUME IInv, Propagate PROVE IInv'
<1>1. PICK o \in gray :
        LET es    == Reached(Children(o))
            left  == (gray \ {o}) \cup (es \cap Listed)
            stays == o \in active \/ (o \in Tables /\ IsWeak(o))
            later == IF o \in active THEN grayagain \cup {o} ELSE grayagain
        IN  /\ keepinvariant /\ phase # "atomic"
            /\ mark' = [Paint(es) EXCEPT ![o] = IF stays THEN "gray" ELSE "black"]
            /\ weak' = IF stays /\ o \in Tables THEN weak \cup {o} ELSE weak
            /\ markedopen' = IF o \in Threads THEN markedopen \cup OpenOf(o) ELSE markedopen
            /\ stack' = IF o \in Threads /\ (o \notin active \/ phase \in Stages)
                        THEN ClearStack(o) ELSE stack
            /\ IF left = {} /\ phase = "propagate"
               THEN gray' = later /\ grayagain' = {} /\ phase' = "propagateagain"
               ELSE /\ gray' = left /\ grayagain' = later
                    /\ phase' = IF left = {} /\ phase = "propagateagain" THEN "atomic" ELSE phase
            /\ UNCHANGED <<objs, top, uth, uslot, uval, unswept, full>>
  BY DEF Propagate
<1> DEFINE vs == Children(o)
           es == Reached(vs)
           left == (gray \ {o}) \cup (es \cap Listed)
           stays == o \in active \/ (o \in Tables /\ IsWeak(o))
           later == IF o \in active THEN grayagain \cup {o} ELSE grayagain
           c == IF stays THEN "gray" ELSE "black"
<1>2. /\ keepinvariant /\ phase # "atomic"
      /\ mark' = [Paint(es) EXCEPT ![o] = c]
      /\ weak' = IF stays /\ o \in Tables THEN weak \cup {o} ELSE weak
      /\ markedopen' = IF o \in Threads THEN markedopen \cup OpenOf(o) ELSE markedopen
      /\ stack' = IF o \in Threads /\ (o \notin active
            \/ phase \in Stages) THEN ClearStack(o) ELSE stack
      /\ \/ left = {} /\ phase = "propagate" /\ gray' = later /\ grayagain' = {} /\ phase'
            = "propagateagain"
         \/ /\ ~(left = {} /\ phase = "propagate")
            /\ gray' = left /\ grayagain' = later
            /\ phase' = IF left = {} /\ phase = "propagateagain" THEN "atomic" ELSE phase
  BY <1>1
<1>3. UNCHANGED <<use, alive, field, meta, cap, mt, active, running, from, top, uth, uslot, uval,
        unswept, full>>
  BY <1>1 DEF objs, heap, cors
<1>4. /\ o \in Listed /\ o \in alive /\ o \in Live /\ mark[o] = "gray" /\ o \in Objects
            /\ o \notin UpVals
      /\ gray \subseteq Listed /\ grayagain \subseteq Listed /\ weak \subseteq Tables
            /\ phase \in Phases
  BY <1>2, Kinds, ListsGray DEF IInv, Heap, TypeOK, Colours, GrayListed, Live, isdead
<1>5. /\ vs \in SUBSET (Objects \cup {Nil}) /\ (\A v \in vs : Ok(v))
      /\ (o \in Tables => meta[o] \in vs /\ (~IsWeak(o) => field[o] \in vs))
      /\ (o \in Closures => cap[o] \in vs)
      /\ (o \in Threads => Stack(o) \subseteq vs /\ OpenOf(o) \subseteq vs)
  BY <1>4, ChildrenOk
<1>6. /\ phase # "sweep" /\ phase # "pause" /\ phase' \in Phases \ {"pause", "sweep"}
      /\ (phase' \in Stages <=> phase \in Stages) /\ (phase' \in Stages => phase' = phase)
  BY <1>2, <1>4 DEF keepinvariant, Phases, Stages
<1>7. active \subseteq Threads /\ Threads \cap Tables = {}
  BY Kinds DEF IInv, Heap, TypeOK
<1> HIDE DEF vs
<1>8. /\ Paint(es) \in [Objects -> Colour]
      /\ \A x \in Objects \ es : Paint(es)[x] = mark[x]
      /\ \A x \in es : mark[x] = "white"
  BY <1>5, <1>6, PaintOk
<1>9. /\ {x \in alive \cap Listed : Paint(es)[x] = "gray"}
            = gray \cup grayagain \cup weak \cup (es \cap Listed)
      /\ (es \cap Listed) \cap (gray \cup grayagain \cup weak) = {}
  BY <1>2, <1>5, PaintListed
<1> HIDE DEF es
<1>10. c \in {"gray", "black"} /\ mark' \in [Objects -> Colour] /\ \A x \in Objects : mark'[x]
         = IF x = o THEN c ELSE Paint(es)[x]
  BY <1>2, <1>4, <1>8 DEF Colour
<1>11. gray' \subseteq Listed /\ grayagain' \subseteq Listed /\ weak' \subseteq Tables
  BY <1>2, <1>4
<1>12. stack' \in [Threads -> [1..Slots -> Values]] /\ (\A th \in Threads : th # o => stack'[th]
         = stack[th])
  BY <1>2, ClearStackOk DEF IInv, Heap, TypeOK
<1>13. \A th \in Threads : \A j \in 1..Slots : stack'[th][j] = stack[th][j] \/ (j > top[th]
         /\ stack'[th][j] = Nil)
  <2> SUFFICES ASSUME NEW th \in Threads, NEW j \in 1..Slots
        PROVE stack'[th][j] = stack[th][j] \/ (j > top[th] /\ stack'[th][j] = Nil)
    OBVIOUS
  <2>1. CASE th # o
    BY <1>12, <2>1
  <2>2. CASE stack' = stack
    BY <2>2
  <2>3. CASE th = o /\ stack' = ClearStack(o)
    <3>1. top[o] \in 0..Slots /\ Slots \in Nat
      BY <2>3, Kinds DEF IInv, Heap, TypeOK
    <3>2. stack'[o][j] = IF j <= top[o] THEN stack[o][j] ELSE Nil
      BY <2>3, ClearStackOk DEF IInv, Heap
    <3> QED
      BY <2>3, <3>1, <3>2
  <2> QED
    BY <1>2, <2>1, <2>2, <2>3
<1>14. o \in Threads /\ (o \notin active \/ phase \in Stages)
         => \A j \in 1..Slots : stack'[o][j] \in vs \cup {Nil}
  <2> SUFFICES ASSUME o \in Threads, o \notin active \/ phase \in Stages, NEW j \in 1..Slots
        PROVE stack'[o][j] \in vs \cup {Nil}
    OBVIOUS
  <2>1. stack'[o][j] = IF j <= top[o] THEN stack[o][j] ELSE Nil
    BY <1>2, ClearStackOk DEF IInv, Heap
  <2>2. top[o] \in 0..Slots /\ Slots \in Nat
    BY Kinds DEF IInv, Heap, TypeOK
  <2>3. j <= top[o] => stack[o][j] \in Stack(o)
    BY <2>2 DEF Stack
  <2> QED
    BY <1>5, <2>1, <2>3
<1>15. c = "black" => /\ o \notin active
                      /\ (o \in Tables => field[o] \in vs /\ meta[o] \in vs)
                      /\ (o \in Closures => cap[o] \in vs)
                      /\ (o \in Threads => OpenOf(o) \subseteq vs
                            /\ \A j \in 1..Slots : stack'[o][j] \in vs \cup {Nil})
  BY <1>5, <1>14
<1>16. markedopen' \subseteq UpVals /\ \A u \in markedopen' : u \in markedopen
         \/ (u \in vs \cap Open /\ uth[u] = o)
  BY <1>2, <1>4, <1>5, Kinds DEF IInv, Heap, TypeOK, OpenOf, Open
<1>17. /\ Heap' /\ Swept' /\ NeverBlack' /\ BlackRefs' /\ Marked' /\ OpenUnmarked'
       /\ (phase' \in Stages => \A u \in Open : mark'[u] = "gray" => ~IsWhite(Val(u))')
       /\ (\A x \in vs : x # Nil => ~iswhite(x)')
       /\ (\A x \in Objects : iswhite(x)' => iswhite(x))
  <2>1. o \in Listed \cup {Nil}
    BY <1>4
  <2> HIDE DEF c
  <2> QED
    BY <1>2, <1>3, <1>4, <1>5, <1>6, <1>8, <1>10, <1>11, <1>12, <1>13, <1>15, <1>16, <2>1,
        MarkingStep DEF es
<1>18. GrayListed'
  <2>1. /\ gray \cap grayagain = {} /\ gray \cap weak = {} /\ grayagain \cap weak = {}
    BY <1>2 DEF IInv, Colours, GrayListed
  <2>2. {x \in alive \cap Listed : mark'[x] = "gray"}
          = ((gray \cup grayagain \cup weak \cup (es \cap Listed)) \ {o}) \cup (IF stays THEN {o} ELSE {})
    <3>1. \A x \in Listed : x \in Objects
      BY Kinds
    <3>2. \A x \in alive \cap Listed : mark'[x] = "gray" <=> IF x = o THEN stays ELSE Paint(es)[x]
            = "gray"
      BY <1>10, <3>1
    <3>3. \A x \in alive \cap Listed : Paint(es)[x] = "gray"
            <=> x \in gray \cup grayagain \cup weak \cup (es \cap Listed)
      BY <1>9
    <3>4. gray \cup grayagain \cup weak \cup (es \cap Listed) \subseteq alive \cap Listed
      BY <1>9
    <3> HIDE DEF stays
    <3> QED
      BY <1>4, <3>2, <3>3, <3>4
  <2>3. o \notin grayagain /\ o \notin weak /\ o \notin es
    BY <1>4, <1>8, <2>1
  <2>4. (stays /\ o \in Tables <=> o \in Tables /\ IsWeak(o)) /\ (o \in active => o \notin Tables
          /\ stays)
        /\ (stays => o \in active \/ o \in Tables)
    BY <1>7
  <2>5. later \cup weak' = (grayagain \cup weak) \cup (IF stays THEN {o} ELSE {})
    BY <1>2, <2>4
  <2>6. later \cap weak' = {} /\ left \cap later = {} /\ left \cap weak' = {}
    BY <1>2, <1>7, <1>9, <2>1, <2>3
  <2>7. {x \in alive \cap Listed : mark'[x] = "gray"} = left \cup later \cup weak'
    BY <2>2, <2>3, <2>5
  <2> HIDE DEF left, later, stays
  <2>8. gray' \cup grayagain' = left \cup later /\ gray' \cap grayagain' = {} /\ gray' \cap weak'
          = {} /\ grayagain' \cap weak' = {}
    BY <1>2, <2>6
  <2> QED
    BY <1>3, <2>7, <2>8 DEF GrayListed
<1>19. Staged'
  <2>1. \A x \in Objects \cup {Nil} : IsWhite(x)' => IsWhite(x)
    BY <1>17 DEF IsWhite
  <2>2. ASSUME phase' \in {"weak", "again"}
        PROVE  ~iswhite(running)' /\ ~IsWhite(mt)' /\ \A t \in weak' : ~IsWhite(meta[t])'
    <3>1. phase \in {"weak", "again"}
      BY <1>6, <2>2 DEF Stages
    <3>2. ~iswhite(running) /\ ~IsWhite(mt) /\ \A t \in weak : ~IsWhite(meta[t])
      BY <3>1 DEF IInv, Colours, Staged
    <3>3. running \in Objects /\ mt \in Objects \cup {Nil}
            /\ \A t \in Tables : meta[t] \in Objects \cup {Nil}
      BY Kinds DEF IInv, Heap, TypeOK
    <3>4. ~iswhite(running)' /\ ~IsWhite(mt)'
      BY <1>3, <1>17, <2>1, <3>2, <3>3
    <3>5. \A t \in weak' : t \in weak \/ (t = o /\ o \in Tables)
      BY <1>2
    <3>6. \A t \in weak' : ~IsWhite(meta[t])'
      BY <1>3, <1>4, <1>5, <1>17, <2>1, <3>2, <3>3, <3>5 DEF IsWhite, iswhite
    <3> QED
      BY <3>4, <3>6
  <2>3. ASSUME phase' = "again", NEW x \in grayagain'
        PROVE  /\ x \in Threads /\ \A u \in OpenOf(x)' : ~iswhite(u)'
               /\ \A i \in 1..Slots : ~IsWhite(stack[x][i])'
    <3>0. phase = "again" /\ phase \in Stages /\ grayagain' = later
      BY <1>2, <1>6, <2>3 DEF Stages
    <3>1. CASE x \in grayagain
      <4>1. x \in Threads /\ (\A u \in OpenOf(x) : ~iswhite(u))
              /\ \A i \in 1..Slots : ~IsWhite(stack[x][i])
        BY <3>0, <3>1 DEF IInv, Colours, Staged
      <4>2. x # o
        BY <1>2, <1>4, <3>1 DEF IInv, Colours, GrayListed
      <4>3. OpenOf(x)' = OpenOf(x) /\ OpenOf(x) \subseteq Objects
        BY <1>3, Kinds DEF OpenOf
      <4>4. \A i \in 1..Slots : stack'[x][i] = stack[x][i] /\ stack[x][i] \in Objects \cup {Nil}
        BY <1>12, <4>1, <4>2, Kinds DEF IInv, Heap, TypeOK
      <4> QED
        BY <1>17, <2>1, <4>1, <4>3, <4>4
    <3>2. CASE x \notin grayagain
      <4>1. x = o /\ o \in active /\ o \in Threads
        BY <1>7, <2>3, <3>0, <3>2
      <4>2. OpenOf(x)' = OpenOf(x) /\ OpenOf(x) \subseteq vs /\ \A u \in OpenOf(x) : u # Nil
        BY <1>3, <1>5, <4>1, Kinds DEF OpenOf
      <4>3. \A i \in 1..Slots : stack'[x][i] \in vs \cup {Nil}
        BY <1>14, <3>0, <4>1
      <4>4. \A i \in 1..Slots : ~IsWhite(stack[x][i])'
        BY <1>17, <4>3 DEF IsWhite
      <4> QED
        BY <1>17, <4>1, <4>2, <4>4
    <3> QED
      BY <3>1, <3>2
  <2>4. phase' \in Stages => \A u \in Open' : mark'[u] = "gray" => ~IsWhite(Val(u))'
    BY <1>3, <1>17 DEF Open
  <2> QED
    BY <2>2, <2>3, <2>4 DEF Staged
<1> QED
  BY <1>17, <1>18, <1>19 DEF IInv, Colours

\* The state lua_newstate leaves.
LEMMA InitOk == Init => IInv
<1> SUFFICES ASSUME Init PROVE IInv
  OBVIOUS
<1>1. /\ use \in Uses /\ alive = {Main, Globals}
      /\ field = [t \in Tables |-> Nil] /\ meta = [t \in Tables |-> Nil]
      /\ cap = [f \in Closures |-> Nil] /\ mt = Nil
      /\ stack = [th \in Threads |-> [i \in 1..Slots |-> Nil]]
      /\ top = [th \in Threads |-> IF th = Main THEN 1 ELSE 0]
      /\ uth = [u \in UpVals |-> Nil] /\ uslot = [u \in UpVals |-> 1]
      /\ uval = [u \in UpVals |-> Nil] /\ markedopen = {}
      /\ active = {Main} /\ running = Main /\ from = [th \in Threads |-> Nil]
      /\ mark = [o \in Objects |-> "white"]
      /\ gray = {} /\ grayagain = {} /\ weak = {} /\ phase = "pause" /\ unswept = {} /\ full = "no"
  BY DEF Init
<1>2. Main \in Objects /\ Globals \in Objects /\ Main \in Threads /\ Nil \in Values
        /\ 1 \in 1..Slots /\ 0 \in 0..Slots /\ 1 \in 0..Slots
  BY Kinds
<1>3. Open = {} /\ Live = alive /\ ~keepinvariant /\ phase \notin Stages /\ phase \in Phases
  BY <1>1, <1>2 DEF Open, Live, isdead, keepinvariant, Stages, Phases
<1>4. TypeOK
  BY <1>1, <1>2, <1>3 DEF TypeOK
<1>5. References
  BY <1>1, <1>2, <1>3, Kinds DEF References, Ok
<1>6. Fresh
  BY <1>1, <1>2, <1>3, Kinds DEF Fresh
<1>7. Chain /\ Held
  BY <1>1 DEF Chain, Held
<1>8. GrayListed /\ Swept /\ NeverBlack /\ BlackRefs /\ Marked /\ OpenUnmarked
  BY <1>1, <1>2, <1>3 DEF GrayListed, Swept, NeverBlack, BlackRefs, Marked, OpenUnmarked
<1>9. Staged
  BY <1>1, <1>3 DEF Staged
<1> QED
  BY <1>4, <1>5, <1>6, <1>7, <1>8, <1>9 DEF IInv, Heap, Colours

\* A marking starts with every object white and no upvalue marked as open.
LEMMA MarkRootStep == ASSUME IInv, MarkRoot PROVE IInv'
<1> DEFINE vs == {Main, Globals, mt}
           R == Reached(vs)
<1>1. /\ phase = "pause" /\ phase' = "propagate" /\ mark' = Paint(R) /\ gray' = R \cap Listed
      /\ grayagain' = {} /\ weak' = {}
      /\ \/ full = "sweep" /\ full' = "cycle" /\ markedopen' = {}
         \/ full # "sweep" /\ full' = full /\ markedopen' = markedopen
  BY DEF MarkRoot
<1>2. UNCHANGED <<use, alive, field, meta, cap, mt, active, running, from, stack, top, uth, uslot,
        uval, unswept>>
  BY DEF MarkRoot, objs, heap, cors, stks
<1>3. keepinvariant' /\ phase' \notin Stages /\ phase' \in Phases /\ phase # "sweep" /\ ~keepinvariant
  BY <1>1 DEF keepinvariant, Stages, Phases
<1>4. Main \in vs /\ Globals \in vs /\ Main # Nil /\ Globals # Nil /\ Main \in Objects
        /\ Globals \in Objects
  BY Kinds
<1>5. vs \in SUBSET (Objects \cup {Nil}) /\ (\A v \in vs : Ok(v)) /\ vs \cap UpVals = {}
  BY <1>4, Kinds DEF IInv, Heap, TypeOK, References, Ok
<1>6. \A x \in Objects : mark[x] = "white"
  BY <1>1 DEF IInv, Colours, Swept
<1> HIDE DEF vs
<1>7. /\ Paint(R) \in [Objects -> Colour] /\ R \subseteq Live
      /\ \A x \in R : Paint(R)[x] = IF x \in UpVals /\ uth[x] = Nil THEN "black" ELSE "gray"
      /\ \A x \in Objects \ R : Paint(R)[x] = mark[x]
      /\ \A v \in vs : v # Nil => Paint(R)[v] \in {"gray", "black"}
  BY <1>3, <1>5, PaintOk
<1>8. R \cap UpVals = {}
  <2>1. \A x \in R : x \in vs \/ \E u \in UpVals \cap vs : x = Val(u)
    BY DEF Reached
  <2> QED
    BY <1>5, <2>1
<1>9. R \subseteq Objects /\ alive \subseteq Objects
  BY <1>7 DEF Live, IInv, Heap, TypeOK
<1> HIDE DEF R
<1>10. \A x \in Objects : mark'[x] = IF x \in R THEN "gray" ELSE "white"
  BY <1>1, <1>6, <1>7, <1>8
<1>11. markedopen' = {}
  BY <1>1, <1>3 DEF IInv, Colours, OpenUnmarked
<1>12. TypeOK'
  <2>1. full' \in {"no", "sweep", "cycle"} /\ gray' \subseteq Listed /\ mark' \in [Objects -> Colour]
    BY <1>1, <1>7 DEF IInv, Heap, TypeOK
  <2> QED
    BY <1>1, <1>2, <1>3, <1>11, <2>1 DEF IInv, Heap, TypeOK, Colour
<1>13. Live' = Live /\ Live = alive
  BY <1>2, <1>6, <1>9, <1>10 DEF Live, isdead
<1>14. References'
  BY <1>2, <1>13 DEF IInv, Heap, References, Ok, Open
<1>15. Fresh'
  <2>1. \A x \in Objects \ alive : mark'[x] = "white"
    BY <1>7, <1>10, <1>13
  <2> QED
    BY <1>2, <1>11, <2>1 DEF IInv, Heap, Fresh
<1>16. Chain' /\ Held'
  BY <1>2 DEF IInv, Heap, Chain, Held, OpenOf
<1>17. GrayListed'
  BY <1>1, <1>2, <1>7, <1>9, <1>10, <1>13, Kinds DEF GrayListed
<1>18. Swept'
  BY <1>1, <1>2, <1>9, <1>10 DEF IInv, Colours, Swept
<1>19. NeverBlack' /\ BlackRefs'
  <2>1. \A x \in Objects : mark'[x] # "black"
    BY <1>10
  <2>2. Open' \cup active' \subseteq Objects /\ alive' \subseteq Objects
    BY <1>2, <1>9, Kinds DEF Open, IInv, Heap, TypeOK
  <2> QED
    BY <2>1, <2>2 DEF NeverBlack, BlackRefs
<1>20. Marked'
  <2>1. ~iswhite(Main)' /\ ~iswhite(Globals)'
    BY <1>1, <1>4, <1>7 DEF iswhite
  <2>2. \A u \in UpVals : mark'[u] # "gray"
    BY <1>8, <1>10, Kinds
  <2> QED
    BY <1>11, <2>1, <2>2 DEF Marked
<1>21. Staged' /\ OpenUnmarked'
  BY <1>1, <1>3, <1>11 DEF Staged, OpenUnmarked, Stages
<1> QED
  BY <1>12, <1>14, <1>15, <1>16, <1>17, <1>18, <1>19, <1>20, <1>21 DEF IInv, Heap, Colours

\* An abandoned marking has no dead object.
LEMMA FullGCStep == ASSUME IInv, FullGC PROVE IInv'
<1>1. full' = "sweep" /\ phase \notin Stages
      /\ \/ /\ keepinvariant /\ phase' = "sweep" /\ unswept' = alive \ {Main}
            /\ gray' = {} /\ grayagain' = {} /\ weak' = {}
         \/ /\ ~keepinvariant /\ phase' = phase /\ unswept' = unswept
            /\ gray' = gray /\ grayagain' = grayagain /\ weak' = weak
  BY DEF FullGC, Runs
<1>2. UNCHANGED <<use, alive, field, meta, cap, mt, active, running, from, stack, top, uth, uslot,
        uval, markedopen, mark>>
  BY DEF FullGC, objs, heap, cors, stks, upvs
<1>3. ~keepinvariant' /\ phase' \in {"pause", "sweep"} /\ phase' \in Phases /\ phase' \notin Stages
  BY <1>1 DEF keepinvariant, Stages, Phases
<1>4. TypeOK'
  <2>1. unswept' \subseteq Objects /\ gray' \subseteq Listed /\ grayagain' \subseteq Listed
          /\ weak' \subseteq Tables
    BY <1>1 DEF IInv, Heap, TypeOK
  <2> QED
    BY <1>1, <1>2, <1>3, <2>1 DEF IInv, Heap, TypeOK
<1>5. References' /\ Fresh'
  BY <1>2 DEF IInv, Heap, References, Fresh, Ok, Live, isdead, Open
<1>6. Chain' /\ Held'
  BY <1>2 DEF IInv, Heap, Chain, Held, OpenOf
<1>7. Swept'
  <2>1. CASE keepinvariant
    <3>1. \A x \in Objects : mark[x] # "dead"
      BY <2>1, NoneDead DEF keepinvariant
    <3>2. phase' = "sweep" /\ unswept' = alive \ {Main}
      BY <1>1, <2>1
    <3> QED
      BY <1>2, <3>1, <3>2 DEF IInv, Heap, Fresh, Swept
  <2>2. CASE ~keepinvariant
    BY <1>1, <1>2, <2>2 DEF IInv, Colours, Swept
  <2> QED
    BY <2>1, <2>2
<1>8. NeverBlack'
  BY <1>2 DEF IInv, Colours, NeverBlack, Open
<1>9. GrayListed' /\ BlackRefs' /\ Marked' /\ Staged' /\ OpenUnmarked'
  BY <1>1, <1>3 DEF GrayListed, BlackRefs, Marked, Staged, OpenUnmarked, Stages
<1> QED
  BY <1>4, <1>5, <1>6, <1>7, <1>8, <1>9 DEF IInv, Heap, Colours

\* One object is freed or made white; nothing that is not dead refers to a freed one.
LEMMA SweepStep == ASSUME IInv, Sweep PROVE IInv'
<1>1. PICK o \in unswept :
          /\ unswept' = unswept \ {o}
          /\ mark' = [x \in Objects |-> IF x = o \/ (unswept = {o} /\ x
                = Main) THEN "white" ELSE mark[x]]
          /\ IF isdead(o)
             THEN /\ alive' = alive \ {o}
                  /\ field' = Cleared(field, o, Nil) /\ meta' = Cleared(meta, o, Nil)
                  /\ cap' = Cleared(cap, o, Nil)
                  /\ stack' = Cleared(stack, o, [i \in 1..Slots |-> Nil])
                  /\ top' = Cleared(top, o, 0)
                  /\ uval' = Cleared(uval, o, Nil)
             ELSE UNCHANGED <<alive, field, meta, cap, stks, uval>>
          /\ phase' = IF unswept = {o} THEN "pause" ELSE "sweep"
          /\ full' = IF unswept = {o} /\ full = "cycle" THEN "no" ELSE full
  BY DEF Sweep
<1>2. UNCHANGED <<use, mt, uth, uslot, markedopen, active, running, from, gray, grayagain,
        weak>> /\ phase = "sweep"
  BY DEF Sweep, cors
<1>3. ~keepinvariant' /\ ~keepinvariant /\ phase' \in {"pause",
        "sweep"} /\ phase' \in Phases /\ phase' \notin Stages
  BY <1>1, <1>2 DEF keepinvariant, Stages, Phases
<1>4. /\ unswept \subseteq alive \ {Main} /\ alive \subseteq Objects /\ Main \in alive
            /\ ~isdead(Main) /\ Main \in Objects /\ o \in Objects
      /\ mark \in [Objects -> Colour] /\ o # Main
  BY <1>1, ListsGray DEF IInv, Heap, TypeOK, References, Live, Colours, Swept
<1>5. /\ mark' \in [Objects -> Colour] /\ mark'[o] = "white" /\ (unswept = {o} => mark'[Main] = "white")
      /\ \A x \in Objects : mark'[x] = mark[x] \/ (mark'[x] = "white" /\ x \in {o, Main})
  BY <1>1, <1>4 DEF Colour
<1>6. Live' = Live
  <2>1. CASE isdead(o)
    <3>1. \A x \in Objects : x # o => (mark'[x] = "dead" <=> mark[x] = "dead")
      BY <1>4, <1>5 DEF isdead
    <3> QED
      BY <1>1, <1>4, <2>1, <3>1 DEF Live, isdead
  <2>2. CASE ~isdead(o)
    <3>1. \A x \in Objects : mark'[x] = "dead" <=> mark[x] = "dead"
      BY <1>4, <1>5, <2>2 DEF isdead
    <3> QED
      BY <1>1, <1>4, <2>2, <3>1 DEF Live, isdead
  <2> QED
    BY <2>1, <2>2
<1>7. /\ field \in [Tables -> Values] /\ meta \in [Tables -> Tables \cup {Nil}]
            /\ cap \in [Closures -> Objects \cup {Nil}]
      /\ stack \in [Threads -> [1..Slots -> Values]] /\ top \in [Threads -> 0..Slots]
            /\ uval \in [UpVals -> Values]
  BY DEF IInv, Heap, TypeOK
<1>8. /\ field' \in [Tables -> Values] /\ meta' \in [Tables -> Tables \cup {Nil}]
            /\ cap' \in [Closures -> Objects \cup {Nil}]
      /\ stack' \in [Threads -> [1..Slots -> Values]] /\ top' \in [Threads -> 0..Slots]
            /\ uval' \in [UpVals -> Values]
  <2>1. CASE isdead(o)
    <3>1. 0 \in 0..Slots /\ Nil \in Values /\ [i \in 1..Slots |-> Nil] \in [1..Slots -> Values]
      BY Kinds
    <3>2. field' \in [Tables -> Values] /\ meta' \in [Tables -> Tables \cup {Nil}]
      BY <1>1, <1>7, <2>1, <3>1 DEF Cleared
    <3>3. cap' \in [Closures -> Objects \cup {Nil}] /\ uval' \in [UpVals -> Values]
      BY <1>1, <1>7, <2>1, <3>1 DEF Cleared
    <3>4. stack' \in [Threads -> [1..Slots -> Values]] /\ top' \in [Threads -> 0..Slots]
      BY <1>1, <1>7, <2>1, <3>1 DEF Cleared
    <3> QED
      BY <3>2, <3>3, <3>4
  <2>2. CASE ~isdead(o)
    BY <1>1, <1>7, <2>2 DEF stks
  <2> QED
    BY <2>1, <2>2
<1>9. /\ \A t \in Tables : t # o \/ ~isdead(o) => field'[t] = field[t] /\ meta'[t] = meta[t]
      /\ \A f \in Closures : f # o \/ ~isdead(o) => cap'[f] = cap[f]
      /\ \A th \in Threads : th # o \/ ~isdead(o) => stack'[th] = stack[th] /\ top'[th] = top[th]
      /\ \A u \in UpVals : u # o \/ ~isdead(o) => uval'[u] = uval[u]
  BY <1>1, <1>7 DEF Cleared, stks
<1>10. isdead(o) => /\ (o \in Tables => field'[o] = Nil /\ meta'[o] = Nil)
                    /\ (o \in Closures => cap'[o] = Nil)
                    /\ (o \in Threads => stack'[o] = [i \in 1..Slots |-> Nil] /\ top'[o] = 0)
                    /\ (o \in UpVals => uval'[o] = Nil)
  BY <1>1, <1>7 DEF Cleared
<1>11. alive' \subseteq alive /\ (alive' = alive \/ (alive' = alive \ {o} /\ isdead(o)))
  BY <1>1
<1>12. TypeOK'
  <2>1. alive' \subseteq Objects /\ unswept' \subseteq Objects /\ full' \in {"no", "sweep", "cycle"}
    BY <1>1, <1>4, <1>11 DEF IInv, Heap, TypeOK
  <2> QED
    BY <1>2, <1>3, <1>5, <1>8, <2>1 DEF IInv, Heap, TypeOK, Colour
<1>13. \A x \in Live : x # o \/ ~isdead(o)
  BY DEF Live
<1>14. References'
  BY <1>2, <1>6, <1>9, <1>13 DEF IInv, Heap, References, Ok, Open
<1>15. Fresh'
  <2>1. \A x \in Objects \ alive' : x \in Objects \ alive \/ (x = o /\ isdead(o))
    BY <1>11
  <2>2. \A x \in Objects \ alive' : mark'[x] = "white"
    BY <1>5, <2>1 DEF IInv, Heap, Fresh
  <2>3. \A t \in Tables \ alive' : field'[t] = Nil /\ meta'[t] = Nil
    BY <1>9, <1>10, <2>1, Kinds DEF IInv, Heap, Fresh
  <2>4. \A f \in Closures \ alive' : cap'[f] = Nil
    BY <1>9, <1>10, <2>1, Kinds DEF IInv, Heap, Fresh
  <2>5. \A th \in Threads \ alive' : stack'[th] = [i \in 1..Slots |-> Nil] /\ top'[th] = 0
    BY <1>9, <1>10, <2>1, Kinds DEF IInv, Heap, Fresh
  <2>6. \A u \in UpVals \ alive' : uval'[u] = Nil
    BY <1>9, <1>10, <2>1, Kinds DEF IInv, Heap, Fresh
  <2>7. markedopen' \subseteq Open'
    BY <1>2 DEF IInv, Heap, Fresh, Open
  <2> QED
    BY <2>2, <2>3, <2>4, <2>5, <2>6, <2>7 DEF Fresh
<1>16. Chain'
  BY <1>2 DEF IInv, Heap, Chain
<1>17. Held'
  <2>1. \A th \in active \ {Main} : from[th] \in Threads /\ from[th] \in Live
    BY DEF IInv, Heap, Chain, TypeOK, References
  <2>2. \A th \in active \ {Main} : stack'[from[th]] = stack[from[th]] /\ top'[from[th]] = top[from[th]]
    BY <1>9, <1>13, <2>1
  <2> QED
    BY <1>2, <2>2 DEF IInv, Heap, Held, OpenOf
<1>18. Swept'
  <2>1. \A x \in Objects : mark'[x] = "dead" => x \in unswept'
    BY <1>1, <1>5 DEF IInv, Colours, Swept
  <2>2. unswept' \subseteq alive' \ {Main}
    BY <1>1, <1>4, <1>11
  <2>3. \A x \in Objects \ (unswept' \cup {Main}) : mark'[x] = "white"
    BY <1>1, <1>2, <1>5 DEF IInv, Colours, Swept
  <2>4. phase' = "pause" => unswept = {o}
    BY <1>1
  <2>5. phase' = "pause" => unswept' = {} /\ \A x \in Objects : mark'[x] = "white"
    BY <1>1, <1>5, <2>3, <2>4
  <2> QED
    BY <1>3, <2>1, <2>2, <2>3, <2>5 DEF Swept
<1>19. NeverBlack'
  <2>1. Open' = Open /\ Open \subseteq Objects /\ active \subseteq Objects
    BY <1>2, Kinds DEF Open, IInv, Heap, TypeOK
  <2> QED
    BY <1>2, <1>5, <2>1 DEF IInv, Colours, NeverBlack
<1>20. GrayListed' /\ BlackRefs' /\ Marked' /\ Staged'
  BY <1>3 DEF GrayListed, BlackRefs, Marked, Staged, Stages
<1>21. OpenUnmarked'
  BY <1>1, <1>2, <1>3 DEF IInv, Colours, OpenUnmarked
<1> QED
  BY <1>12, <1>14, <1>15, <1>16, <1>17, <1>18, <1>19, <1>20, <1>21 DEF IInv, Heap, Colours

\* At the end of atomic() every thread that runs or waits is marked: the main
\* thread is, each marked one was traversed again, and each is in the frame of the
\* thread that resumed it.
LEMMA ActiveMarked ==
    ASSUME IInv, phase = "again", gray = {}
    PROVE  \A th \in active : ~iswhite(th)
<1> DEFINE S == {th \in active : ~iswhite(th)}
<1>1. keepinvariant /\ phase \in Stages
  BY DEF keepinvariant, Stages
<1>2. Main \in S
  BY <1>1 DEF IInv, Heap, Chain, Colours, Marked
<1>3. ASSUME NEW th \in active \ {Main}, from[th] \in S PROVE th \in S
  <2>1. /\ from[th] \in active /\ from[th] \in Threads /\ ~iswhite(from[th]) /\ mark[from[th]] # "black"
        /\ mark[from[th]] \in Colour /\ from[th] \in alive /\ from[th] \in Listed
              /\ from[th] \notin Tables
    <3>1. from[th] \in active /\ ~iswhite(from[th])
      BY <1>3
    <3>2. active \subseteq Threads /\ active \subseteq alive /\ mark \in [Objects -> Colour]
      BY DEF IInv, Heap, TypeOK, References, Live, Colour
    <3>3. \A o \in active : mark[o] # "black"
      BY DEF IInv, Colours, NeverBlack
    <3> QED
      BY <3>1, <3>2, <3>3, Kinds
  <2>2. from[th] \in grayagain
    BY <1>1, <2>1, Kinds DEF IInv, Heap, TypeOK, Colours, GrayListed, Colour, iswhite
  <2>3. \A i \in 1..Slots : ~IsWhite(stack[from[th]][i])
    BY <2>2 DEF IInv, Colours, Staged
  <2>4. top[from[th]] \in 0..Slots /\ Slots \in Nat
    BY <2>1, Kinds DEF IInv, Heap, TypeOK
  <2>5. PICK i \in 1..top[from[th]] : stack[from[th]][i] = th
    BY DEF IInv, Heap, Held
  <2>6. ~IsWhite(th)
    BY <2>3, <2>4, <2>5
  <2>7. th # Nil
    BY Kinds DEF IInv, Heap, TypeOK
  <2> QED
    BY <2>6, <2>7 DEF IsWhite
<1>4. S \in SUBSET active
  OBVIOUS
<1> HIDE DEF S
<1>5. active = S
  BY <1>2, <1>3, <1>4 DEF IInv, Heap, Chain
<1> QED
  BY <1>5 DEF S

\* Only white objects become dead, and what is not white refers to none of them.
LEMMA FinishStep == ASSUME IInv, Finish PROVE IInv'
<1> DEFINE strings == {field[t] : t \in weak} \cap Strings
           gone == {t \in weak : IsWhite(field[t]) /\ field[t] \notin Strings}
           left == Open \ markedopen
           live == {u \in left : ~iswhite(u)}
<1>1. /\ phase = "again" /\ gray = {}
      /\ field' = [t \in Tables |-> IF t \in gone THEN Nil ELSE field[t]]
      /\ mark' = [o \in Objects |-> CASE o \in live -> "black"
                                      [] o \in strings -> "gray"
                                      [] o \in alive \ strings /\ iswhite(o) -> "dead"
                                      [] OTHER -> mark[o]]
      /\ uval' = [u \in UpVals |-> IF u \in live THEN Val(u) ELSE uval[u]]
      /\ uth' = [u \in UpVals |-> IF u \in left THEN Nil ELSE uth[u]]
      /\ uslot' = [u \in UpVals |-> IF u \in left THEN 1 ELSE uslot[u]]
      /\ markedopen' = {}
      /\ weak' = {} /\ phase' = "sweep" /\ unswept' = alive \ {Main}
  BY DEF Finish
<1>2. UNCHANGED <<use, alive, meta, cap, mt, active, running, from, stack, top, gray, grayagain, full>>
  BY DEF Finish, stks, cors
<1>3. keepinvariant /\ ~keepinvariant' /\ phase \in Stages /\ phase' \notin Stages
        /\ phase' \in Phases /\ phase # "sweep"
  BY <1>1 DEF keepinvariant, Stages, Phases
<1>4. /\ mark \in [Objects -> Colour] /\ alive \subseteq Objects
            /\ (\A x \in Objects : mark[x] # "dead") /\ Live = alive
      /\ weak \subseteq Tables /\ Open \subseteq UpVals /\ Open \subseteq alive
            /\ UpVals \subseteq Objects /\ UpVals \cap Strings = {}
      /\ uth \in [UpVals -> Threads \cup {Nil}] /\ uval \in [UpVals -> Values]
            /\ uslot \in [UpVals -> 1..Slots]
      /\ field \in [Tables -> Values]
  BY <1>3, ListsGray, NoneDead, Kinds DEF IInv, Heap, TypeOK, References, Live, isdead, Open
<1>5. weak \subseteq alive /\ weak \subseteq Live
  BY <1>3, <1>4 DEF IInv, Colours, GrayListed
<1>6. strings \subseteq alive /\ strings \subseteq Strings
  <2>1. \A t \in weak : Ok(field[t])
    BY <1>4, <1>5 DEF IInv, Heap, References
  <2>2. Nil \notin Strings
    BY Kinds
  <2> QED
    BY <1>4, <2>1, <2>2 DEF Ok
<1>7. left \subseteq Open /\ live \subseteq left /\ live \cap strings = {}
        /\ (\A u \in live : ~iswhite(u)) /\ (\A u \in left : iswhite(u) => u \notin live)
  BY <1>4, <1>6
<1>8. \A t \in Tables : t \in weak => (IsWhite(field[t]) => t \in gone \/ field[t] \in strings)
  OBVIOUS
<1>9. \A u \in left : ~iswhite(u) => u \in live
  OBVIOUS
<1>10. \A u \in markedopen : u \in Open => u \notin left
  OBVIOUS
<1> HIDE DEF strings, gone, left, live
<1>11. \A x \in Objects : mark'[x] = IF x \in live THEN "black" ELSE IF x \in strings THEN "gray"
                                     ELSE IF x \in alive /\ iswhite(x) THEN "dead" ELSE mark[x]
  <2> SUFFICES ASSUME NEW x \in Objects
               PROVE  mark'[x] = IF x \in live THEN "black" ELSE IF x \in strings THEN "gray"
                                 ELSE IF x \in alive /\ iswhite(x) THEN "dead" ELSE mark[x]
    OBVIOUS
  <2>1. mark'[x] = CASE x \in live -> "black"
                     [] x \in strings -> "gray"
                     [] x \in alive \ strings /\ iswhite(x) -> "dead"
                     [] OTHER -> mark[x]
    BY <1>1
  <2>2. x \in live => x \notin strings /\ ~iswhite(x)
    BY <1>7
  <2>3. CASE x \in live
    BY <2>1, <2>2, <2>3
  <2>4. CASE x \in strings
    BY <2>1, <2>2, <2>4
  <2>5. CASE x \notin live /\ x \notin strings
    BY <2>1, <2>5
  <2> QED
    BY <2>3, <2>4, <2>5
<1>12. \A x \in Objects : ~iswhite(x) => mark'[x] \in {"gray",
         "black"} /\ (x \in live \cup strings \/ mark'[x] = mark[x])
  BY <1>4, <1>11 DEF iswhite, Colour
<1>13. \A x \in Objects \ alive : mark'[x] = "white"
  BY <1>4, <1>6, <1>7, <1>11 DEF IInv, Heap, Fresh
<1>14. \A x \in Objects : mark'[x] = "dead" => x \in alive /\ iswhite(x) /\ x \notin strings
  BY <1>4, <1>11
<1>15. \A x \in alive : ~iswhite(x) => x \in Live'
  BY <1>2, <1>4, <1>12 DEF Live, isdead
<1>16. \A x \in strings : x \in Live'
  BY <1>2, <1>4, <1>6, <1>14 DEF Live, isdead
<1>17. \A x \in Live' : x \in alive /\ (x \in strings \/ ~iswhite(x))
  BY <1>2, <1>4, <1>11, <1>7 DEF Live, isdead
<1>18. \A x \in Live \cup {Nil} : ~IsWhite(x) => x \in Live' \cup {Nil}
  BY <1>4, <1>15 DEF IsWhite
<1>19. \A th \in active : ~iswhite(th)
  BY <1>1, ActiveMarked
<1>20. ~iswhite(Main) /\ ~iswhite(Globals) /\ ~IsWhite(mt)
  BY <1>1, <1>3 DEF IInv, Colours, Marked, Staged
<1>21. ASSUME NEW u \in Open, u \notin left
         PROVE ~iswhite(u) /\ ~iswhite(uth[u]) /\ uth[u] \in alive /\ uth[u] \in Objects
  <2>1. u \in markedopen
    BY <1>21 DEF left
  <2>2. ~iswhite(u) /\ ~iswhite(uth[u])
    BY <1>3, <2>1 DEF IInv, Colours, Marked
  <2>3. uth[u] \in Live
    BY <1>4 DEF IInv, Heap, References, Open
  <2> QED
    BY <1>4, <2>2, <2>3
<1>22. Open' = Open \ left
  BY <1>1, <1>4, <1>7 DEF Open
<1>23. TypeOK'
  <2>1. field' \in [Tables -> Values] /\ uth' \in [UpVals -> Threads \cup {Nil}]
          /\ uslot' \in [UpVals -> 1..Slots]
    BY <1>1, <1>4, Kinds
  <2>2. uval' \in [UpVals -> Values]
    <3>1. \A u \in live : Val(u) \in Values
      BY <1>4, <1>7, ValOk
    <3> QED
      BY <1>1, <1>4, <3>1
  <2>3. mark' \in [Objects -> Colour]
    BY <1>1, <1>4, <1>11 DEF Colour
  <2>4. unswept' \subseteq Objects /\ weak' \subseteq Tables /\ markedopen' \subseteq UpVals
    BY <1>1, <1>4
  <2> QED
    BY <1>2, <1>3, <2>1, <2>2, <2>3, <2>4 DEF IInv, Heap, TypeOK, Colour
<1>24. \A x \in alive \cap Listed : mark[x] = "gray" => x \in grayagain \cup weak
  BY <1>1, <1>3 DEF IInv, Colours, GrayListed
<1>25. grayagain \subseteq Threads
  BY <1>1 DEF IInv, Colours, Staged
<1>26. References'
  <2>1. active' \subseteq Live' /\ Main \in Live' /\ Globals \in Live' /\ Ok(mt)'
          /\ Open' \subseteq Live'
    <3>1. active \subseteq alive /\ Main \in alive /\ Globals \in alive /\ Ok(mt)
      BY <1>4 DEF IInv, Heap, References
    <3>2. Open' \subseteq Live'
      BY <1>4, <1>15, <1>21, <1>22
    <3> QED
      BY <1>2, <1>15, <1>18, <1>19, <1>20, <3>1, <3>2 DEF Ok
  <2>2. ASSUME NEW t \in Tables \cap Live' PROVE Ok(field[t])' /\ Ok(meta[t])'
    <3>1. t \in alive /\ ~iswhite(t) /\ mark[t] \in {"gray",
            "black"} /\ Ok(field[t]) /\ Ok(meta[t]) /\ t \in Listed /\ t \notin Threads
      BY <1>4, <1>6, <1>17, Kinds DEF iswhite, Colour, IInv, Heap, References
    <3>2. CASE mark[t] = "black"
      <4>1. ~IsWhite(field[t]) /\ ~IsWhite(meta[t])
        BY <1>3, <3>1, <3>2 DEF IInv, Colours, BlackRefs
      <4> QED
        BY <1>1, <1>2, <1>18, <3>1, <4>1 DEF Ok
    <3>3. CASE mark[t] = "gray"
      <4>1. t \in weak
        BY <1>24, <1>25, <3>1, <3>3
      <4>2. ~IsWhite(meta[t])
        BY <1>1, <4>1 DEF IInv, Colours, Staged
      <4>3. IsWhite(field[t]) => t \in gone \/ field[t] \in strings
        BY <1>8, <4>1
      <4> QED
        BY <1>1, <1>2, <1>16, <1>18, <3>1, <4>2, <4>3 DEF Ok
    <3> QED
      BY <3>1, <3>2, <3>3
  <2>3. ASSUME NEW f \in Closures \cap Live' PROVE Ok(cap[f])'
    <3>1. f \in alive /\ ~iswhite(f) /\ mark[f] \in {"gray",
            "black"} /\ Ok(cap[f]) /\ f \in Listed /\ f \notin Threads /\ f \notin weak
      BY <1>4, <1>6, <1>17, Kinds DEF iswhite, Colour, IInv, Heap, References
    <3>2. mark[f] = "black"
      BY <1>24, <1>25, <3>1
    <3>3. ~IsWhite(cap[f])
      BY <1>3, <3>1, <3>2 DEF IInv, Colours, BlackRefs
    <3> QED
      BY <1>2, <1>18, <3>1, <3>3 DEF Ok
  <2>4. ASSUME NEW th \in Threads \cap Live', NEW j \in 1..Slots PROVE Ok(stack[th][j])'
    <3>1. th \in alive /\ ~iswhite(th) /\ mark[th] \in {"gray",
            "black"} /\ Ok(stack[th][j]) /\ th \in Listed /\ th \notin weak
      BY <1>4, <1>6, <1>17, Kinds DEF iswhite, Colour, IInv, Heap, References
    <3>2. CASE mark[th] = "black"
      <4>1. ~IsWhite(stack[th][j])
        BY <1>3, <3>1, <3>2 DEF IInv, Colours, BlackRefs
      <4> QED
        BY <1>2, <1>18, <3>1, <4>1 DEF Ok
    <3>3. CASE mark[th] = "gray"
      <4>1. th \in grayagain
        BY <1>24, <3>1, <3>3
      <4>2. ~IsWhite(stack[th][j])
        BY <1>1, <4>1 DEF IInv, Colours, Staged
      <4> QED
        BY <1>2, <1>18, <3>1, <4>2 DEF Ok
    <3> QED
      BY <3>1, <3>2, <3>3
  <2>5. ASSUME NEW u \in UpVals \cap Live'
          PROVE IF uth'[u] = Nil THEN Ok(uval[u])' ELSE uth'[u] \in Live'
    <3>1. u \in alive /\ ~iswhite(u) /\ mark[u] \in {"gray", "black"} /\ u \in Objects
      BY <1>4, <1>6, <1>17 DEF iswhite, Colour
    <3>2. CASE u \in Open /\ u \notin left
      <4>1. uth'[u] = uth[u] /\ uth[u] # Nil
        BY <1>1, <3>2 DEF Open
      <4> QED
        BY <1>15, <1>21, <3>2, <4>1
    <3>3. CASE u \in left
      <4>1. u \in live /\ u \in Open /\ uth'[u] = Nil /\ uval'[u] = Val(u)
        BY <1>1, <1>7, <1>9, <3>1, <3>3
      <4>2. mark[u] = "gray"
        BY <3>1, <4>1 DEF IInv, Colours, NeverBlack
      <4>3. ~IsWhite(Val(u)) /\ Ok(Val(u))
        BY <1>3, <1>4, <3>1, <4>1, <4>2, ValOk DEF IInv, Colours, Staged
      <4> QED
        BY <1>18, <4>1, <4>3 DEF Ok
    <3>4. CASE u \notin Open
      <4>1. uth[u] = Nil /\ uth'[u] = Nil /\ u \notin live /\ uval'[u] = uval[u]
        BY <1>1, <1>7, <3>4 DEF Open
      <4>2. mark[u] = "black"
        BY <1>3, <3>1, <4>1 DEF IInv, Colours, Marked
      <4>3. ~IsWhite(uval[u]) /\ Ok(uval[u])
        BY <1>3, <1>4, <3>1, <4>1, <4>2 DEF IInv, Heap, References, Colours, BlackRefs
      <4> QED
        BY <1>18, <4>1, <4>3 DEF Ok
    <3> QED
      BY <1>7, <3>2, <3>3, <3>4
  <2> QED
    BY <2>1, <2>2, <2>3, <2>4, <2>5 DEF References
<1>27. Fresh'
  <2>1. \A t \in Tables \ alive : field'[t] = field[t]
    BY <1>1, <1>5 DEF gone
  <2>2. \A u \in UpVals \ alive : uval'[u] = uval[u]
    BY <1>1, <1>4, <1>7
  <2> QED
    BY <1>1, <1>2, <1>13, <2>1, <2>2 DEF IInv, Heap, Fresh
<1>28. Chain'
  BY <1>2 DEF IInv, Heap, Chain
<1>29. Held'
  <2> SUFFICES ASSUME NEW th \in active \ {Main}
               PROVE  \E k \in 1..top[from[th]] : stack[from[th]][k] = th
                   /\ \A u \in OpenOf(from[th])' : uslot'[u] # k
    BY <1>2 DEF Held
  <2>1. from[th] # Nil /\ from'[th] = from[th]
    BY <1>2, Kinds DEF IInv, Heap, TypeOK, Chain
  <2>2. PICK k \in 1..top[from[th]] : stack[from[th]][k] = th
          /\ \A u \in OpenOf(from[th]) : uslot[u] # k
    BY DEF IInv, Heap, Held
  <2>3. \A u \in OpenOf(from[th])' : u \in UpVals /\ uth'[u] = from[th]
    BY <1>2 DEF OpenOf
  <2>4. \A u \in OpenOf(from[th])' : u \in OpenOf(from[th]) /\ uslot'[u] = uslot[u]
    BY <1>1, <2>1, <2>3 DEF OpenOf
  <2> QED
    BY <2>2, <2>4
<1>30. Swept'
  <2>1. \A x \in Objects : mark'[x] = "dead" => x \in alive \ {Main}
    BY <1>14, <1>20
  <2>2. \A x \in Objects \ (unswept' \cup {Main}) : mark'[x] = "white"
    BY <1>1, <1>13
  <2> QED
    BY <1>1, <1>2, <2>1, <2>2 DEF Swept
<1>31. NeverBlack'
  <2>1. \A u \in Open' : mark'[u] # "black"
    BY <1>4, <1>7, <1>11, <1>22 DEF IInv, Colours, NeverBlack
  <2>2. active \subseteq Threads /\ Threads \subseteq Objects /\ Threads \cap UpVals = {}
    BY Kinds DEF IInv, Heap, TypeOK
  <2>3. \A th \in active : mark'[th] # "black"
    BY <1>4, <1>7, <1>11, <2>2 DEF IInv, Colours, NeverBlack
  <2> QED
    BY <1>2, <2>1, <2>3 DEF NeverBlack
<1>32. GrayListed' /\ BlackRefs' /\ Marked' /\ Staged' /\ OpenUnmarked'
  BY <1>1, <1>3 DEF GrayListed, BlackRefs, Marked, Staged, OpenUnmarked, Stages
<1> QED
  BY <1>23, <1>26, <1>27, <1>28, <1>29, <1>30, <1>31, <1>32 DEF IInv, Heap, Colours

-----------------------------------------------------------------------------
(* The invariant and what follows from it.                                 *)

\* A step that changes nothing keeps the invariant.
LEMMA StutterStep == ASSUME IInv, UNCHANGED vars PROVE IInv'
<1>1. UNCHANGED <<use, alive, field, meta, cap, mt, stack, top, uth, uslot, uval, markedopen, active,
        running, from,
                  mark, gray, grayagain, weak, phase, unswept, full>>
  BY DEF vars, heap, stks, upvs, cors
<1>2. TypeOK'
  BY <1>1 DEF IInv, Heap, TypeOK
<1>3. References' /\ Fresh'
  BY <1>1 DEF IInv, Heap, References, Fresh, Ok, Live, isdead, Open
<1>4. Chain' /\ Held'
  BY <1>1 DEF IInv, Heap, Chain, Held, OpenOf
<1>5. GrayListed' /\ Swept' /\ NeverBlack' /\ Marked' /\ OpenUnmarked'
  BY <1>1 DEF IInv, Colours, GrayListed, Swept, NeverBlack, Marked, OpenUnmarked, keepinvariant,
      Open, iswhite
<1>6. BlackRefs'
  BY <1>1 DEF IInv, Colours, BlackRefs, keepinvariant, OpenOf, IsWhite, iswhite
<1>7. Staged'
  BY <1>1 DEF IInv, Colours, Staged, Open, OpenOf, IsWhite, iswhite, Val
<1> QED
  BY <1>2, <1>3, <1>4, <1>5, <1>6, <1>7 DEF IInv, Heap, Colours

\* No step disturbs the invariant.
LEMMA NextStep == IInv /\ [Next]_vars => IInv'
BY MutatorStep, FullGCStep, MarkRootStep, PropagateStep, RemarkUpvalsStep, RemarkWeakStep,
    RemarkAgainStep,
   FinishStep, SweepStep, StutterStep DEF Next, Collector

\* The invariant holds throughout.
LEMMA Invariant == Spec => []IInv
<1>1. Init => IInv
  BY InitOk
<1>2. IInv /\ [Next]_vars => IInv'
  BY NextStep
<1> QED
  BY <1>1, <1>2, PTL DEF Spec

\* Lists, colours, slots and references of lgc.cpp stay what they are declared to
\* be, whatever the mutator does.
THEOREM TypeCorrect == Spec => []TypeOK
<1>1. IInv => TypeOK
  BY DEF IInv, Heap
<1> QED
  BY <1>1, Invariant, PTL

\* What an object that is not dead refers to.
LEMMA RefsLive == ASSUME IInv PROVE LiveClosed
<1>1. active \cup {Main, Globals, mt} \subseteq Live \cup {Nil}
  BY DEF IInv, Heap, References, Ok
<1>2. ASSUME NEW o \in Live PROVE Refs(o) \subseteq Live \cup {Nil}
  <2>1. o \in Objects
    BY DEF Live, IInv, Heap, TypeOK
  <2>2. CASE o \in Tables
    <3>1. Refs(o) = {field[o], meta[o]}
      BY <2>2, Kinds DEF Refs
    <3> QED
      BY <1>2, <2>2, <3>1 DEF IInv, Heap, References, Ok
  <2>3. CASE o \in Closures
    <3>1. Refs(o) = {Globals, cap[o]}
      BY <2>3, Kinds DEF Refs
    <3> QED
      BY <1>1, <1>2, <2>3, <3>1 DEF IInv, Heap, References, Ok
  <2>4. CASE o \in Threads
    <3>1. Refs(o) = {Globals} \cup {stack[o][i] : i \in 1..Slots} \cup OpenOf(o)
      BY <2>4, Kinds DEF Refs
    <3>2. \A i \in 1..Slots : stack[o][i] \in Live \cup {Nil}
      BY <1>2, <2>4 DEF IInv, Heap, References, Ok
    <3>3. OpenOf(o) \subseteq Live
      BY <2>4, Kinds DEF OpenOf, Open, IInv, Heap, References
    <3> QED
      BY <1>1, <3>1, <3>2, <3>3
  <2>5. CASE o \in UpVals
    <3>1. Refs(o) = {IF uth[o] = Nil THEN uval[o] ELSE uth[o]}
      BY <2>5, Kinds DEF Refs
    <3> QED
      BY <1>2, <2>5, <3>1 DEF IInv, Heap, References, Ok
  <2>6. CASE o \in Strings
    <3>1. Refs(o) = {}
      BY <2>6, Kinds DEF Refs
    <3> QED
      BY <3>1
  <2> QED
    BY <2>1, <2>2, <2>3, <2>4, <2>5, <2>6, Kinds
<1> QED
  BY <1>1, <1>2 DEF LiveClosed

\* Nothing that can still be read is freed or waits to be, in every state of the
\* collector: no reference of an object that is not dead leads to one that is.
THEOREM LiveClosedAlways == Spec => []LiveClosed
<1>1. IInv => LiveClosed
  BY RefsLive
<1> QED
  BY <1>1, Invariant, PTL

\* As long as every resume passes its barrier, which the failed ones that pass no
\* argument do not, no register of a thread that runs or waits is dangling.
THEOREM StackRefsAlways == Spec => []StackRefsLive
<1>1. ASSUME IInv PROVE StackRefsLive
  <2> SUFFICES ASSUME NEW th \in active, NEW i \in 1..top[th] PROVE stack[th][i] \in Live \cup {Nil}
    BY DEF StackRefsLive
  <2>1. th \in Threads /\ th \in Live /\ top[th] \in 0..Slots /\ Slots \in Nat
    BY <1>1, Kinds DEF IInv, Heap, TypeOK, References
  <2>2. i \in 1..Slots
    BY <2>1
  <2> QED
    BY <1>1, <2>1, <2>2 DEF IInv, Heap, References, Ok
<1> QED
  BY <1>1, Invariant, PTL

\* The references of a black object.
LEMMA BlackRefsTriColour == ASSUME IInv PROVE TriColour
<1>1. \A o \in Open \cup active : mark[o] # "black"
  BY DEF IInv, Colours, NeverBlack
<1>2. ASSUME keepinvariant, NEW o \in alive, mark[o] = "black", NEW v \in Refs(o), IsWhite(v)
      PROVE  phase \notin Stages /\ \E u \in OpenOf(o) : mark[u] = "gray" /\ Val(u) = v
  <2>1. o \in Objects /\ v # Globals
    BY <1>2 DEF IInv, Heap, TypeOK, Colours, Marked, IsWhite
  <2>2. CASE o \in Tables
    <3>1. Refs(o) = {field[o], meta[o]}
      BY <2>2, Kinds DEF Refs
    <3> QED
      BY <1>2, <2>2, <3>1 DEF IInv, Colours, BlackRefs
  <2>3. CASE o \in Closures
    <3>1. Refs(o) = {Globals, cap[o]}
      BY <2>3, Kinds DEF Refs
    <3> QED
      BY <1>2, <2>1, <2>3, <3>1 DEF IInv, Colours, BlackRefs
  <2>4. CASE o \in Threads
    <3>1. Refs(o) = {Globals} \cup {stack[o][i] : i \in 1..Slots} \cup OpenOf(o)
      BY <2>4, Kinds DEF Refs
    <3>2. \A u \in OpenOf(o) : mark[u] = "gray"
      BY <1>2, <2>4 DEF IInv, Colours, BlackRefs
    <3>3. v \notin OpenOf(o)
      BY <1>2, <3>2 DEF IsWhite, iswhite
    <3>4. PICK i \in 1..Slots : v = stack[o][i]
      BY <1>2, <2>1, <3>1, <3>3
    <3>5. phase \notin Stages /\ \E u \in OpenOf(o) : uslot[u] = i
      BY <1>2, <2>4, <3>4 DEF IInv, Colours, BlackRefs
    <3>6. PICK u \in OpenOf(o) : uslot[u] = i
      BY <3>5
    <3>7. Val(u) = v
      BY <2>4, <3>4, <3>6, Kinds DEF Val, OpenOf
    <3> QED
      BY <3>2, <3>5, <3>7
  <2>5. CASE o \in UpVals
    <3>1. uth[o] = Nil
      BY <1>1, <1>2, <2>5 DEF Open
    <3>2. Refs(o) = {uval[o]}
      BY <2>5, <3>1, Kinds DEF Refs
    <3> QED
      BY <1>2, <2>5, <3>2 DEF IInv, Colours, BlackRefs
  <2>6. CASE o \in Strings
    <3>1. Refs(o) = {}
      BY <2>6, Kinds DEF Refs
    <3> QED
      BY <1>2, <3>1
  <2> QED
    BY <2>1, <2>2, <2>3, <2>4, <2>5, <2>6, Kinds
<1> QED
  BY <1>1, <1>2 DEF TriColour

\* The invariant lgc.h states, with the exception the barriers of the code leave:
\* a slot of a marked thread that an open upvalue writes.
THEOREM TriColourAlways == Spec => []TriColour
<1>1. IInv => TriColour
  BY BlackRefsTriColour
<1> QED
  BY <1>1, Invariant, PTL

\* Every gray object waits in exactly one of the collector's lists, so none is
\* lost before it is traversed.
THEOREM GrayListedAlways == Spec => []GrayListed
<1>1. IInv => GrayListed
  BY DEF IInv, Colours
<1> QED
  BY <1>1, Invariant, PTL

-----------------------------------------------------------------------------
(* What a full collection leaves.                                         *)

\* An open upvalue refers to a slot in use.
InFrame == \A u \in Open : uslot[u] <= top[uth[u]]

\* Slots are given up only when no open upvalue refers to them.
LEMMA InFrameStep == ASSUME IInv, InFrame, Next PROVE InFrame'
<1>1. /\ top \in [Threads -> 0..Slots] /\ uth \in [UpVals -> Threads \cup {Nil}]
      /\ uslot \in [UpVals -> 1..Slots] /\ Slots \in Nat /\ Nil \notin Threads
      /\ running \in Threads /\ Main \in Threads
  BY Kinds DEF IInv, Heap, TypeOK
<1>2. \A u \in UpVals : uth[u] # Nil => uslot[u] <= top[uth[u]] /\ uth[u] \in Threads
  BY <1>1 DEF InFrame, Open
\* Upvalues are closed or left alone.
<1>a. ASSUME \A u \in UpVals : uth'[u] # Nil =>
                 /\ uth'[u] = uth[u] /\ uslot'[u] = uslot[u]
                 /\ uslot[u] <= top[uth[u]] => uslot[u] <= top'[uth[u]]
      PROVE  InFrame'
  BY <1>2, <1>a DEF InFrame, Open
\* And frames do not shrink.
<1>b. ASSUME UNCHANGED <<uth, uslot>>, \A th \in Threads : top'[th] \in Nat /\ top[th] <= top'[th]
      PROVE  InFrame'
  <2>1. ASSUME NEW u \in UpVals, uth'[u] # Nil
        PROVE  /\ uth'[u] = uth[u] /\ uslot'[u] = uslot[u]
               /\ uslot[u] <= top[uth[u]] => uslot[u] <= top'[uth[u]]
    <3>1. uth[u] \in Threads /\ uth'[u] = uth[u] /\ uslot'[u] = uslot[u]
      BY <1>2, <1>b, <2>1
    <3>2. top[uth[u]] \in Nat /\ top'[uth[u]] \in Nat /\ top[uth[u]] <= top'[uth[u]] /\ uslot[u] \in Nat
      BY <1>1, <1>b, <3>1
    <3> QED
      BY <3>1, <3>2
  <2> QED
    BY <1>a, <2>1
<1>c. UNCHANGED <<uth, uslot, top>> => InFrame'
  BY <1>1, <1>b
<1>3. ASSUME NEW us \in SUBSET Open, CloseUpvals(us),
             \A u \in Open \ us : uslot[u] <= top[uth[u]] => uslot[u] <= top'[uth[u]]
      PROVE  InFrame'
  <2>1. /\ \A u \in us : uth'[u] = Nil
        /\ \A u \in UpVals \ us : uth'[u] = uth[u] /\ uslot'[u] = uslot[u]
    BY <1>3, CloseOk
  <2> QED
    BY <1>3, <1>a, <2>1 DEF Open
<1>4. CASE Load \/ Create \/ PushString \/ SetTable \/ SetMetatable \/ SetUpval \/ ResumeFails(1)
  <2>1. CASE Load
    BY <1>c, <2>1 DEF Load, upvs
  <2>2. CASE Create
    BY <1>c, <2>2 DEF Create, upvs
  <2>3. CASE PushString
    BY <1>c, <2>3 DEF PushString, upvs
  <2>4. CASE SetTable
    BY <1>c, <2>4 DEF SetTable, upvs, stks
  <2>5. CASE SetMetatable
    BY <1>c, <2>5 DEF SetMetatable, upvs, stks
  <2>6. CASE SetUpval
    BY <1>c, <2>6 DEF SetUpval
  <2>7. CASE ResumeFails(1)
    BY <1>c, <2>7 DEF ResumeFails, upvs
  <2> QED
    BY <1>4, <2>1, <2>2, <2>3, <2>4, <2>5, <2>6, <2>7
<1>5. CASE NewClosure
  <2>1. PICK f \in Closures, i \in Regs, j \in Regs :
          \/ UNCHANGED upvs
          \/ \E u \in UpVals : /\ uth' = [uth EXCEPT ![u] = running] /\ uslot' = [uslot EXCEPT ![u] = j]
    BY <1>5 DEF NewClosure
  <2>2. top' = top
    BY <1>5 DEF NewClosure
  <2>3. CASE UNCHANGED upvs
    BY <1>c, <2>2, <2>3 DEF upvs
  <2>4. ASSUME NEW u \in UpVals, uth' = [uth EXCEPT ![u] = running], uslot' = [uslot EXCEPT ![u] = j]
        PROVE  InFrame'
    <3>1. j <= top[running]
      BY DEF Regs
    <3>2. uth'[u] = running /\ uslot'[u] = j
      BY <1>1, <2>4
    <3>3. \A w \in UpVals : w # u => uth'[w] = uth[w] /\ uslot'[w] = uslot[w]
      BY <1>1, <2>4
    <3> QED
      BY <1>2, <2>2, <3>1, <3>2, <3>3 DEF InFrame, Open
  <2> QED
    BY <2>1, <2>3, <2>4
<1>6. CASE Call
  <2>1. PICK k \in top[running]+1..use.slots[running] : top' = [top EXCEPT ![running] = k]
    BY <1>6 DEF Call
  <2>2. UNCHANGED <<uth, uslot>>
    BY <1>6 DEF Call, upvs
  <2>3. top[running] \in Nat /\ use.slots[running] \in 0..Slots
    BY <1>1, Uses_ DEF IInv, Heap
  <2>4. k \in Nat /\ top[running] <= k
    BY <1>1, <2>3
  <2>5. \A th \in Threads : top'[th] \in Nat /\ top[th] <= top'[th]
    BY <1>1, <2>1, <2>4
  <2> QED
    BY <1>b, <2>2, <2>5
<1>7. CASE Return
  <2>1. PICK k \in 0..top[running] :
          /\ CloseUpvals({u \in OpenOf(running) : uslot[u] > k})
          /\ top' \in {top, [top EXCEPT ![running] = k]}
    BY <1>7 DEF Return
  <2> DEFINE us == {u \in OpenOf(running) : uslot[u] > k}
  <2>2. us \in SUBSET Open
    BY <1>1 DEF OpenOf, Open
  <2>3. ASSUME NEW u \in Open \ us, uslot[u] <= top[uth[u]]
        PROVE  uslot[u] <= top'[uth[u]]
    <3>1. u \in UpVals /\ uth[u] \in Threads /\ uslot[u] \in Nat /\ k \in Nat
      BY <1>1, <1>2, <2>3 DEF Open
    <3>2. CASE uth[u] = running
      <4>1. uslot[u] <= k
        BY <2>3, <3>1, <3>2 DEF OpenOf
      <4> QED
        BY <1>1, <2>1, <2>3, <3>2, <4>1
    <3>3. CASE uth[u] # running
      BY <1>1, <2>1, <2>3, <3>1, <3>3
    <3> QED
      BY <3>2, <3>3
  <2> QED
    BY <1>3, <2>1, <2>2, <2>3
<1>8. CASE Resume
  <2>1. PICK co \in Resumable :
          \/ UNCHANGED stks
          \/ top' = [top EXCEPT ![co] = @ + 1]
    BY <1>8 DEF Resume
  <2>2. UNCHANGED <<uth, uslot>>
    BY <1>8 DEF Resume, upvs
  <2>3. \A th \in Threads : top'[th] \in Nat /\ top[th] <= top'[th]
    BY <1>1, <2>1 DEF stks
  <2> QED
    BY <1>b, <2>2, <2>3
<1>9. CASE Yield
  <2>1. \/ UNCHANGED stks
        \/ /\ top[running] > 0 /\ \A u \in OpenOf(running) : uslot[u] # top[running]
           /\ top' = [top EXCEPT ![running] = @ - 1]
    BY <1>9 DEF Yield
  <2>2. UNCHANGED <<uth, uslot>>
    BY <1>9 DEF Yield, upvs
  <2>3. CASE UNCHANGED stks
    BY <1>c, <2>2, <2>3 DEF stks
  <2>4. CASE /\ top[running] > 0 /\ \A u \in OpenOf(running) : uslot[u] # top[running]
             /\ top' = [top EXCEPT ![running] = @ - 1]
    <3>1. ASSUME NEW u \in UpVals, uth'[u] # Nil
          PROVE  /\ uth'[u] = uth[u] /\ uslot'[u] = uslot[u]
                 /\ uslot[u] <= top[uth[u]] => uslot[u] <= top'[uth[u]]
      <4>1. uth'[u] = uth[u] /\ uslot'[u] = uslot[u] /\ uth[u] \in Threads /\ uslot[u] \in Nat
        BY <1>1, <1>2, <2>2, <3>1
      <4>2. CASE uth[u] = running
        <5>1. uslot[u] # top[running] /\ top[running] \in Nat /\ top'[running] = top[running] - 1
          BY <1>1, <2>4, <4>2 DEF OpenOf
        <5> QED
          BY <4>1, <4>2, <5>1
      <4>3. CASE uth[u] # running
        BY <1>1, <2>4, <4>1, <4>3
      <4> QED
        BY <4>1, <4>2, <4>3
    <3> QED
      BY <1>a, <3>1
  <2> QED
    BY <2>1, <2>3, <2>4
<1>10. CASE CloseThread
  <2>1. PICK co \in Resumable : CloseUpvals(OpenOf(co)) /\ top' = [top EXCEPT ![co] = 0]
    BY <1>10 DEF CloseThread
  <2>2. co \in Threads
    BY DEF Resumable
  <2>3. OpenOf(co) \in SUBSET Open
    BY <1>1, <2>2 DEF OpenOf, Open
  <2>4. \A u \in Open \ OpenOf(co) : top'[uth[u]] = top[uth[u]]
    BY <1>1, <2>1, <2>2 DEF OpenOf, Open
  <2> QED
    BY <1>3, <2>1, <2>3, <2>4
<1>11. CASE FullGC \/ MarkRoot \/ Propagate \/ RemarkUpvals \/ RemarkWeak \/ RemarkAgain
  <2>1. UNCHANGED <<uth, uslot, top>>
    <3>1. CASE FullGC
      BY <3>1 DEF FullGC, stks, upvs
    <3>2. CASE MarkRoot
      BY <3>2 DEF MarkRoot, stks
    <3>3. CASE Propagate
      BY <3>3 DEF Propagate
    <3>4. CASE RemarkUpvals
      BY <3>4 DEF RemarkUpvals, stks, upvs
    <3>5. CASE RemarkWeak
      BY <3>5 DEF RemarkWeak, stks, upvs
    <3>6. CASE RemarkAgain
      BY <3>6 DEF RemarkAgain, stks, upvs
    <3> QED
      BY <1>11, <3>1, <3>2, <3>3, <3>4, <3>5, <3>6
  <2> QED
    BY <1>c, <2>1
<1>12. CASE Finish
  <2>1. /\ uth' = [u \in UpVals |-> IF u \in Open \ markedopen THEN Nil ELSE uth[u]]
        /\ uslot' = [u \in UpVals |-> IF u \in Open \ markedopen THEN 1 ELSE uslot[u]]
        /\ top' = top
    BY <1>12 DEF Finish, stks
  <2> QED
    BY <1>a, <2>1
<1>13. CASE Sweep
  <2>1. PICK o \in unswept : IF isdead(o) THEN top' = Cleared(top, o, 0) ELSE UNCHANGED stks
    BY <1>13 DEF Sweep
  <2>2. UNCHANGED <<uth, uslot>>
    BY <1>13 DEF Sweep
  <2>3. CASE ~isdead(o)
    BY <1>c, <2>1, <2>2, <2>3 DEF stks
  <2>4. CASE isdead(o)
    <3>1. \A u \in UpVals : uth[u] # Nil => uth[u] \in Live /\ uth[u] # o
      <4>1. Open \subseteq Live
        BY DEF IInv, Heap, References
      <4>2. \A u \in Open : uth[u] \in Live
        BY <4>1, ValOk DEF Open
      <4> QED
        BY <2>4, <4>2 DEF Open, Live
    <3>2. \A th \in Threads : th # o => top'[th] = top[th]
      BY <1>1, <2>1, <2>4 DEF Cleared
    <3> QED
      BY <1>1, <1>a, <2>2, <3>1, <3>2
  <2> QED
    BY <2>3, <2>4
<1> QED
  BY <1>4, <1>5, <1>6, <1>7, <1>8, <1>9, <1>10, <1>11, <1>12, <1>13 DEF Next, Mutator, Collector

\* In the cycle luaC_fullgc runs after it has abandoned a marking, what is marked
\* is reachable, lists of weak tables hold no others, and a thread that has been
\* traversed has had its upvalues noted; then only what is reachable is left.
OnlyReachable ==
    full = "cycle" =>
        /\ keepinvariant =>
              /\ \A o \in Objects : ~iswhite(o) => o \in Reachable
              /\ \A t \in weak : IsWeak(t)
              /\ \A th \in Threads \ gray : ~iswhite(th) => OpenOf(th) \subseteq markedopen
        /\ phase = "sweep" => Live \subseteq Reachable

\* What an object keeps alive.
LEMMA StrongIs ==
    /\ \A t \in Tables : Strong(t) = {meta[t]} \cup (IF IsWeak(t) THEN {} ELSE {field[t]})
                                                \cup ({field[t]} \cap Strings)
    /\ \A f \in Closures : Strong(f) = {Globals, cap[f]}
    /\ \A th \in Threads : Strong(th) = {Globals} \cup Stack(th) \cup OpenOf(th)
    /\ \A u \in UpVals : Strong(u) = {Val(u)}
    /\ \A s \in Strings : Strong(s) = {}
<1>1. ASSUME NEW t \in Tables
      PROVE  Strong(t) = {meta[t]} \cup (IF IsWeak(t) THEN {} ELSE {field[t]}) \cup ({field[t]} \cap Strings)
  <2>1. t \notin UpVals /\ t \notin Strings /\ t \notin Closures /\ t \notin Threads
    BY Kinds
  <2>2. Strong(t) = Children(t) \cup ({field[t]} \cap Strings)
    BY <2>1 DEF Strong
  <2>3. Children(t) = {meta[t]} \cup (IF IsWeak(t) THEN {} ELSE {field[t]})
    BY <2>1 DEF Children
  <2> QED
    BY <2>2, <2>3
<1>2. ASSUME NEW f \in Closures PROVE Strong(f) = {Globals, cap[f]}
  <2>1. f \notin UpVals /\ f \notin Strings /\ f \notin Tables /\ f \notin Threads
    BY Kinds
  <2>2. Strong(f) = Children(f)
    BY <2>1 DEF Strong
  <2> QED
    BY <2>1, <2>2 DEF Children
<1>3. ASSUME NEW th \in Threads PROVE Strong(th) = {Globals} \cup Stack(th) \cup OpenOf(th)
  <2>1. th \notin UpVals /\ th \notin Strings /\ th \notin Tables /\ th \notin Closures
    BY Kinds
  <2>2. Strong(th) = Children(th)
    BY <2>1 DEF Strong
  <2> QED
    BY <2>1, <2>2 DEF Children
<1>4. ASSUME NEW u \in UpVals PROVE Strong(u) = {Val(u)}
  <2>1. u \notin Strings /\ u \notin Tables
    BY Kinds
  <2> QED
    BY <2>1 DEF Strong
<1>5. ASSUME NEW s \in Strings PROVE Strong(s) = {}
  <2>1. s \notin UpVals /\ s \notin Tables
    BY Kinds
  <2> QED
    BY <2>1 DEF Strong
<1> QED
  BY <1>1, <1>2, <1>3, <1>4, <1>5

\* The frame of a thread lies in its stack.
LEMMA StackOk ==
    TypeOK => \A th \in Threads :
                 /\ \A v \in Stack(th) : v \in Values /\ \E i \in 1..Slots : v = stack[th][i]
                 /\ OpenOf(th) \subseteq Open
<1> SUFFICES ASSUME TypeOK, NEW th \in Threads
             PROVE  /\ \A v \in Stack(th) : v \in Values /\ \E i \in 1..Slots : v = stack[th][i]
                    /\ OpenOf(th) \subseteq Open
  OBVIOUS
<1>1. top[th] \in 0..Slots /\ Slots \in Nat /\ \A i \in 1..Slots : stack[th][i] \in Values
  BY Kinds DEF TypeOK
<1>2. th # Nil
  BY Kinds
<1> QED
  BY <1>1, <1>2 DEF Stack, OpenOf, Open

\* Only objects are kept alive.
LEMMA StrongObjects == TypeOK => \A o \in Objects : Strong(o) \subseteq Objects \cup {Nil}
<1> SUFFICES ASSUME TypeOK, NEW o \in Objects PROVE Strong(o) \subseteq Objects \cup {Nil}
  OBVIOUS
<1>0. Values \subseteq Objects \cup {Nil} /\ Globals \in Objects /\ Strings \subseteq Objects /\ UpVals \subseteq Objects
        /\ Tables \subseteq Objects
  BY Kinds
<1>1. CASE o \in Tables
  <2>1. field[o] \in Values /\ meta[o] \in Tables \cup {Nil}
    BY <1>1 DEF TypeOK
  <2>2. Strong(o) = {meta[o]} \cup (IF IsWeak(o) THEN {} ELSE {field[o]}) \cup ({field[o]} \cap Strings)
    BY <1>1, StrongIs
  <2> QED
    BY <1>0, <2>1, <2>2
<1>2. CASE o \in Closures
  <2>1. cap[o] \in Objects \cup {Nil} /\ Strong(o) = {Globals, cap[o]}
    BY <1>2, StrongIs DEF TypeOK
  <2> QED
    BY <1>0, <2>1
<1>3. CASE o \in Threads
  <2>1. Strong(o) = {Globals} \cup Stack(o) \cup OpenOf(o)
    BY <1>3, StrongIs
  <2>2. Stack(o) \subseteq Values
    BY <1>3, StackOk
  <2>3. OpenOf(o) \subseteq UpVals
    BY DEF OpenOf
  <2> QED
    BY <1>0, <2>1, <2>2, <2>3
<1>4. CASE o \in UpVals
  <2>1. Strong(o) = {Val(o)}
    BY <1>4, StrongIs
  <2>2. Val(o) \in Values
    BY <1>4 DEF TypeOK, Val
  <2> QED
    BY <1>0, <2>1, <2>2
<1>5. CASE o \in Strings
  BY <1>5, StrongIs
<1> QED
  BY <1>1, <1>2, <1>3, <1>4, <1>5 DEF Objects

\* Reachable holds the roots and what its members keep alive, and is the least.
LEMMA ReachClosed ==
    TypeOK => /\ Roots \subseteq Reachable /\ Reachable \subseteq Objects
              /\ \A o \in Reachable : Strong(o) \subseteq Reachable \cup {Nil}
<1> SUFFICES ASSUME TypeOK
             PROVE  /\ Roots \subseteq Reachable /\ Reachable \subseteq Objects
                    /\ \A o \in Reachable : Strong(o) \subseteq Reachable \cup {Nil}
  OBVIOUS
<1> DEFINE closed == {S \in SUBSET Objects :
                         Roots \subseteq S /\ \A o \in S : Strong(o) \subseteq S \cup {Nil}}
<1>1. Reachable = {o \in Objects : \A S \in closed : o \in S}
  BY Zenon DEF Reachable
<1>2. Roots \subseteq Objects
  BY Kinds DEF TypeOK, Roots
<1>3. ASSUME NEW o \in Reachable, NEW v \in Strong(o), v # Nil PROVE v \in Reachable
  <2>1. o \in Objects /\ \A S \in closed : o \in S
    BY <1>1, <1>3
  <2>2. v \in Objects
    BY <1>3, <2>1, StrongObjects
  <2>3. ASSUME NEW S \in closed PROVE v \in S
    BY <1>3, <2>1, <2>3
  <2> HIDE DEF closed
  <2> QED
    BY <1>1, <2>2, <2>3
<1>4. \A S \in closed : Roots \subseteq S
  OBVIOUS
<1> HIDE DEF closed
<1> QED
  BY <1>1, <1>2, <1>3, <1>4

\* What holds the roots and what its members keep alive holds all that is reachable.
LEMMA ReachLeast ==
    ASSUME NEW S \in SUBSET Objects, Roots \subseteq S, \A o \in S : Strong(o) \subseteq S \cup {Nil}
    PROVE  Reachable \subseteq S
<1> DEFINE closed == {T \in SUBSET Objects :
                         Roots \subseteq T /\ \A o \in T : Strong(o) \subseteq T \cup {Nil}}
<1>1. Reachable = {o \in Objects : \A T \in closed : o \in T}
  BY Zenon DEF Reachable
<1>2. S \in closed
  OBVIOUS
<1> HIDE DEF closed
<1> QED
  BY <1>1, <1>2

\* What is kept alive is not dead.
LEMMA StrongLive == IInv => Roots \subseteq Live /\ \A o \in Live : Strong(o) \subseteq Live \cup {Nil}
<1> SUFFICES ASSUME IInv
             PROVE  Roots \subseteq Live /\ \A o \in Live : Strong(o) \subseteq Live \cup {Nil}
  OBVIOUS
<1>1. LiveClosed /\ TypeOK
  BY RefsLive DEF IInv, Heap
<1>2. Roots \subseteq Live /\ Globals \in Live
  BY <1>1, Kinds DEF LiveClosed, Roots, TypeOK
<1>3. ASSUME NEW o \in Live PROVE Strong(o) \subseteq Live \cup {Nil}
  <2>1. o \in Objects
    BY <1>1 DEF Live, TypeOK
  <2>2. CASE o \in Tables
    <3>1. field[o] \in Live \cup {Nil} /\ meta[o] \in Live \cup {Nil}
      BY <2>2 DEF IInv, Heap, References, Ok
    <3>2. Strong(o) = {meta[o]} \cup (IF IsWeak(o) THEN {} ELSE {field[o]}) \cup ({field[o]} \cap Strings)
      BY <2>2, StrongIs
    <3> QED
      BY <3>1, <3>2
  <2>3. CASE o \in Closures
    <3>1. cap[o] \in Live \cup {Nil} /\ Strong(o) = {Globals, cap[o]}
      BY <2>3, StrongIs DEF IInv, Heap, References, Ok
    <3> QED
      BY <1>2, <3>1
  <2>4. CASE o \in Threads
    <3>1. Strong(o) = {Globals} \cup Stack(o) \cup OpenOf(o)
      BY <2>4, StrongIs
    <3>2. \A i \in 1..Slots : stack[o][i] \in Live \cup {Nil}
      BY <2>4 DEF IInv, Heap, References, Ok
    <3>3. Stack(o) \subseteq Live \cup {Nil}
      BY <1>1, <2>4, <3>2, StackOk
    <3>4. OpenOf(o) \subseteq Live
      BY <1>1, <2>4, StackOk DEF IInv, Heap, References
    <3> QED
      BY <1>2, <3>1, <3>3, <3>4
  <2>5. CASE o \in UpVals
    <3>1. Val(o) \in Live \cup {Nil}
      BY <2>5, ValOk DEF Ok
    <3> QED
      BY <2>5, <3>1, StrongIs
  <2>6. CASE o \in Strings
    BY <2>6, StrongIs
  <2> QED
    BY <2>1, <2>2, <2>3, <2>4, <2>5, <2>6 DEF Objects
<1> QED
  BY <1>2, <1>3

\* Nothing that is reachable is dead.
LEMMA ReachLive == ASSUME IInv PROVE Reachable \subseteq Live
<1>1. Live \in SUBSET Objects
  BY DEF IInv, Heap, TypeOK, Live
<1> QED
  BY <1>1, StrongLive, ReachLeast

\* ReachClosed in the next state.
LEMMA ReachClosedNext ==
    (TypeOK => /\ Roots \subseteq Reachable /\ Reachable \subseteq Objects
               /\ \A o \in Reachable : Strong(o) \subseteq Reachable \cup {Nil})'
BY ReachClosed, PTL

\* The same of StrongLive.
LEMMA StrongLiveNext ==
    (IInv => Roots \subseteq Live /\ \A o \in Live : Strong(o) \subseteq Live \cup {Nil})'
BY StrongLive, PTL

\* The same of StrongIs.
LEMMA StrongIsNext ==
    (/\ \A t \in Tables : Strong(t) = {meta[t]} \cup (IF IsWeak(t) THEN {} ELSE {field[t]})
                                                \cup ({field[t]} \cap Strings)
     /\ \A f \in Closures : Strong(f) = {Globals, cap[f]}
     /\ \A th \in Threads : Strong(th) = {Globals} \cup Stack(th) \cup OpenOf(th)
     /\ \A u \in UpVals : Strong(u) = {Val(u)}
     /\ \A s \in Strings : Strong(s) = {})'
BY StrongIs, PTL

\* A step after which nothing that is not dead keeps less alive makes nothing
\* unreachable.
LEMMA ReachGrows ==
    ASSUME IInv, IInv', Roots' = Roots, Live' \subseteq Objects,
           \A o \in Live' : Strong(o) \subseteq Strong(o)' \cup {Nil}
    PROVE  Reachable \subseteq Reachable'
<1> DEFINE S == Reachable' \cap Live'
<1>1. Roots' \subseteq Reachable' /\ Reachable' \subseteq Objects
      /\ \A o \in Reachable' : Strong(o)' \subseteq Reachable' \cup {Nil}
  BY ReachClosedNext DEF IInv, Heap
<1>2. Roots' \subseteq Live' /\ \A o \in Live' : Strong(o)' \subseteq Live' \cup {Nil}
  BY StrongLiveNext
<1>3. S \in SUBSET Objects /\ Roots \subseteq S
  BY <1>1, <1>2
<1>4. ASSUME NEW o \in S PROVE Strong(o) \subseteq S \cup {Nil}
  <2>1. Strong(o) \subseteq Strong(o)' \cup {Nil}
    BY <1>4
  <2>2. Strong(o)' \subseteq Reachable' \cup {Nil} /\ Strong(o)' \subseteq Live' \cup {Nil}
    BY <1>1, <1>2, <1>4
  <2> QED
    BY <2>1, <2>2
<1> HIDE DEF S
<1>5. Reachable \subseteq S
  BY <1>3, <1>4, ReachLeast
<1> QED
  BY <1>5 DEF S

\* Marking what is reachable marks only what is reachable.
LEMMA ReachedReach ==
    ASSUME TypeOK, NEW vs \in SUBSET (Reachable \cup {Nil})
    PROVE  /\ Reached(vs) \subseteq Reachable
           /\ \A x \in Objects : Paint(Reached(vs))[x] \notin {"white", "dead"} => ~iswhite(x) \/ x \in Reachable
<1>1. ASSUME NEW u \in vs \cap UpVals, u # Nil, Val(u) # Nil PROVE Val(u) \in Reachable
  <2>1. u \in Reachable /\ Strong(u) = {Val(u)}
    BY <1>1, StrongIs
  <2> QED
    BY <1>1, <2>1, ReachClosed
<1>2. Reached(vs) \subseteq Reachable
  BY <1>1 DEF Reached, IsWhite
<1>3. ASSUME NEW x \in Objects, x \notin Reached(vs) PROVE Paint(Reached(vs))[x] = mark[x]
  BY <1>3 DEF Paint
<1> QED
  BY <1>2, <1>3 DEF iswhite

\* A marking step changes nothing that keeps an object alive: the slots it clears
\* are above top, where no open upvalue refers to.
LEMMA MarkingReach ==
    ASSUME IInv, IInv', InFrame, UNCHANGED <<field, meta, cap, mt, running, top, uth, uslot, uval>>,
           \A th \in Threads : \A j \in 1..Slots : j <= top[th] => stack'[th][j] = stack[th][j]
    PROVE  Reachable \subseteq Reachable'
<1>0. /\ top \in [Threads -> 0..Slots] /\ uth \in [UpVals -> Threads \cup {Nil}]
      /\ uslot \in [UpVals -> 1..Slots] /\ Slots \in Nat /\ Nil \notin Threads
  BY Kinds DEF IInv, Heap, TypeOK
<1>1. Live' \subseteq Objects
  BY DEF IInv, Heap, TypeOK, Live
<1>2. Roots' = Roots
  BY DEF Roots
<1>3. ASSUME NEW o \in Objects PROVE Strong(o)' = Strong(o)
  <2>1. CASE o \in Tables
    <3>1. IsWeak(o)' = IsWeak(o)
      BY DEF IsWeak
    <3> QED
      BY <2>1, <3>1, StrongIs, StrongIsNext
  <2>2. CASE o \in Closures
    <3>1. Strong(o) = {Globals, cap[o]}
      BY <2>2, StrongIs
    <3>2. Strong(o)' = {Globals, cap'[o]}
      BY <2>2, StrongIsNext
    <3> QED
      BY <3>1, <3>2
  <2>3. CASE o \in Threads
    <3>1. Strong(o) = {Globals} \cup Stack(o) \cup OpenOf(o)
      BY <2>3, StrongIs
    <3>2. Strong(o)' = {Globals} \cup Stack(o)' \cup OpenOf(o)'
      BY <2>3, StrongIsNext
    <3>3. Stack(o)' = Stack(o)
      <4>1. \A i \in 1..top[o] : i \in 1..Slots /\ i <= top[o]
        BY <1>0, <2>3
      <4>2. \A i \in 1..top[o] : stack'[o][i] = stack[o][i]
        BY <2>3, <4>1
      <4> QED
        BY <4>2 DEF Stack
    <3>4. OpenOf(o)' = OpenOf(o)
      BY DEF OpenOf
    <3> QED
      BY <3>1, <3>2, <3>3, <3>4
  <2>4. CASE o \in UpVals
    <3>1. Strong(o) = {Val(o)} /\ Strong(o)' = {Val(o)'}
      BY <2>4, StrongIs, StrongIsNext
    <3>2. CASE uth[o] = Nil
      BY <3>1, <3>2 DEF Val
    <3>3. CASE uth[o] # Nil
      <4>1. uth[o] \in Threads /\ uslot[o] \in 1..Slots /\ uslot[o] <= top[uth[o]]
        BY <1>0, <2>4, <3>3 DEF InFrame, Open
      <4>2. stack'[uth[o]][uslot[o]] = stack[uth[o]][uslot[o]]
        BY <4>1
      <4> QED
        BY <3>1, <3>3, <4>2 DEF Val
    <3> QED
      BY <3>2, <3>3
  <2>5. CASE o \in Strings
    <3>1. Strong(o) = {}
      BY <2>5, StrongIs
    <3>2. Strong(o)' = {}
      BY <2>5, StrongIsNext
    <3> QED
      BY <3>1, <3>2
  <2> QED
    BY <2>1, <2>2, <2>3, <2>4, <2>5 DEF Objects
<1>4. \A o \in Live' : Strong(o) \subseteq Strong(o)' \cup {Nil}
  BY <1>1, <1>3
<1> QED
  BY <1>1, <1>2, <1>4, ReachGrows

\* The cycle begins with the roots.
LEMMA MarkRootReach == ASSUME IInv, IInv', InFrame, MarkRoot PROVE OnlyReachable'
<1> SUFFICES ASSUME full' = "cycle" PROVE OnlyReachable'
  BY DEF OnlyReachable
<1> DEFINE vs == {Main, Globals, mt}
<1>1. /\ phase = "pause" /\ phase' = "propagate" /\ mark' = Paint(Reached(vs))
      /\ gray' = Reached(vs) \cap Listed /\ weak' = {}
  BY DEF MarkRoot
<1>2. UNCHANGED <<field, meta, cap, mt, running, top, stack, uth, uslot, uval>>
  BY DEF MarkRoot, objs, heap, cors, stks
<1>3. Reachable \subseteq Reachable'
  BY <1>2, MarkingReach
<1>4. TypeOK /\ \A x \in Objects : mark[x] = "white"
  BY <1>1 DEF IInv, Heap, Colours, Swept
<1>5. vs \in SUBSET (Reachable \cup {Nil})
  BY <1>4, ReachClosed DEF Roots
<1> HIDE DEF vs
<1>6. ASSUME NEW o \in Objects, ~iswhite(o)' PROVE o \in Reachable' /\ o \in Reached(vs)
  <2>1. Paint(Reached(vs))[o] \notin {"white", "dead"}
    BY <1>1, <1>6 DEF iswhite
  <2>2. o \in Reachable
    BY <1>4, <1>5, <2>1, ReachedReach DEF iswhite
  <2>3. o \in Reached(vs)
    BY <1>4, <2>1 DEF Paint
  <2> QED
    BY <1>3, <2>2, <2>3
<1>7. \A th \in Threads \ gray' : ~iswhite(th)' => FALSE
  BY <1>1, <1>6 DEF Listed, Objects
<1> QED
  BY <1>1, <1>6, <1>7 DEF OnlyReachable

\* Everything marked from what is marked is reachable.
LEMMA PropagateReach == ASSUME IInv, IInv', InFrame, OnlyReachable, Propagate PROVE OnlyReachable'
<1>1. PICK o \in gray :
        LET es    == Reached(Children(o))
            left  == (gray \ {o}) \cup (es \cap Listed)
            stays == o \in active \/ (o \in Tables /\ IsWeak(o))
            later == IF o \in active THEN grayagain \cup {o} ELSE grayagain
        IN  /\ keepinvariant /\ phase # "atomic"
            /\ mark' = [Paint(es) EXCEPT ![o] = IF stays THEN "gray" ELSE "black"]
            /\ weak' = IF stays /\ o \in Tables THEN weak \cup {o} ELSE weak
            /\ markedopen' = IF o \in Threads THEN markedopen \cup OpenOf(o) ELSE markedopen
            /\ stack' = IF o \in Threads /\ (o \notin active \/ phase \in Stages)
                        THEN ClearStack(o) ELSE stack
            /\ IF left = {} /\ phase = "propagate"
               THEN gray' = later /\ grayagain' = {} /\ phase' = "propagateagain"
               ELSE /\ gray' = left /\ grayagain' = later
                    /\ phase' = IF left = {} /\ phase = "propagateagain" THEN "atomic" ELSE phase
            /\ UNCHANGED <<objs, top, uth, uslot, uval, unswept, full>>
  BY DEF Propagate
<1> DEFINE vs == Children(o)
           left == (gray \ {o}) \cup (Reached(vs) \cap Listed)
<1>2. /\ keepinvariant /\ phase # "sweep" /\ phase' # "sweep"
      /\ weak' \subseteq weak \cup {o} /\ (o \in weak' => o \in weak \/ IsWeak(o))
      /\ markedopen \subseteq markedopen' /\ (o \in Threads => OpenOf(o) \subseteq markedopen')
      /\ left \subseteq gray'
      /\ stack' = stack \/ (o \in Threads /\ stack' = ClearStack(o))
      /\ UNCHANGED <<field, meta, cap, mt, running, top, uth, uslot, uval, full>>
  <2>1. keepinvariant /\ phase # "sweep" /\ phase' # "sweep"
    BY <1>1 DEF keepinvariant
  <2>2. weak' \subseteq weak \cup {o} /\ (o \in weak' => o \in weak \/ IsWeak(o))
    <3>1. \/ weak' = weak
          \/ weak' = weak \cup {o} /\ (o \in active \/ (o \in Tables /\ IsWeak(o))) /\ o \in Tables
      BY <1>1
    <3>2. active \cap Tables = {}
      BY Kinds DEF IInv, Heap, TypeOK
    <3> QED
      BY <3>1, <3>2
  <2>3. markedopen \subseteq markedopen' /\ (o \in Threads => OpenOf(o) \subseteq markedopen')
    BY <1>1
  <2>4. left \subseteq gray'
    BY <1>1
  <2>5. stack' = stack \/ (o \in Threads /\ stack' = ClearStack(o))
    BY <1>1
  <2>6. UNCHANGED <<field, meta, cap, mt, running, top, uth, uslot, uval, full>>
    BY <1>1 DEF objs, heap, cors
  <2> QED
    BY <2>1, <2>2, <2>3, <2>4, <2>5, <2>6
<1> SUFFICES ASSUME full = "cycle" PROVE OnlyReachable'
  BY <1>2 DEF OnlyReachable
<1>3. TypeOK /\ o \in Objects /\ o \in Listed /\ ~iswhite(o) /\ o \in Live
  <2>1. o \in alive /\ mark[o] = "gray" /\ o \in Listed
    BY <1>2 DEF IInv, Colours, GrayListed
  <2> QED
    BY <2>1, Kinds DEF IInv, Heap, Live, isdead, iswhite
<1>4. /\ \A x \in Objects : ~iswhite(x) => x \in Reachable
      /\ \A t \in weak : IsWeak(t)
      /\ \A th \in Threads \ gray : ~iswhite(th) => OpenOf(th) \subseteq markedopen
  BY <1>2 DEF OnlyReachable
<1>5. \A th \in Threads : \A j \in 1..Slots : j <= top[th] => stack'[th][j] = stack[th][j]
  <2>1. CASE stack' = stack
    BY <2>1
  <2>2. CASE o \in Threads /\ stack' = ClearStack(o)
    BY <1>3, <2>2, ClearStackOk
  <2> QED
    BY <1>2, <2>1, <2>2
<1>6. Reachable \subseteq Reachable'
  BY <1>2, <1>5, MarkingReach
<1>7. vs \in SUBSET (Reachable \cup {Nil})
  <2>1. vs \subseteq Strong(o)
    BY <1>3, Kinds DEF Strong
  <2> QED
    BY <1>3, <1>4, <2>1, ReachClosed
<1>8. mark' = [Paint(Reached(vs)) EXCEPT ![o] = mark'[o]]
  BY <1>1, <1>3 DEF Paint
<1> HIDE DEF vs
<1>9. \A x \in Objects : x # o => mark'[x] = Paint(Reached(vs))[x]
  BY <1>8 DEF Paint
<1>10. ASSUME NEW x \in Objects, ~iswhite(x)' PROVE x \in Reachable'
  <2>1. CASE x = o
    BY <1>3, <1>4, <1>6, <2>1
  <2>2. CASE x # o
    <3>1. Paint(Reached(vs))[x] \notin {"white", "dead"}
      BY <1>9, <1>10, <2>2 DEF iswhite
    <3> QED
      BY <1>3, <1>4, <1>6, <1>7, <3>1, ReachedReach
  <2> QED
    BY <2>1, <2>2
<1>11. \A t \in weak' : IsWeak(t)'
  BY <1>2, <1>4 DEF IsWeak
<1>12. ASSUME NEW th \in Threads \ gray', ~iswhite(th)' PROVE OpenOf(th)' \subseteq markedopen'
  <2>0. OpenOf(th)' = OpenOf(th)
    BY <1>2 DEF OpenOf
  <2>1. CASE th = o
    BY <1>2, <2>0, <2>1
  <2>2. CASE th # o
    <3>1. th \in Objects /\ th \in Listed
      BY Kinds
    <3>2. th \notin Reached(vs) /\ th \notin gray
      BY <1>2, <1>12, <2>2, <3>1
    <3>3. mark'[th] = mark[th]
      BY <1>9, <2>2, <3>1, <3>2 DEF Paint
    <3> QED
      BY <1>2, <1>4, <1>12, <2>0, <3>2, <3>3 DEF iswhite
  <2> QED
    BY <2>1, <2>2
<1> QED
  BY <1>2, <1>10, <1>11, <1>12 DEF OnlyReachable

\* The steps of atomic() mark the values of upvalues that are marked, and roots.
LEMMA RemarkReach ==
    ASSUME IInv, IInv', InFrame, OnlyReachable, RemarkUpvals \/ RemarkWeak \/ RemarkAgain
    PROVE  OnlyReachable'
<1>1. /\ UNCHANGED <<field, meta, cap, mt, running, top, stack, uth, uslot, uval, markedopen, full>>
      /\ weak' \subseteq weak /\ keepinvariant /\ phase' # "sweep"
  <2>1. CASE RemarkUpvals
    BY <2>1 DEF RemarkUpvals, objs, heap, cors, stks, upvs, keepinvariant
  <2>2. CASE RemarkWeak
    BY <2>2 DEF RemarkWeak, objs, heap, cors, stks, upvs, keepinvariant
  <2>3. CASE RemarkAgain
    BY <2>3 DEF RemarkAgain, objs, heap, cors, stks, upvs, keepinvariant
  <2> QED
    BY <2>1, <2>2, <2>3
<1> SUFFICES ASSUME full = "cycle" PROVE OnlyReachable'
  BY <1>1 DEF OnlyReachable
<1>2. /\ \A x \in Objects : ~iswhite(x) => x \in Reachable
      /\ \A t \in weak : IsWeak(t)
      /\ \A th \in Threads \ gray : ~iswhite(th) => OpenOf(th) \subseteq markedopen
  BY <1>1 DEF OnlyReachable
<1>3. Reachable \subseteq Reachable'
  BY <1>1, MarkingReach
<1>4. TypeOK /\ gray \subseteq Listed
  BY DEF IInv, Heap, TypeOK
<1>5. \A t \in weak' : IsWeak(t)'
  BY <1>1, <1>2 DEF IsWeak
\* vs is marked and what turns gray is listed.
<1>6. ASSUME NEW vs \in SUBSET (Reachable \cup {Nil}), mark' = Paint(Reached(vs)),
             gray \cup (Reached(vs) \cap Listed) \subseteq gray'
      PROVE  OnlyReachable'
  <2>1. ASSUME NEW x \in Objects, ~iswhite(x)' PROVE x \in Reachable'
    <3>1. Paint(Reached(vs))[x] \notin {"white", "dead"}
      BY <1>6, <2>1 DEF iswhite
    <3> QED
      BY <1>2, <1>3, <1>4, <1>6, <3>1, ReachedReach
  <2>2. ASSUME NEW th \in Threads \ gray', ~iswhite(th)' PROVE OpenOf(th)' \subseteq markedopen'
    <3>1. th \in Objects /\ th \in Listed
      BY Kinds
    <3>2. mark'[th] = mark[th] /\ th \notin gray
      BY <1>6, <2>2, <3>1 DEF Paint
    <3>3. OpenOf(th)' = OpenOf(th)
      BY <1>1 DEF OpenOf
    <3> QED
      BY <1>1, <1>2, <2>2, <3>2, <3>3 DEF iswhite
  <2> QED
    BY <1>1, <1>5, <2>1, <2>2 DEF OnlyReachable
<1>7. CASE RemarkUpvals
  <2> DEFINE vs == {Val(u) : u \in {w \in Open : mark[w] = "gray"}}
  <2>1. mark' = Paint(Reached(vs)) /\ gray' = gray \cup (Reached(vs) \cap Listed)
    BY <1>7 DEF RemarkUpvals, Mark
  <2>2. ASSUME NEW u \in Open, mark[u] = "gray" PROVE Val(u) \in Reachable \cup {Nil}
    <3>1. u \in UpVals /\ u \in Objects /\ ~iswhite(u)
      BY <2>2, Kinds DEF Open, iswhite
    <3>2. u \in Reachable /\ Strong(u) = {Val(u)}
      BY <1>2, <3>1, StrongIs
    <3> QED
      BY <1>4, <3>2, ReachClosed
  <2>3. vs \in SUBSET (Reachable \cup {Nil})
    BY <2>2
  <2> HIDE DEF vs
  <2> QED
    BY <1>6, <2>1, <2>3
<1>8. CASE RemarkWeak
  <2> DEFINE vs == {running, mt}
  <2>1. mark' = Paint(Reached(vs)) /\ gray = {} /\ gray' = weak \cup (Reached(vs) \cap Listed)
    BY <1>8 DEF RemarkWeak
  <2>2. vs \in SUBSET (Reachable \cup {Nil})
    BY <1>4, ReachClosed DEF Roots
  <2> HIDE DEF vs
  <2> QED
    BY <1>6, <2>1, <2>2
<1>9. CASE RemarkAgain
  <2>1. mark' = mark /\ gray = {}
    BY <1>9 DEF RemarkAgain
  <2>2. \A x \in Objects : ~iswhite(x)' => x \in Reachable'
    BY <1>2, <1>3, <2>1 DEF iswhite
  <2>3. \A th \in Threads \ gray' : ~iswhite(th)' => OpenOf(th)' \subseteq markedopen'
    BY <1>1, <1>2, <2>1 DEF iswhite, OpenOf
  <2> QED
    BY <1>1, <1>5, <2>2, <2>3 DEF OnlyReachable
<1> QED
  BY <1>7, <1>8, <1>9

\* What atomic() leaves alive is marked, or the string of a marked weak table,
\* and closing the upvalues of lost threads loses nothing.
LEMMA FinishReach == ASSUME IInv, IInv', OnlyReachable, Finish PROVE OnlyReachable'
<1> DEFINE strings == {field[t] : t \in weak} \cap Strings
           gone == {t \in weak : IsWhite(field[t]) /\ field[t] \notin Strings}
           left == Open \ markedopen
           live == {u \in left : ~iswhite(u)}
<1>1. /\ phase = "again" /\ gray = {}
      /\ field' = [t \in Tables |-> IF t \in gone THEN Nil ELSE field[t]]
      /\ mark' = [o \in Objects |-> CASE o \in live -> "black"
                                      [] o \in strings -> "gray"
                                      [] o \in alive \ strings /\ iswhite(o) -> "dead"
                                      [] OTHER -> mark[o]]
      /\ uval' = [u \in UpVals |-> IF u \in live THEN Val(u) ELSE uval[u]]
      /\ uth' = [u \in UpVals |-> IF u \in left THEN Nil ELSE uth[u]]
      /\ uslot' = [u \in UpVals |-> IF u \in left THEN 1 ELSE uslot[u]]
      /\ phase' = "sweep"
  BY DEF Finish
<1>2. UNCHANGED <<alive, meta, cap, mt, running, stack, top, full>> /\ keepinvariant
  BY DEF Finish, stks, cors, keepinvariant
<1> SUFFICES ASSUME full = "cycle" PROVE Live' \subseteq Reachable'
  BY <1>1, <1>2 DEF OnlyReachable, keepinvariant
<1>3. /\ \A x \in Objects : ~iswhite(x) => x \in Reachable
      /\ \A t \in weak : IsWeak(t)
      /\ \A th \in Threads : ~iswhite(th) => OpenOf(th) \subseteq markedopen
  BY <1>1, <1>2 DEF OnlyReachable
<1>4. /\ TypeOK /\ alive \subseteq Objects /\ weak \subseteq Tables /\ field \in [Tables -> Values]
      /\ \A x \in Objects : mark[x] # "dead" /\ (iswhite(x) <=> mark[x] = "white")
  BY <1>1, NoneDead DEF IInv, Heap, TypeOK
<1>5. \A u \in UpVals : u \notin Strings /\ u \in Objects
  BY Kinds
<1>6. live \subseteq UpVals /\ strings \subseteq Strings /\ left \subseteq Open /\ live \subseteq left
  BY DEF Open
<1>7. \A t \in gone : IsWeak(t) /\ field[t] \notin Strings
  BY <1>3
<1>8. \A t \in weak : field[t] \in Strings => field[t] \in strings
  OBVIOUS
<1>9. \A s \in strings : \E t \in weak : s = field[t]
  OBVIOUS
<1>10. /\ \A u \in live : ~iswhite(u)
       /\ \A u \in left : u \notin live => iswhite(u)
       /\ \A u \in Open : u \notin left => u \in markedopen
       /\ \A u \in left : u \in Open /\ u \notin markedopen
  OBVIOUS
<1> HIDE DEF strings, gone, left, live
<1>11. \A x \in Live' : x \in Objects /\ (x \in strings \/ ~iswhite(x))
  <2> SUFFICES ASSUME NEW x \in Live', x \notin strings, iswhite(x) PROVE FALSE
    BY <1>2, <1>4 DEF Live
  <2>1. x \in alive /\ x \in Objects /\ x \notin live
    BY <1>2, <1>4, <1>10 DEF Live
  <2>2. mark'[x] = "dead"
    BY <1>1, <2>1
  <2> QED
    BY <2>2 DEF Live, isdead
<1>12. ASSUME NEW o \in Live' PROVE Strong(o) \subseteq Strong(o)' \cup {Nil}
  <2>1. CASE o \in Tables
    <3>1. Strong(o) = {meta[o]} \cup (IF IsWeak(o) THEN {} ELSE {field[o]}) \cup ({field[o]} \cap Strings)
      BY <2>1, StrongIs
    <3>2. Strong(o)' = {meta'[o]} \cup (IF IsWeak(o)' THEN {} ELSE {field'[o]}) \cup ({field'[o]} \cap Strings)
      BY <2>1, StrongIsNext
    <3>3. IsWeak(o)' = IsWeak(o) /\ meta'[o] = meta[o]
      BY <1>2 DEF IsWeak
    <3>4. CASE o \in gone
      BY <1>7, <3>1, <3>2, <3>3, <3>4
    <3>5. CASE o \notin gone
      <4>1. field'[o] = field[o]
        BY <1>1, <2>1, <3>5
      <4> QED
        BY <3>1, <3>2, <3>3, <4>1
    <3> QED
      BY <3>4, <3>5
  <2>2. CASE o \in Closures
    <3>1. Strong(o) = {Globals, cap[o]}
      BY <2>2, StrongIs
    <3>2. Strong(o)' = {Globals, cap'[o]}
      BY <2>2, StrongIsNext
    <3> QED
      BY <1>2, <3>1, <3>2
  <2>3. CASE o \in Threads
    <3>1. Strong(o) = {Globals} \cup Stack(o) \cup OpenOf(o)
      BY <2>3, StrongIs
    <3>2. Strong(o)' = {Globals} \cup Stack(o)' \cup OpenOf(o)'
      BY <2>3, StrongIsNext
    <3>3. Stack(o)' = Stack(o)
      BY <1>2 DEF Stack
    <3>4. o \notin strings /\ o # Nil
      BY <1>6, <2>3, Kinds
    <3>5. OpenOf(o) \subseteq markedopen
      BY <1>3, <1>11, <2>3, <3>4
    <3>6. ASSUME NEW u \in OpenOf(o) PROVE u \in OpenOf(o)'
      <4>1. u \in UpVals /\ uth[u] = o /\ u \notin left
        BY <1>10, <3>5 DEF OpenOf
      <4> QED
        BY <1>1, <4>1 DEF OpenOf
    <3> QED
      BY <3>1, <3>2, <3>3, <3>6
  <2>4. CASE o \in UpVals
    <3>1. Strong(o) = {Val(o)} /\ Strong(o)' = {Val(o)'}
      BY <2>4, StrongIs, StrongIsNext
    <3>2. ~iswhite(o)
      BY <1>5, <1>6, <1>11, <2>4
    <3>3. CASE o \in left
      <4>1. o \in live
        BY <1>10, <3>2, <3>3
      <4>2. uth'[o] = Nil /\ uval'[o] = Val(o)
        BY <1>1, <2>4, <3>3, <4>1
      <4> QED
        BY <3>1, <4>2 DEF Val
    <3>4. CASE o \notin left
      <4>1. o \notin live
        BY <1>6, <3>4
      <4>2. uth'[o] = uth[o] /\ uval'[o] = uval[o] /\ uslot'[o] = uslot[o]
        BY <1>1, <2>4, <3>4, <4>1
      <4> QED
        BY <1>2, <3>1, <4>2 DEF Val
    <3> QED
      BY <3>3, <3>4
  <2>5. CASE o \in Strings
    <3>1. Strong(o) = {}
      BY <2>5, StrongIs
    <3> QED
      BY <3>1
  <2> QED
    BY <1>11, <2>1, <2>2, <2>3, <2>4, <2>5 DEF Objects
<1>13. Roots' = Roots
  BY <1>2 DEF Roots
<1>14. Live' \subseteq Objects
  BY <1>11
<1>15. Reachable \subseteq Reachable'
  BY <1>12, <1>13, <1>14, ReachGrows
<1>16. ASSUME NEW s \in strings PROVE s \in Reachable
  <2>1. PICK t \in weak : s = field[t]
    BY <1>9
  <2>2. t \in Tables /\ t \in Objects /\ s \in Strings /\ s # Nil
    BY <1>4, <1>6, Kinds
  <2>3. mark[t] = "gray"
    BY <1>2 DEF IInv, Colours, GrayListed
  <2>4. t \in Reachable
    BY <1>3, <2>2, <2>3 DEF iswhite
  <2>5. s \in Strong(t)
    BY <2>1, <2>2, StrongIs
  <2> QED
    BY <1>4, <2>2, <2>4, <2>5, ReachClosed
<1> QED
  BY <1>3, <1>11, <1>15, <1>16

\* The sweep frees what is not reachable.
LEMMA SweepReach ==
    ASSUME IInv, IInv', OnlyReachable, Sweep, full = "cycle"
    PROVE  Live' \subseteq Reachable'
<1>1. PICK o \in unswept :
          /\ mark' = [x \in Objects |-> IF x = o \/ (unswept = {o} /\ x = Main) THEN "white" ELSE mark[x]]
          /\ IF isdead(o)
             THEN /\ alive' = alive \ {o}
                  /\ field' = Cleared(field, o, Nil) /\ meta' = Cleared(meta, o, Nil)
                  /\ cap' = Cleared(cap, o, Nil)
                  /\ stack' = Cleared(stack, o, [i \in 1..Slots |-> Nil])
                  /\ top' = Cleared(top, o, 0)
                  /\ uval' = Cleared(uval, o, Nil)
             ELSE UNCHANGED <<alive, field, meta, cap, stks, uval>>
  BY DEF Sweep
<1>2. UNCHANGED <<mt, uth, uslot, running>> /\ phase = "sweep"
  BY DEF Sweep, cors
<1>3. Live \subseteq Reachable
  BY <1>2 DEF OnlyReachable
<1>4. /\ unswept \subseteq alive \ {Main} /\ alive \subseteq Objects /\ Main \in Live /\ o \in Objects
      /\ TypeOK
  BY DEF IInv, Heap, TypeOK, References, Colours, Swept
<1>5. Live' = Live
  <2>1. \A x \in Objects : x # o => (mark'[x] = "dead" <=> mark[x] = "dead")
    BY <1>1, <1>4 DEF Live, isdead
  <2>2. mark'[o] = "white"
    BY <1>1, <1>4
  <2>3. CASE isdead(o)
    BY <1>1, <1>4, <2>1, <2>2, <2>3 DEF Live, isdead
  <2>4. CASE ~isdead(o)
    BY <1>1, <1>4, <2>1, <2>2, <2>4 DEF Live, isdead
  <2> QED
    BY <2>3, <2>4
<1>6. ASSUME NEW x \in Live
      PROVE  /\ x \in Tables => field'[x] = field[x] /\ meta'[x] = meta[x]
             /\ x \in Closures => cap'[x] = cap[x]
             /\ x \in Threads => stack'[x] = stack[x] /\ top'[x] = top[x]
             /\ x \in UpVals => uval'[x] = uval[x]
  <2>1. CASE isdead(o)
    <3>1. x # o
      BY <2>1 DEF Live
    <3>2. /\ DOMAIN field = Tables /\ DOMAIN meta = Tables /\ DOMAIN cap = Closures
          /\ DOMAIN stack = Threads /\ DOMAIN top = Threads /\ DOMAIN uval = UpVals
      BY <1>4 DEF TypeOK
    <3> QED
      BY <1>1, <2>1, <3>1, <3>2 DEF Cleared
  <2>2. CASE ~isdead(o)
    BY <1>1, <2>2 DEF stks
  <2> QED
    BY <2>1, <2>2
<1>7. ASSUME NEW x \in Live PROVE Strong(x)' = Strong(x)
  <2>0. x \in Objects
    BY <1>4 DEF Live
  <2>1. CASE x \in Tables
    <3>1. Strong(x) = {meta[x]} \cup (IF IsWeak(x) THEN {} ELSE {field[x]}) \cup ({field[x]} \cap Strings)
      BY <2>1, StrongIs
    <3>2. Strong(x)' = {meta'[x]} \cup (IF IsWeak(x)' THEN {} ELSE {field'[x]}) \cup ({field'[x]} \cap Strings)
      BY <2>1, StrongIsNext
    <3>3. IsWeak(x)' = IsWeak(x) /\ meta'[x] = meta[x] /\ field'[x] = field[x]
      BY <1>6, <2>1 DEF IsWeak
    <3> QED
      BY <3>1, <3>2, <3>3
  <2>2. CASE x \in Closures
    <3>1. Strong(x) = {Globals, cap[x]}
      BY <2>2, StrongIs
    <3>2. Strong(x)' = {Globals, cap'[x]}
      BY <2>2, StrongIsNext
    <3> QED
      BY <1>6, <2>2, <3>1, <3>2
  <2>3. CASE x \in Threads
    <3>1. Strong(x) = {Globals} \cup Stack(x) \cup OpenOf(x)
      BY <2>3, StrongIs
    <3>2. Strong(x)' = {Globals} \cup Stack(x)' \cup OpenOf(x)'
      BY <2>3, StrongIsNext
    <3>3. Stack(x)' = Stack(x)
      BY <1>6, <2>3 DEF Stack
    <3>4. OpenOf(x)' = OpenOf(x)
      BY <1>2 DEF OpenOf
    <3> QED
      BY <3>1, <3>2, <3>3, <3>4
  <2>4. CASE x \in UpVals
    <3>1. Strong(x) = {Val(x)} /\ Strong(x)' = {Val(x)'}
      BY <2>4, StrongIs, StrongIsNext
    <3>2. CASE uth[x] = Nil
      BY <1>2, <1>6, <2>4, <3>1, <3>2 DEF Val
    <3>3. CASE uth[x] # Nil
      <4>1. uth[x] \in Threads /\ uth[x] \in Live
        BY <2>4, <3>3, ValOk
      <4>2. stack'[uth[x]] = stack[uth[x]]
        BY <1>6, <4>1
      <4> QED
        BY <1>2, <3>1, <3>3, <4>2 DEF Val
    <3> QED
      BY <3>2, <3>3
  <2>5. CASE x \in Strings
    <3>1. Strong(x) = {}
      BY <2>5, StrongIs
    <3>2. Strong(x)' = {}
      BY <2>5, StrongIsNext
    <3> QED
      BY <3>1, <3>2
  <2> QED
    BY <2>0, <2>1, <2>2, <2>3, <2>4, <2>5 DEF Objects
<1>8. Roots' = Roots
  BY <1>2 DEF Roots
<1>9. Live' \subseteq Objects /\ \A x \in Live' : Strong(x) \subseteq Strong(x)' \cup {Nil}
  BY <1>4, <1>5, <1>7 DEF Live
<1>10. Reachable \subseteq Reachable'
  BY <1>8, <1>9, ReachGrows
<1> QED
  BY <1>3, <1>5, <1>10

\* No step of the cycle marks or leaves what is not reachable.
LEMMA OnlyReachableStep ==
    ASSUME IInv, IInv', InFrame, OnlyReachable, Next PROVE OnlyReachable'
<1>1. CASE Mutator
  <2>1. full' = full /\ full = "no"
    BY <1>1 DEF Mutator, Load, Create, PushString, SetTable, SetMetatable, NewClosure, SetUpval,
                Call, Return, Resume, Yield, ResumeFails, CloseThread, Runs, fixed
  <2> QED
    BY <2>1 DEF OnlyReachable
<1>2. CASE FullGC
  BY <1>2 DEF FullGC, OnlyReachable
<1>3. CASE MarkRoot
  BY <1>3, MarkRootReach
<1>4. CASE Propagate
  BY <1>4, PropagateReach
<1>5. CASE RemarkUpvals \/ RemarkWeak \/ RemarkAgain
  BY <1>5, RemarkReach
<1>6. CASE Finish
  BY <1>6, FinishReach
<1>7. CASE Sweep
  <2>1. phase' \in {"pause", "sweep"} /\ (full' = "cycle" => full = "cycle")
    BY <1>7 DEF Sweep
  <2>2. CASE full' = "cycle"
    BY <1>7, <2>1, <2>2, SweepReach DEF OnlyReachable, keepinvariant
  <2>3. CASE full' # "cycle"
    BY <2>3 DEF OnlyReachable
  <2> QED
    BY <2>2, <2>3
<1> QED
  BY <1>1, <1>2, <1>3, <1>4, <1>5, <1>6, <1>7 DEF Next, Collector

\* luaC_fullgc leaves exactly what is reachable.
LEMMA FullStep ==
    ASSUME IInv, IInv', OnlyReachable, [Next]_vars, full = "cycle", full' = "no"
    PROVE  alive' = Reachable'
<1>1. CASE Sweep
  <2>1. unswept' = {}
    BY <1>1 DEF Sweep
  <2>2. Live' \subseteq Reachable'
    BY <1>1, SweepReach
  <2>3. alive' = Live'
    BY <2>1 DEF IInv, Heap, TypeOK, Colours, Swept, Live, isdead
  <2>4. Reachable' \subseteq Live'
    <3>1. (IInv => Reachable \subseteq Live)'
      BY ReachLive, PTL
    <3> QED
      BY <3>1
  <2> QED
    BY <2>2, <2>3, <2>4
<1>2. CASE Mutator
  BY <1>2 DEF Mutator, Load, Create, PushString, SetTable, SetMetatable, NewClosure, SetUpval,
              Call, Return, Resume, Yield, ResumeFails, CloseThread, Runs, fixed
<1>3. CASE FullGC
  BY <1>3 DEF FullGC
<1>4. CASE MarkRoot
  BY <1>4 DEF MarkRoot
<1>5. CASE Propagate
  BY <1>5 DEF Propagate
<1>6. CASE RemarkUpvals \/ RemarkWeak \/ RemarkAgain \/ Finish
  BY <1>6 DEF RemarkUpvals, RemarkWeak, RemarkAgain, Finish
<1>7. CASE UNCHANGED vars
  BY <1>7 DEF vars
<1> QED
  BY <1>1, <1>2, <1>3, <1>4, <1>5, <1>6, <1>7 DEF Next, Collector

\* For any heap, and whatever marking it abandons, a full collection leaves the
\* objects that are reachable and no others.
THEOREM FullCollectsAlways == Spec => FullCollects
<1> DEFINE Inv == IInv /\ InFrame /\ OnlyReachable
<1>1. Init => InFrame /\ OnlyReachable
  BY Kinds DEF Init, InFrame, Open, OnlyReachable
<1>2. IInv /\ InFrame /\ OnlyReachable /\ [Next]_vars => InFrame' /\ OnlyReachable'
  <2> SUFFICES ASSUME IInv, InFrame, OnlyReachable, [Next]_vars PROVE InFrame' /\ OnlyReachable'
    OBVIOUS
  <2>1. IInv'
    BY NextStep
  <2>2. CASE Next
    BY <2>1, <2>2, InFrameStep, OnlyReachableStep
  <2>3. CASE UNCHANGED vars
    <3>1. UNCHANGED <<use, alive, field, meta, cap, mt, stack, top, uth, uslot, uval, markedopen,
            active, running, from, mark, gray, grayagain, weak, phase, unswept, full>>
      BY <2>3 DEF vars, heap, stks, upvs, cors
    <3>2. InFrame'
      BY <3>1 DEF InFrame, Open
    <3>3. Reachable \subseteq Reachable'
      BY <2>1, <3>1, MarkingReach
    <3>4. Live' = Live
      BY <3>1 DEF Live, isdead
    <3>5. OnlyReachable'
      BY <3>1, <3>3, <3>4 DEF OnlyReachable, keepinvariant, iswhite, IsWeak, OpenOf
    <3> QED
      BY <3>2, <3>5
  <2> QED
    BY <2>2, <2>3
<1>3. IInv /\ OnlyReachable /\ IInv' /\ [Next]_vars => [(full = "cycle" /\ full' = "no") => alive' = Reachable']_vars
  BY FullStep
<1> QED
  BY <1>1, <1>2, <1>3, Invariant, PTL DEF Spec, FullCollects
=============================================================================
