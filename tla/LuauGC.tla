------------------------------- MODULE LuauGC -------------------------------
(***************************************************************************)
(* The incremental collector of the Luau VM (lgc.cpp) under a mutator that *)
(* runs coroutines, closures with upvalues, weak tables and metatables.    *)
(*                                                                         *)
(* A table has one value and a metatable, a closure one capture.  A slot   *)
(* above a thread's top keeps what was in it until the collector clears    *)
(* it: a later call includes it in the stack again.                        *)
(***************************************************************************)
EXTENDS Naturals, FiniteSets

CONSTANTS Threads, Tables, Closures, UpVals, Strings,  \* kinds of objects
          Nil,
          Main, Globals,   \* the main thread and the table of globals
          WeakMetas,       \* metatables whose __mode is 'v'
          Slots,           \* slots of a thread's stack
          Uses,            \* bounds on what the scripts of a behaviour use
          Page             \* pages are swept in the order of their numbers

Objects == Threads \cup Tables \cup Closures \cup UpVals \cup Strings
Values  == (Objects \ UpVals) \cup {Nil}
Listed  == Threads \cup Tables \cup Closures   \* objects with a gclist

ASSUME GCAssumption ==
    /\ Main \in Threads /\ Globals \in Tables /\ WeakMetas \subseteq Tables
    /\ Threads \cap (Tables \cup Closures \cup UpVals \cup Strings) = {}
    /\ Tables \cap (Closures \cup UpVals \cup Strings) = {}
    /\ Closures \cap (UpVals \cup Strings) = {} /\ UpVals \cap Strings = {}
    /\ Nil \notin Objects
    /\ Slots \in Nat \ {0} /\ Page \in [Objects -> Nat]
    /\ \A b \in Uses : /\ b.objects \subseteq Objects /\ b.slots \in [Threads -> 0..Slots]
                        /\ b.basic \in BOOLEAN /\ b.collect \in BOOLEAN

VARIABLES
    use,             \* objects, slots, basic metatables and full collections
    alive,           \* the objects allocated
    field, meta,     \* of a table
    cap,             \* of a closure: an upvalue or a value
    mt,              \* metatable of a basic type
    stack, top,      \* of a thread
    uth, uslot,      \* where an open upvalue points; no thread: it is closed
    uval,            \* the value of a closed one
    markedopen,
    active, running, from,  \* threads that run or wait for one they resumed
    mark,            \* colours: "white" is the current white, "dead" the other
    gray, grayagain, weak,
    phase,           \* gcstate, and the stages of atomic()
    unswept,
    full             \* luaC_fullgc: not running, sweeping, in its own cycle

heap == <<field, meta, cap, mt>>
stks == <<stack, top>>
upvs == <<uth, uslot, uval, markedopen>>
cors == <<active, running, from>>
vars == <<use, alive, heap, stks, upvs, cors, mark, gray, grayagain, weak, phase, unswept,
          full>>
fixed == <<use, weak, phase, unswept, full>>  \* what no mutator step changes

Phases == {"pause", "propagate", "propagateagain", "atomic", "upvals", "weak", "again", "sweep"}
Stages == {"upvals", "weak", "again"}                 \* the world is stopped
keepinvariant == phase \notin {"pause", "sweep"}

isdead(o) == mark[o] = "dead"
iswhite(o) == mark[o] \in {"white", "dead"}
IsWhite(v) == v # Nil /\ iswhite(v)
Open == {u \in UpVals : uth[u] # Nil}
OpenOf(th) == {u \in UpVals : uth[u] = th}
Val(u) == IF uth[u] # Nil THEN stack[uth[u]][uslot[u]] ELSE uval[u]
Stack(th) == {stack[th][i] : i \in 1..top[th]}
IsWeak(t) == meta[t] \in WeakMetas

-----------------------------------------------------------------------------
\* reallymarkobject of the white objects of vs: an upvalue marks its value.
Reached(vs) ==
    LET ws == {v \in vs : IsWhite(v)}
    IN  ws \cup {v \in {Val(u) : u \in ws \cap UpVals} : IsWhite(v)}

\* Closed upvalues turn black, all others gray.
Paint(es) == [o \in Objects |-> IF o \notin es THEN mark[o]
                                ELSE IF o \in UpVals /\ uth[o] = Nil THEN "black" ELSE "gray"]

Mark(vs) == mark' = Paint(Reached(vs)) /\ gray' = gray \cup (Reached(vs) \cap Listed)

\* Mutant: the state that waits for atomic() is taken for the sweep.
BarrierForwardLate(o, v) ==
    /\ IF mark[o] # "black" \/ ~IsWhite(v) THEN UNCHANGED <<mark, gray>>
       ELSE IF keepinvariant /\ phase # "atomic" THEN Mark({v})
       ELSE mark' = [mark EXCEPT ![o] = "white"] /\ gray' = gray
    /\ grayagain' = grayagain

\* luaC_barrierf, with the test of luaC_barrier and luaC_objbarrier.
BarrierForward(o, v) ==
    /\ IF mark[o] # "black" \/ ~IsWhite(v) THEN UNCHANGED <<mark, gray>>
       ELSE IF keepinvariant THEN Mark({v})
       ELSE mark' = [mark EXCEPT ![o] = "white"] /\ gray' = gray
    /\ grayagain' = grayagain

\* luaC_barriertable, with the test of luaC_barriert.
BarrierTable(t, v) ==
    IF mark[t] # "black" \/ ~IsWhite(v) THEN UNCHANGED <<mark, gray, grayagain>>
    ELSE IF phase = "propagateagain" THEN Mark({v}) /\ grayagain' = grayagain
    ELSE mark' = [mark EXCEPT ![t] = "gray"] /\ grayagain' = grayagain \cup {t} /\ gray' = gray

\* Mutant: whatever its colour the thread is listed.
ThreadBarrierAlways(th) ==
    /\ mark' = [mark EXCEPT ![th] = "gray"] /\ grayagain' = grayagain \cup {th}
    /\ gray' = gray

\* luaC_barrierback, with the test of luaC_threadbarrier.
ThreadBarrier(th) ==
    /\ IF mark[th] # "black" THEN UNCHANGED <<mark, grayagain>>
       ELSE mark' = [mark EXCEPT ![th] = "gray"] /\ grayagain' = grayagain \cup {th}
    /\ gray' = gray

\* luaF_closeupval of the upvalues us; luaC_upvalclosed is the barrier.
CloseUpvals(us) ==
    LET marked == {u \in us : mark[u] = "gray"}
        es == Reached({Val(u) : u \in marked})
    IN  /\ uval' = [u \in UpVals |-> IF u \in us THEN Val(u) ELSE uval[u]]
        /\ uth' = [u \in UpVals |-> IF u \in us THEN Nil ELSE uth[u]]
        /\ IF keepinvariant
           THEN /\ mark' = [o \in Objects |-> IF o \in marked THEN "black" ELSE Paint(es)[o]]
                /\ gray' = gray \cup (es \cap Listed)
           ELSE /\ mark' = [o \in Objects |-> IF o \in marked THEN "white" ELSE mark[o]]
                /\ gray' = gray
        /\ uslot' = [u \in UpVals |-> IF u \in us THEN 1 ELSE uslot[u]]  \* not read again
        /\ markedopen' = markedopen \ us
        /\ grayagain' = grayagain

-----------------------------------------------------------------------------
Init ==
    /\ use \in Uses /\ alive = {Main, Globals}
    /\ field = [t \in Tables |-> Nil] /\ meta = [t \in Tables |-> Nil]
    /\ cap = [f \in Closures |-> Nil] /\ mt = Nil
    /\ stack = [th \in Threads |-> [i \in 1..Slots |-> Nil]]
    /\ top = [th \in Threads |-> IF th = Main THEN 1 ELSE 0]
    /\ uth = [u \in UpVals |-> Nil] /\ uslot = [u \in UpVals |-> 1]
    /\ uval = [u \in UpVals |-> Nil] /\ markedopen = {}
    /\ active = {Main} /\ running = Main /\ from = [th \in Threads |-> Nil]
    /\ mark = [o \in Objects |-> "white"]
    /\ gray = {} /\ grayagain = {} /\ weak = {} /\ phase = "pause" /\ unswept = {} /\ full = "no"

\* The running thread: Lua code or a C function between two steps of the
\* collector, which does a step when memory is allocated, at most.
Runs == full = "no" /\ phase \notin Stages
Regs == 1..top[running]
Seen == Stack(running) \ {Nil}
Put(i, v) == stack' = [stack EXCEPT ![running][i] = v]

\* What an instruction or an API call can read into a register.
Readable ==
    {Nil, mt} \cup (IF Globals \in use.objects THEN {Globals, field[Globals]} ELSE {})
    \cup (UNION {{t, field[t], meta[t]} : t \in Seen \cap Tables})
    \cup {IF cap[f] \in UpVals THEN Val(cap[f]) ELSE cap[f] : f \in Seen \cap Closures}

Load ==
    /\ Runs
    /\ \E i \in Regs : \E v \in Readable \cup Seen : Put(i, v)
    /\ UNCHANGED <<fixed, alive, heap, top, upvs, cors, mark, gray, grayagain>>

\* luaC_init: a new object has the current white.
New(os) == alive' = alive \cup os /\ mark' = [o \in Objects |-> IF o \in os THEN "white" ELSE mark[o]]

Create ==
    /\ Runs
    /\ \E o \in (use.objects \ alive) \cap (Tables \cup Threads) : \E i \in Regs : New({o}) /\ Put(i, o)
    /\ UNCHANGED <<fixed, heap, top, upvs, cors, gray, grayagain>>

\* luaS_newlstr finds a string that is still there, dead or not.
Interned(s) == IF s \notin alive \/ isdead(s) THEN "white" ELSE mark[s]

PushString ==
    /\ Runs
    /\ \E s \in use.objects \cap Strings : \E i \in Regs :
          alive' = alive \cup {s} /\ mark' = [mark EXCEPT ![s] = Interned(s)] /\ Put(i, s)
    /\ UNCHANGED <<fixed, heap, top, upvs, cors, gray, grayagain>>

SetTable ==
    /\ Runs
    /\ \E t \in (Seen \cup {Globals}) \cap Tables \cap use.objects : \E v \in Stack(running) \cup {Nil} :
          field' = [field EXCEPT ![t] = v] /\ BarrierTable(t, v)
    /\ UNCHANGED <<fixed, alive, meta, cap, mt, stks, upvs, cors>>

SetMetatable ==
    /\ Runs
    /\ \E m \in (Seen \cap Tables) \cup {Nil} :
          \/ \E t \in Seen \cap Tables :
                meta' = [meta EXCEPT ![t] = m] /\ BarrierForward(t, m) /\ mt' = mt
          \/ use.basic /\ mt' = m /\ UNCHANGED <<meta, mark, gray, grayagain>>
    /\ UNCHANGED <<fixed, alive, field, cap, stks, upvs, cors>>

\* LOP_NEWCLOSURE.  The closure is in its register before it captures.
NewClosure ==
    /\ Runs
    /\ \E f \in (use.objects \ alive) \cap Closures : \E i, j \in Regs :
          /\ Put(i, f)
          /\ \/ /\ cap' = [cap EXCEPT ![f] = stack'[running][j]]        \* LCT_VAL
                /\ New({f}) /\ UNCHANGED upvs
             \/ \E g \in Seen \cap Closures :                           \* LCT_UPVAL
                   cap' = [cap EXCEPT ![f] = cap[g]] /\ New({f}) /\ UNCHANGED upvs
             \/ \E u \in OpenOf(running) :                              \* LCT_REF
                   /\ uslot[u] = j /\ cap' = [cap EXCEPT ![f] = u]
                   /\ New({f}) /\ UNCHANGED upvs
             \/ \E u \in (use.objects \ alive) \cap UpVals :
                   /\ \A w \in OpenOf(running) : uslot[w] # j
                   /\ cap' = [cap EXCEPT ![f] = u] /\ New({f, u})
                   /\ uth' = [uth EXCEPT ![u] = running] /\ uslot' = [uslot EXCEPT ![u] = j]
                   /\ UNCHANGED <<uval, markedopen>>
    /\ UNCHANGED <<fixed, field, meta, mt, top, cors, gray, grayagain>>

SetUpval ==
    /\ Runs
    /\ \E f \in Seen \cap Closures : \E v \in Stack(running) :
          LET uv == cap[f]
          IN  /\ uv \in UpVals
              /\ IF uth[uv] # Nil
                 THEN stack' = [stack EXCEPT ![uth[uv]][uslot[uv]] = v] /\ uval' = uval
                 ELSE uval' = [uval EXCEPT ![uv] = v] /\ stack' = stack
              /\ BarrierForward(uv, v)
    /\ UNCHANGED <<fixed, alive, heap, top, uth, uslot, markedopen, cors>>

\* Mutant: a slot beyond the limit is used.
CallOverflows ==
    /\ Runs
    /\ \E k \in top[running]+1..use.slots[running]+1 : top' = [top EXCEPT ![running] = k]
    /\ UNCHANGED <<fixed, alive, heap, stack, upvs, cors, mark, gray, grayagain>>

\* The new frame includes slots the call did not write.
Call ==
    /\ Runs
    /\ \E k \in top[running]+1..use.slots[running] : top' = [top EXCEPT ![running] = k]
    /\ UNCHANGED <<fixed, alive, heap, stack, upvs, cors, mark, gray, grayagain>>

\* LOP_CLOSEUPVALS of the registers above k, in a block or before LOP_RETURN.
Return ==
    /\ Runs
    /\ \E k \in 0..top[running] :
          /\ CloseUpvals({u \in OpenOf(running) : uslot[u] > k})
          /\ top' \in {top, [top EXCEPT ![running] = k]}
    /\ UNCHANGED <<fixed, alive, heap, stack, cors>>

\* A coroutine that is passed to resume or close: an argument of a C function, in
\* a slot of the frame no upvalue refers to.
Resumable ==
    {co \in Threads \ active :
        \E i \in Regs : stack[running][i] = co /\ \A u \in OpenOf(running) : uslot[u] # i}

\* auxresume: arguments are moved, then resume_start.
Resume ==
    /\ Runs
    /\ \E co \in Resumable :
          /\ \/ UNCHANGED stks
             \/ /\ top[co] < use.slots[co]
                /\ \E v \in Stack(running) : stack' = [stack EXCEPT ![co][top[co] + 1] = v]
                /\ top' = [top EXCEPT ![co] = @ + 1]
          /\ ThreadBarrier(co)
          /\ active' = active \cup {co} /\ running' = co /\ from' = [from EXCEPT ![co] = running]
    /\ UNCHANGED <<fixed, alive, heap, upvs>>

\* lua_yield, then the rest of auxresume: a value may be moved, no variable.
Yield ==
    /\ Runs /\ running # Main
    /\ LET to == from[running]
       IN  /\ \/ UNCHANGED stks
              \/ /\ top[running] > 0 /\ \A u \in OpenOf(running) : uslot[u] # top[running]
                 /\ \E i \in 1..top[to] : stack' = [stack EXCEPT ![to][i] = stack[running][top[running]]]
                 /\ top' = [top EXCEPT ![running] = @ - 1]
           /\ ThreadBarrier(to)
           /\ active' = active \ {running} /\ running' = to /\ from' = [from EXCEPT ![running] = Nil]
    /\ UNCHANGED <<fixed, alive, heap, upvs>>

\* auxresume at the limit of nested C calls: resume_error pushes a message to co
\* and it is moved back.  Arguments, moved to co before, passed the barrier.
ResumeFails(narg) ==
    /\ Runs
    /\ \E co \in Resumable : \E s \in use.objects \cap Strings : \E i \in Regs :
          LET barred == narg > 0 /\ mark[co] = "black"
          IN  /\ top[co] < use.slots[co]
              /\ alive' = alive \cup {s}
              /\ stack' = [stack EXCEPT ![co][top[co] + 1] = s, ![running][i] = s]
              /\ mark' = [mark EXCEPT ![s] = Interned(s), ![co] = IF barred THEN "gray" ELSE @]
              /\ grayagain' = IF barred THEN grayagain \cup {co} ELSE grayagain
    /\ UNCHANGED <<fixed, heap, top, upvs, cors, gray>>

\* coroutine.close: lua_resetthread.
CloseThread ==
    /\ Runs
    /\ \E co \in Resumable :
          /\ CloseUpvals(OpenOf(co))
          /\ stack' = [stack EXCEPT ![co] = [i \in 1..Slots |-> Nil]]
          /\ top' = [top EXCEPT ![co] = 0]
    /\ UNCHANGED <<fixed, alive, heap, cors>>

Mutator == \/ Load \/ Create \/ PushString \/ SetTable \/ SetMetatable \/ NewClosure \/ SetUpval
           \/ Call \/ Return \/ Resume \/ Yield \/ ResumeFails(1) \/ CloseThread

-----------------------------------------------------------------------------
objs == <<use, alive, heap, cors>>   \* what the marking leaves alone

\* markroot; luaC_fullgc clears markedopen of open upvalues before its own.
MarkRoot ==
    /\ phase = "pause" /\ full # "cycle" /\ phase' = "propagate"
    /\ LET roots == Reached({Main, Globals, mt})
       IN  mark' = Paint(roots) /\ gray' = roots \cap Listed
    /\ grayagain' = {} /\ weak' = {}
    /\ IF full = "sweep" THEN full' = "cycle" /\ markedopen' = {}
       ELSE UNCHANGED <<full, markedopen>>
    /\ UNCHANGED <<objs, stks, uth, uslot, uval, unswept>>

\* What traversetable, traverseclosure and traversestack mark.
Children(o) ==
    CASE o \in Tables -> {meta[o]} \cup (IF IsWeak(o) THEN {} ELSE {field[o]})
      [] o \in Closures -> {Globals, cap[o]}
      [] o \in Threads -> {Globals} \cup Stack(o) \cup OpenOf(o)

\* Mutant: slots above top are left as they are.
ClearStackNot(th) == stack

\* clearstack.
ClearStack(th) == [stack EXCEPT ![th] = [i \in 1..Slots |-> IF i <= top[th] THEN @[i] ELSE Nil]]

\* propagatemark of one object; an emptied list moves the collector on, in
\* atomic() with the steps below.  The second list is never empty to begin with:
\* the main thread is in it.
Propagate ==
    \E o \in gray :
        LET es    == Reached(Children(o))
            left  == (gray \ {o}) \cup (es \cap Listed)
            stays == o \in active \/ (o \in Tables /\ IsWeak(o))
            later == IF o \in active THEN grayagain \cup {o} ELSE grayagain
        IN  /\ keepinvariant /\ phase # "atomic"
            /\ mark' = [Paint(es) EXCEPT ![o] = IF stays THEN "gray" ELSE "black"]
            /\ weak' = IF stays /\ o \in Tables THEN weak \cup {o} ELSE weak
            /\ markedopen' = IF o \in Threads THEN markedopen \cup OpenOf(o) ELSE markedopen
            /\ stack' = IF o \in Threads /\ (o \notin active \/ phase \in Stages)
                        THEN ClearStack(o) ELSE stack
            /\ IF left = {} /\ phase = "propagate"
               THEN gray' = later /\ grayagain' = {} /\ phase' = "propagateagain"
               ELSE /\ gray' = left /\ grayagain' = later
                    /\ phase' = IF left = {} /\ phase = "propagateagain" THEN "atomic" ELSE phase
            /\ UNCHANGED <<objs, top, uth, uslot, uval, unswept, full>>

\* atomic(), first: remarkupvals.
RemarkUpvals ==
    /\ phase = "atomic" /\ phase' = "upvals"
    /\ Mark({Val(u) : u \in {w \in Open : mark[w] = "gray"}})
    /\ UNCHANGED <<objs, stks, upvs, grayagain, weak, unswept, full>>

\* Then the weak tables again, the running thread and the basic metatables.
RemarkWeak ==
    /\ phase = "upvals" /\ gray = {} /\ phase' = "weak"
    /\ LET es == Reached({running, mt})
       IN  mark' = Paint(es) /\ gray' = weak \cup (es \cap Listed)
    /\ weak' = {}
    /\ UNCHANGED <<objs, stks, upvs, grayagain, unswept, full>>

\* Mutant: it goes on until nothing is turned gray again.
RemarkWhileAny ==
    /\ phase = "weak" /\ gray = {}
    /\ phase' = IF grayagain = {} THEN "again" ELSE "weak"
    /\ gray' = grayagain /\ grayagain' = {}
    /\ UNCHANGED <<objs, stks, upvs, mark, weak, unswept, full>>

\* Then what was turned gray again.
RemarkAgain ==
    /\ phase = "weak" /\ gray = {} /\ phase' = "again"
    /\ gray' = grayagain /\ grayagain' = {}
    /\ UNCHANGED <<objs, stks, upvs, mark, weak, unswept, full>>

\* Then cleartable, in which strings are never cleared, and clearupvals, for
\* upvalues no marked thread has; the two whites change places (no object has
\* the other white at this time).
Finish ==
    LET strings == {field[t] : t \in weak} \cap Strings
        gone    == {t \in weak : IsWhite(field[t]) /\ field[t] \notin Strings}
        left    == Open \ markedopen
        live    == {u \in left : ~iswhite(u)}
    IN  /\ phase = "again" /\ gray = {}
        /\ field' = [t \in Tables |-> IF t \in gone THEN Nil ELSE field[t]]
        /\ mark' = [o \in Objects |-> CASE o \in live -> "black"
                                        [] o \in strings -> "gray"
                                        [] o \in alive \ strings /\ iswhite(o) -> "dead"
                                        [] OTHER -> mark[o]]
        /\ uval' = [u \in UpVals |-> IF u \in live THEN Val(u) ELSE uval[u]]
        /\ uth' = [u \in UpVals |-> IF u \in left THEN Nil ELSE uth[u]]
        /\ uslot' = [u \in UpVals |-> IF u \in left THEN 1 ELSE uslot[u]]
        /\ markedopen' = {}
        /\ weak' = {} /\ phase' = "sweep" /\ unswept' = alive \ {Main}
        /\ UNCHANGED <<use, alive, meta, cap, mt, stks, cors, gray, grayagain, full>>

\* f without what it had for a freed object.
Cleared(f, o, v) == [x \in DOMAIN f |-> IF x = o THEN v ELSE f[x]]

\* sweepgcopage for one object; the last one ends the cycle.
Sweep ==
    /\ phase = "sweep"
    /\ \E o \in {x \in unswept : \A y \in unswept : Page[x] <= Page[y]} :
          LET last == unswept = {o}
          IN  /\ unswept' = unswept \ {o}
              /\ mark' = [x \in Objects |-> IF x = o \/ (last /\ x = Main) THEN "white" ELSE mark[x]]
              /\ IF isdead(o)
                 THEN /\ alive' = alive \ {o}
                      /\ field' = Cleared(field, o, Nil) /\ meta' = Cleared(meta, o, Nil)
                      /\ cap' = Cleared(cap, o, Nil)
                      /\ stack' = Cleared(stack, o, [i \in 1..Slots |-> Nil])
                      /\ top' = Cleared(top, o, 0)
                      /\ uval' = Cleared(uval, o, Nil)
                 ELSE UNCHANGED <<alive, field, meta, cap, stks, uval>>
              /\ phase' = IF last THEN "pause" ELSE "sweep"
              /\ full' = IF last /\ full = "cycle" THEN "no" ELSE full
    /\ UNCHANGED <<use, mt, uth, uslot, markedopen, cors, gray, grayagain, weak>>

\* Mutant: luaC_fullgc goes on with the marking under way.
FullGoesOn ==
    /\ Runs /\ use.collect /\ full' = IF keepinvariant THEN "cycle" ELSE "sweep"
    /\ UNCHANGED <<objs, stks, upvs, mark, phase, unswept, gray, grayagain, weak>>

\* luaC_fullgc abandons a marking: what it marked is swept to white.
FullGC ==
    /\ Runs /\ use.collect /\ full' = "sweep"
    /\ IF keepinvariant
       THEN /\ phase' = "sweep" /\ unswept' = alive \ {Main}
            /\ gray' = {} /\ grayagain' = {} /\ weak' = {}
       ELSE UNCHANGED <<phase, unswept, gray, grayagain, weak>>
    /\ UNCHANGED <<objs, stks, upvs, mark>>

Collector == \/ MarkRoot \/ Propagate \/ RemarkUpvals \/ RemarkWeak \/ RemarkAgain
             \/ Finish \/ Sweep

Next == Mutator \/ FullGC \/ Collector

\* luaC_fullgc and atomic() run to their end.
Spec == Init /\ [][Next]_vars /\ WF_vars(Collector /\ ~Runs)

\* With resumes that fail without arguments.
BareSpec == Init /\ [][Next \/ ResumeFails(0)]_vars

-----------------------------------------------------------------------------
TypeOK ==
    /\ use \in Uses /\ alive \subseteq Objects
    /\ field \in [Tables -> Values] /\ meta \in [Tables -> Tables \cup {Nil}]
    /\ cap \in [Closures -> Objects \cup {Nil}] /\ mt \in Tables \cup {Nil}
    /\ stack \in [Threads -> [1..Slots -> Values]] /\ top \in [Threads -> 0..Slots]
    /\ uth \in [UpVals -> Threads \cup {Nil}] /\ uslot \in [UpVals -> 1..Slots]
    /\ uval \in [UpVals -> Values] /\ markedopen \subseteq UpVals
    /\ active \subseteq Threads /\ running \in active /\ from \in [Threads -> Threads \cup {Nil}]
    /\ mark \in [Objects -> {"white", "dead", "gray", "black"}]
    /\ gray \subseteq Listed /\ grayagain \subseteq Listed /\ weak \subseteq Tables
    /\ phase \in Phases /\ unswept \subseteq Objects /\ full \in {"no", "sweep", "cycle"}

\* Everything an object refers to, weakly or from a slot above top as well.
Refs(o) ==
    CASE o \in Tables   -> {field[o], meta[o]}
      [] o \in Closures -> {Globals, cap[o]}
      [] o \in Threads  -> {Globals} \cup {stack[o][i] : i \in 1..Slots} \cup OpenOf(o)
      [] o \in UpVals   -> {IF uth[o] = Nil THEN uval[o] ELSE uth[o]}
      [] o \in Strings  -> {}

Live == {o \in alive : ~isdead(o)}

\* "Failure to do this can result in stack references that point to dead objects
\* since black threads don't get rescanned" (lapi.cpp): they never do.
StackRefsLive ==
    \A th \in active : \A i \in 1..top[th] : stack[th][i] \in Live \cup {Nil}

\* Nothing an object that is not dead refers to is freed or about to be: no
\* weak reference, no open upvalue of a lost thread, no forgotten slot.
LiveClosed ==
    /\ active \cup {Main, Globals, mt} \subseteq Live \cup {Nil}
    /\ \A o \in Live : Refs(o) \subseteq Live \cup {Nil}

\* While marking a black object never points to a white one (lgc.h), but for
\* slots an open upvalue has written, until remarkupvals; what is written without
\* a barrier, open upvalues and threads that run, is never black (assertions in
\* lgc.cpp and lfunc.cpp).
TriColour ==
    /\ keepinvariant =>
          \A o \in alive : mark[o] = "black" =>
              \A v \in Refs(o) : IsWhite(v) =>
                  phase \notin Stages /\ \E u \in OpenOf(o) : mark[u] = "gray" /\ Val(u) = v
    /\ \A o \in Open \cup active : mark[o] # "black"

\* While marking a gray object is in one list, and lists have no others: each
\* has one link, so an object put into two would cut one of them.
GrayListed ==
    keepinvariant =>
        /\ {o \in alive \cap Listed : mark[o] = "gray"} = gray \cup grayagain \cup weak
        /\ gray \cap grayagain = {} /\ gray \cap weak = {} /\ grayagain \cap weak = {}

Roots == {Main, Globals, running, mt} \ {Nil}

\* What keeps its referents alive: a weak table does so with strings only, an
\* upvalue with its value, wherever that is.
Strong(o) ==
    CASE o \in UpVals  -> {Val(o)}
      [] o \in Strings -> {}
      [] o \in Tables  -> Children(o) \cup ({field[o]} \cap Strings)
      [] OTHER         -> Children(o)

\* The least set that holds the roots and with an object what it keeps alive.
Reachable ==
    LET closed == {S \in SUBSET Objects :
                      Roots \subseteq S /\ \A o \in S : Strong(o) \subseteq S \cup {Nil}}
    IN  {o \in Objects : \A S \in closed : o \in S}

\* luaC_fullgc leaves what is reachable, and whatever an abandoned marking has
\* left behind no more than that.
FullCollects == [][(full = "cycle" /\ full' = "no") => alive' = Reachable']_vars

\* luaC_fullgc comes to an end.
FullEnds == full # "no" ~> full = "no"
=============================================================================
