--------------------------- MODULE JsonSerializer ---------------------------
(***************************************************************************)
(* lua_table_to_json in luau_wrapper.cpp: the recursive conversion of a    *)
(* Lua table to JSON text, by means of lua_next, lua_rawgeti and the slots *)
(* they leave on the Lua stack.                                            *)
(*                                                                         *)
(* The text is a sequence of lexemes, as in JsonParser.  The variable      *)
(* calls holds one record per active call of lua_table_to_json_helper; a   *)
(* call's depth argument is the number of calls active when it is made.    *)
(*                                                                         *)
(* lua_next visits the entries of a table in an order that is the table's  *)
(* own: Luau keeps the keys 1 .. n in the array part, which comes first,   *)
(* and the rest where their hashes put them.                               *)
(***************************************************************************)
EXTENDS LuaValues, FiniteSets, SequencesExt

CONSTANTS
    Digits,     \* Digits[i] is the string form of the index i
    Decimal,    \* Decimal[x] is the string form of the number x
    IndexOf,    \* the index a string reads as: "1", "1.0", " 1", "0x1"; else 0
    Unsafe,     \* strings with a character that JSON text must escape
    Escaped,    \* those in which it is one of the five the code escapes
    Heaps,      \* the heaps a script may leave; its result is table 1
    MaxNesting, \* the depth up to which tables are converted, 20 in the code
    Slots       \* the slots reserved from the converted table on

ASSUME DigitsAssumption  == Digits \in Seq(Str)
ASSUME DecimalAssumption == Decimal \in [Num -> Str]
ASSUME IndexAssumption   ==
    IndexOf \in [Str -> Nat] /\ \A i \in DOMAIN Digits : IndexOf[Digits[i]] = i
ASSUME EscapeAssumption  ==
    "badstr" \notin Str /\ \A s \in Range(Digits) \cup Range(Decimal) : s \notin Unsafe
ASSUME NestingAssumption == MaxNesting \in Nat /\ Slots \in Nat \ {0}

VARIABLES
    heap,       \* the tables, as in JsonParser
    stack,      \* the Lua stack from the converted table on
    calls,      \* active calls of lua_table_to_json_helper
    at,         \* where the innermost call is
    out         \* the text written so far

wvars == <<heap, stack, calls, at, out>>

-----------------------------------------------------------------------------
(* The Lua API on values.                                                  *)

\* A value that is neither string, number, boolean nor table: a function...
Opaque == [ty |-> "opaque"]

IsAtomIn(v, S) == v.ty = "atom" /\ v.v \in S

\* lua_isstring: a string or a number.
IsString(v) == v.ty = "index" \/ IsAtomIn(v, Str \cup Num)

\* lua_tostring, which converts the slot it reads.
ToText(v) == IF v.ty = "index" THEN Atom(Digits[v.n])
               ELSE IF IsAtomIn(v, Num) THEN Atom(Decimal[v.v]) ELSE v

\* Mutant: indices are counted from 0.
IsNumberEqualFromZero(v, i) == i > 1 /\ v = Index(i - 1)

\* lua_isnumber(v) and lua_tonumber(v) = i: a number or a string that reads
\* as one.
IsNumberEqual(v, i) == v = Index(i) \/ (IsAtomIn(v, Str) /\ IndexOf[v.v] = i)

\* The orders in which lua_next may visit a table.
Sequential(t) == {i \in 1 .. Cardinality(t) :
                     \A j \in 1 .. i : \E e \in t : e[1] = Index(j)}
Orders(t) == {o \in SetToSeqs(t) : \A i \in Sequential(t) : o[i][1] = Index(i)}

\* lua_rawgeti.
RawGet(t, i) == IF \E e \in t : e[1] = Index(i)
                  THEN (CHOOSE e \in t : e[1] = Index(i))[2] ELSE Nil

\* The tables of a heap: finite, one entry per key, references within the heap.
WellFormed(t, h) ==
    /\ IsFiniteSet(t) /\ t \subseteq Key \X (Value \cup {Opaque})
    /\ \A e \in t : /\ e[1] # Nil
                    /\ e[1].ty = "index" => e[1].n <= Len(Digits)
                    /\ e[2].ty = "table" => e[2].id \in DOMAIN h
                    /\ \A f \in t : f[1] = e[1] => f = e

ASSUME HeapsAssumption ==
    \A h \in Heaps : h \in Seq(Range(h)) /\ h # <<>> /\ \A t \in Range(h) : WellFormed(t, h)

-----------------------------------------------------------------------------
Caller     == calls[Len(calls)]
FromTop(i) == stack[Len(stack) + 1 - i]      \* Lua's index -i
Tab(c)     == heap[stack[c.slot].id]         \* the table call c converts

\* luaH_next: the place of key k, 0 for nil.
KnownKey(c, k)  == k = Nil \/ \E i \in DOMAIN c.order : c.order[i][1] = k
Place(c, k)     == IF k = Nil THEN 0 ELSE CHOOSE i \in DOMAIN c.order : c.order[i][1] = k
\* Mutant: the last node of a table is not visited.
HasNextButLast(c, k) == Place(c, k) + 1 < Len(c.order)
HasNext(c, k)   == Place(c, k) < Len(c.order)
NextEntry(c, k) == c.order[Place(c, k) + 1]

\* Mutant: a value without a JSON form is written as the name of its type.
ValueTextNamesType(v) ==
    IF IsString(v) THEN ToText(v).v
    ELSE IF IsAtomIn(v, {"true", "false"}) THEN v.v ELSE v.ty

\* The text of a value that is no table: numbers pass lua_isstring first, so
\* they are written as strings.
ValueText(v) ==
    IF IsString(v)
    THEN LET s == ToText(v).v IN IF s \in Unsafe \ Escaped THEN "badstr" ELSE s
    ELSE IF IsAtomIn(v, {"true", "false"}) THEN v.v ELSE "null"

\* A key is written as it is, without escapes.
KeyText(k) ==
    IF IsString(k) THEN LET s == ToText(k).v IN IF s \in Unsafe THEN "badstr" ELSE s
    ELSE "unknown"

Comma(c) == IF c.done = 0 THEN <<>> ELSE <<",">>

\* Write a value whose slot has just been pushed, or call the helper on it.
Emit(prefix, v) ==
    IF IsTable(v) THEN out' = out \o prefix /\ at' = "enter"
    ELSE out' = out \o prefix \o <<ValueText(v)>> /\ at' = "emitted"

SetCaller(c) == calls' = [calls EXCEPT ![Len(calls)] = c]

\* The call returns: its text is complete.
Finish(bracket) ==
    /\ out' = Append(out, bracket)
    /\ calls' = Pop(calls, 1)
    /\ at' = "emitted"

-----------------------------------------------------------------------------
Init ==
    /\ heap \in Heaps
    /\ stack = <<Table(1)>>
    /\ calls = <<>>
    /\ at = "enter"
    /\ out = <<>>

\* Below the depth limit nothing of the table is read.
EnterTooDeep ==
    /\ at = "enter"
    /\ Len(calls) > MaxNesting
    /\ out' = out \o <<"{", "}">>
    /\ at' = "emitted"
    /\ UNCHANGED <<heap, stack, calls>>

\* lua_pushnil before the loop that decides between array and object.
Enter ==
    /\ at = "enter"
    /\ Len(calls) <= MaxNesting
    /\ \E o \in Orders(heap[FromTop(1).id]) :
          calls' = Append(calls, [slot |-> Len(stack), order |-> o, size |-> 0,
                                  done |-> 0, kind |-> "scan"])
    /\ stack' = Append(stack, Nil)
    /\ at' = "scan"
    /\ UNCHANGED <<heap, out>>

\* A key that continues 1, 2, ...: the value is popped, the key stays.
ScanIndex ==
    /\ at = "scan"
    /\ HasNext(Caller, FromTop(1))
    /\ LET k == NextEntry(Caller, FromTop(1))[1] IN
         /\ IsNumberEqual(k, Caller.size + 1)
         /\ stack' = Append(Pop(stack, 1), k)
         /\ SetCaller([Caller EXCEPT !.size = @ + 1])
    /\ UNCHANGED <<heap, at, out>>

\* The object loop starts with lua_pushnil, in the slot the scan used.
StartObject ==
    /\ out' = Append(out, "{")
    /\ stack' = Append(Pop(stack, 1), Nil)
    /\ SetCaller([Caller EXCEPT !.kind = "object"])
    /\ at' = "object"

\* A key that does not: key and value are popped, the table is an object.
ScanOther ==
    /\ at = "scan"
    /\ HasNext(Caller, FromTop(1))
    /\ ~IsNumberEqual(NextEntry(Caller, FromTop(1))[1], Caller.size + 1)
    /\ StartObject
    /\ UNCHANGED heap

\* No more entries: an array, unless the table is empty.
ScanEnd ==
    /\ at = "scan"
    /\ ~HasNext(Caller, FromTop(1))
    /\ \/ /\ Caller.size > 0
          /\ out' = Append(out, "[")
          /\ stack' = Pop(stack, 1)
          /\ SetCaller([Caller EXCEPT !.kind = "array"])
          /\ at' = "array"
       \/ Caller.size = 0 /\ StartObject
    /\ UNCHANGED heap

\* Mutant: elements are read from index 0.
ArrayItemFromZero ==
    /\ at = "array"
    /\ Caller.done < Caller.size
    /\ LET v == RawGet(Tab(Caller), Caller.done) IN
         /\ stack' = Append(stack, v)
         /\ Emit(Comma(Caller), v)
    /\ UNCHANGED <<heap, calls>>

\* Mutant: a value without a JSON form is skipped before the count moves on.
ArrayItemSkips ==
    /\ at = "array"
    /\ Caller.done < Caller.size
    /\ LET v == RawGet(Tab(Caller), Caller.done + 1) IN
         IF v = Opaque THEN UNCHANGED <<stack, out, at>>
         ELSE stack' = Append(stack, v) /\ Emit(Comma(Caller), v)
    /\ UNCHANGED <<heap, calls>>

\* for (int i = 1; i <= array_size; i++): lua_rawgeti and write.
ArrayItem ==
    /\ at = "array"
    /\ Caller.done < Caller.size
    /\ LET v == RawGet(Tab(Caller), Caller.done + 1) IN
         /\ stack' = Append(stack, v)
         /\ Emit(Comma(Caller), v)
    /\ UNCHANGED <<heap, calls>>

ArrayEnd ==
    /\ at = "array"
    /\ Caller.done = Caller.size
    /\ Finish("]")
    /\ UNCHANGED <<heap, stack>>

\* The object loop: lua_next, then the key's slot is converted in place.
ObjectItem ==
    /\ at = "object"
    /\ KnownKey(Caller, FromTop(1))
    /\ HasNext(Caller, FromTop(1))
    /\ LET e == NextEntry(Caller, FromTop(1)) IN
         /\ stack' = Pop(stack, 1) \o <<ToText(e[1]), e[2]>>
         /\ Emit(Comma(Caller) \o <<KeyText(e[1]), ":">>, e[2])
    /\ UNCHANGED <<heap, calls>>

\* luaG_runerror: "invalid key to 'next'", for a key that was converted.
ObjectInvalidKey ==
    /\ at = "object"
    /\ ~KnownKey(Caller, FromTop(1))
    /\ at' = "error"
    /\ UNCHANGED <<heap, stack, calls, out>>

ObjectEnd ==
    /\ at = "object"
    /\ KnownKey(Caller, FromTop(1))
    /\ ~HasNext(Caller, FromTop(1))
    /\ stack' = Pop(stack, 1)
    /\ Finish("}")
    /\ UNCHANGED heap

\* Mutant: lua_pop(L, 2), as at the end of the scan.
ItemWrittenPopsKey ==
    /\ at = "emitted"
    /\ calls # <<>>
    /\ stack' = Pop(stack, 2)
    /\ SetCaller([Caller EXCEPT !.done = @ + 1])
    /\ at' = Caller.kind
    /\ UNCHANGED <<heap, out>>

\* lua_pop(L, 1) after an item, on to the next one.
ItemWritten ==
    /\ at = "emitted"
    /\ calls # <<>>
    /\ stack' = Pop(stack, 1)
    /\ SetCaller([Caller EXCEPT !.done = @ + 1])
    /\ at' = Caller.kind
    /\ UNCHANGED <<heap, out>>

\* The next call of the Lua API pushes: a first key, a next entry or an element.
Pushes ==
    \/ at = "enter" /\ Len(calls) <= MaxNesting
    \/ at = "scan" /\ HasNext(Caller, FromTop(1))
    \/ at = "array" /\ Caller.done < Caller.size
    \/ at = "object" /\ KnownKey(Caller, FromTop(1)) /\ HasNext(Caller, FromTop(1))

\* No lua_checkstack asks for the slot: with those reserved in use nothing is
\* defined, though the stack may happen to be larger.
Overrun ==
    /\ Pushes
    /\ Len(stack) >= Slots
    /\ at' = "undefined"
    /\ UNCHANGED <<heap, stack, calls, out>>

Return ==
    /\ at = "emitted"
    /\ calls = <<>>
    /\ at' = "done"
    /\ UNCHANGED <<heap, stack, calls, out>>

Next ==
    \/ EnterTooDeep \/ Enter
    \/ ScanIndex \/ ScanOther \/ ScanEnd
    \/ ArrayItem \/ ArrayEnd
    \/ ObjectItem \/ ObjectInvalidKey \/ ObjectEnd
    \/ ItemWritten \/ Overrun \/ Return

\* Straight-line C++ on one thread.
Spec == Init /\ [][Next]_wvars /\ WF_wvars(Next)

-----------------------------------------------------------------------------
Written == Str \cup {"{", "}", "[", "]", ",", ":", "true", "false", "null", "unknown", "badstr"}

Call == [slot : Nat \ {0}, order : Seq(Key \X (Value \cup {Opaque})), size : Nat,
         done : Nat, kind : {"scan", "array", "object"}]

TypeOK ==
    /\ heap \in Heaps
    /\ stack \in Seq(Key \cup {Opaque})
    /\ calls \in Seq(Call)
    /\ at \in {"enter", "scan", "array", "object", "emitted", "done", "error", "undefined"}
    /\ out \in Seq(Written)

\* The slots a call holds above its table while a value of it is being
\* written, or a loop of it is between two entries.
Held(c) == IF c.kind = "array" THEN 0 ELSE 1

(***************************************************************************)
(* Every active call still finds the table it was given in the slot it     *)
(* computed on entry, whatever the calls it made pushed and popped; the    *)
(* slots in between are one key per object and one value per call, and the *)
(* conversion leaves the stack as it found it.                             *)
(***************************************************************************)
StackRestored ==
    /\ \A i \in 1 .. Len(calls) :
          /\ calls[i].slot <= Len(stack)
          /\ IsTable(stack[calls[i].slot])
          /\ Range(calls[i].order) = Tab(calls[i])
          /\ i > 1 => calls[i].slot = calls[i - 1].slot + Held(calls[i - 1]) + 1
    /\ calls # <<>> /\ at \notin {"error", "undefined"} =>
          Len(stack) = Caller.slot + Held(Caller) + (IF at \in {"enter", "emitted"} THEN 1 ELSE 0)
    /\ at = "done" => stack = <<Table(1)>>

\* Every entry of an object is written, and none twice.
EntriesOnce ==
    at = "object" =>
      /\ Caller.done <= Len(Caller.order)
      /\ KnownKey(Caller, FromTop(1)) /\ ~HasNext(Caller, FromTop(1)) => Caller.done = Len(Caller.order)

\* "all keys are consecutive integers starting from 1" (the comment on the
\* scan): what is written as an array has those keys and no others.
ArrayMeansIndices ==
    calls # <<>> /\ Caller.kind = "array" =>
        {e[1] : e \in Tab(Caller)} = {Index(i) : i \in 1 .. Caller.size}

\* Conversion ends in a Lua error only in a table that has a number as a key
\* and is no array.
ErrorMeansMixed ==
    at = "error" => /\ \E e \in Tab(Caller) : e[1].ty = "index" \/ IsAtomIn(e[1], Num)
                    /\ Sequential(Tab(Caller)) # 1 .. Cardinality(Tab(Caller))

\* A table may contain itself: the depth limit ends the recursion.
Termination == <>(at \in {"done", "error", "undefined"})
=============================================================================
