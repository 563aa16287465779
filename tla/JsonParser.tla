----------------------------- MODULE JsonParser -----------------------------
(***************************************************************************)
(* The JSON reader that sample/sgx-luau/src/luau_wrapper.cpp registers as  *)
(* the global parse_json: a recursive-descent parser in C++ that builds    *)
(* Lua tables through the Lua API, with the tables under construction on   *)
(* the Lua stack of the calling C function.                                *)
(*                                                                         *)
(* The text is a sequence of lexemes.  White space is dropped: the code    *)
(* skips it before every character it tests.  A string or a number that    *)
(* parse_json_string or parse_json_number gives up on ("badstr", "badnum") *)
(* stands for the characters consumed up to the point where it gives up;   *)
(* what follows is the rest of the text.  "other" is a character that no   *)
(* branch consumes: punctuation excepted, the first letter of a            *)
(* misspelled literal, a stray byte.  A JSON string with a character       *)
(* outside ASCII is the two lexemes "wide" "tail": char is signed in the   *)
(* x86-64 build, so its first byte above 0x7f compares as less than 0x20,  *)
(* parse_json_string gives up there and leaves json at that byte.  A       *)
(* literal is the string it stands for, except that one with a \uXXXX is a *)
(* lexeme of its own: the code keeps the escape as it is written.          *)
(*                                                                         *)
(* The C++ recursion is the variable frames, one record per active call    *)
(* of parse_json_array or parse_json_object; a call's depth argument is    *)
(* the number of calls active when it is made.                             *)
(***************************************************************************)
EXTENDS LuaValues, FiniteSets

CONSTANTS
    Hex,        \* string literals with a \uXXXX in them
    Kept,       \* what parse_json_string makes of each of these
    Texts,      \* the texts parse_json may be given
    MaxDepth,   \* MAX_JSON_DEPTH
    MinStack    \* LUA_MINSTACK, the slots a C function may push unasked

Punct   == {"{", "}", "[", "]", ",", ":"}
Literal == {"true", "false", "null"}
Reject  == {"badstr", "badnum", "wide", "tail", "other"}
Lexeme  == Str \cup Hex \cup Num \cup Punct \cup Literal \cup Reject

ASSUME TextsAssumption == Texts \subseteq Seq(Lexeme)
ASSUME LexemeAssumption ==
    /\ Str \cap (Num \cup Punct \cup Literal \cup Reject \cup {"eof"}) = {}
    /\ Num \cap (Punct \cup Literal \cup Reject \cup {"eof"}) = {}
    /\ Hex \cap (Str \cup Num \cup Punct \cup Literal \cup Reject \cup {"eof"}) = {}
    /\ Kept \in [Hex -> Str]
ASSUME DepthAssumption == MaxDepth \in Nat /\ MinStack \in Nat \ {0}

VARIABLES
    text,       \* the argument of parse_json
    pos,        \* the pointer json, as an index into text
    pc,         \* where the innermost call is
    frames,     \* active calls of parse_json_array / parse_json_object
    stack,      \* the Lua stack above the argument, bottom first
    heap,       \* the tables created so far; heap[t] is a set of entries
    stray       \* history: keys read by an object that then stopped

vars == <<text, pos, pc, frames, stack, heap, stray>>

Frame == [kind : {"array", "object"}, base : Nat \ {0}, tab : Nat \ {0},
          index : Nat \ {0}]

-----------------------------------------------------------------------------
Look       == IF pos <= Len(text) THEN text[pos] ELSE "eof"
Top        == frames[Len(frames)]
Slot(i)    == stack[Len(stack) + 1 - i]     \* Lua's index -i
Closer(k)  == IF k = "array" THEN "]" ELSE "}"
Opener(k)  == IF k = "array" THEN "[" ELSE "{"

\* What the scalar branches of parse_json_value push for a lexeme.
Scalar(x) ==
    IF x \in Hex THEN Atom(Kept[x])
    ELSE IF x \in Str \cup Num \cup {"true", "false"} THEN Atom(x) ELSE Nil

\* Lexemes a scalar branch moves past; the others stay for the caller.
Quoted   == Str \cup Hex \cup {"badstr", "wide"}
Consumed == Quoted \cup Num \cup Literal \cup {"badnum"}

Init ==
    /\ text \in Texts
    /\ pos = 1
    /\ pc = "value"
    /\ frames = <<>>
    /\ stack = <<>>
    /\ heap = <<>>
    /\ stray = 0

\* parse_json_value on anything but a bracket it may enter: one value is
\* pushed, nil when there is nothing it recognises.
ParseScalar ==
    /\ pc = "value"
    /\ \/ Look \notin {"[", "{"}
       \/ Len(frames) > MaxDepth
    /\ stack' = Append(stack, Scalar(Look))
    /\ pos' = IF Look \in Consumed THEN pos + 1 ELSE pos
    /\ pc' = "return"
    /\ UNCHANGED <<text, frames, heap, stray>>

\* Mutant: elements counted from 0.
OpenTableFromZero(kind) ==
    /\ pc = "value"
    /\ Look = Opener(kind)
    /\ Len(frames) <= MaxDepth
    /\ heap' = Append(heap, {})
    /\ stack' = Append(stack, Table(Len(heap) + 1))
    /\ frames' = Append(frames, [kind |-> kind, base |-> Len(stack) + 1,
                                 tab |-> Len(heap) + 1, index |-> 0])
    /\ pos' = pos + 1
    /\ pc' = "opened"
    /\ UNCHANGED <<text, stray>>

\* Mutant: the depth test is off by one.
OpenTableTooDeep(kind) ==
    /\ pc = "value"
    /\ Look = Opener(kind)
    /\ Len(frames) <= MaxDepth + 1
    /\ heap' = Append(heap, {})
    /\ stack' = Append(stack, Table(Len(heap) + 1))
    /\ frames' = Append(frames, [kind |-> kind, base |-> Len(stack) + 1,
                                 tab |-> Len(heap) + 1, index |-> 1])
    /\ pos' = pos + 1
    /\ pc' = "opened"
    /\ UNCHANGED <<text, stray>>

\* The head of parse_json_array and parse_json_object: consume the bracket,
\* lua_newtable.
OpenTable(kind) ==
    /\ pc = "value"
    /\ Look = Opener(kind)
    /\ Len(frames) <= MaxDepth
    /\ heap' = Append(heap, {})
    /\ stack' = Append(stack, Table(Len(heap) + 1))
    /\ frames' = Append(frames, [kind |-> kind, base |-> Len(stack) + 1,
                                 tab |-> Len(heap) + 1, index |-> 1])
    /\ pos' = pos + 1
    /\ pc' = "opened"
    /\ UNCHANGED <<text, stray>>

\* An empty container returns at once; otherwise the loop starts.
Opened ==
    /\ pc = "opened"
    /\ \/ /\ Look = Closer(Top.kind)
          /\ pos' = pos + 1
          /\ frames' = Pop(frames, 1)
          /\ pc' = "return"
       \/ /\ Look # Closer(Top.kind)
          /\ pc' = "item"
          /\ UNCHANGED <<pos, frames>>
    /\ UNCHANGED <<text, stack, heap, stray>>

\* The array loop: stop at the end of the text, else parse a value.
ArrayItem ==
    /\ pc = "item"
    /\ Top.kind = "array"
    /\ \/ /\ Look = "eof"
          /\ frames' = Pop(frames, 1)
          /\ pc' = "return"
       \/ /\ Look # "eof"
          /\ pc' = "value"
          /\ UNCHANGED frames
    /\ UNCHANGED <<text, pos, stack, heap, stray>>

\* Mutant: what is no key is skipped without being consumed.
ObjectKeySkips ==
    /\ pc = "item"
    /\ Top.kind = "object"
    /\ Look \in Quoted
    /\ stack' = Append(stack, Scalar(Look))
    /\ pos' = pos + 1
    /\ pc' = "colon"
    /\ UNCHANGED <<text, frames, heap, stray>>

\* The object loop: a member starts with a quote, anything else ends it.
ObjectKey ==
    /\ pc = "item"
    /\ Top.kind = "object"
    /\ \/ /\ Look \in Quoted
          /\ stack' = Append(stack, Scalar(Look))
          /\ pos' = pos + 1
          /\ pc' = "colon"
          /\ UNCHANGED frames
       \/ /\ Look \notin Quoted
          /\ frames' = Pop(frames, 1)
          /\ pc' = "return"
          /\ UNCHANGED <<stack, pos>>
    /\ UNCHANGED <<text, heap, stray>>

\* After a key: a colon and a value, or the loop ends with the key still on
\* the stack, above the table.
ObjectColon ==
    /\ pc = "colon"
    /\ \/ /\ Look = ":"
          /\ pos' = pos + 1
          /\ pc' = "value"
          /\ UNCHANGED <<frames, stray>>
       \/ /\ Look # ":"
          /\ frames' = Pop(frames, 1)
          /\ stray' = stray + 1
          /\ pc' = "return"
          /\ UNCHANGED pos
    /\ UNCHANGED <<text, stack, heap>>

\* Mutant: index is not incremented.
StoreElementSameIndex ==
    /\ pc = "return"
    /\ frames # <<>>
    /\ Top.kind = "array"
    /\ IsTable(Slot(2))
    /\ heap' = [heap EXCEPT ![Slot(2).id] = Assign(@, Index(Top.index), Slot(1))]
    /\ stack' = Pop(stack, 1)
    /\ pc' = "separator"
    /\ UNCHANGED <<text, pos, frames, stray>>

\* lua_rawseti(L, -2, index++).  On anything but a table the API contract is
\* broken and nothing is defined.
StoreElement ==
    /\ pc = "return"
    /\ frames # <<>>
    /\ Top.kind = "array"
    /\ IF IsTable(Slot(2))
         THEN /\ heap' = [heap EXCEPT ![Slot(2).id] = Assign(@, Index(Top.index), Slot(1))]
              /\ stack' = Pop(stack, 1)
              /\ frames' = [frames EXCEPT ![Len(frames)].index = @ + 1]
              /\ pc' = "separator"
         ELSE pc' = "undefined" /\ UNCHANGED <<heap, stack, frames>>
    /\ UNCHANGED <<text, pos, stray>>

\* Mutants: the store pops n slots instead of the key and the value.
StoreMemberPops(n) ==
    /\ pc = "return"
    /\ frames # <<>>
    /\ Top.kind = "object"
    /\ IsTable(Slot(3)) /\ Slot(2) # Nil
    /\ heap' = [heap EXCEPT ![Slot(3).id] = Assign(@, Slot(2), Slot(1))]
    /\ stack' = Pop(stack, n)
    /\ pc' = "separator"
    /\ UNCHANGED <<text, pos, frames, stray>>

StoreMemberPopsTable == StoreMemberPops(3)
StoreMemberKeepsKey  == StoreMemberPops(1)

\* lua_settable(L, -3).  A nil key, or a target that is no table, raises a
\* Lua error, which unwinds every frame of the parser.
StoreMember ==
    /\ pc = "return"
    /\ frames # <<>>
    /\ Top.kind = "object"
    /\ \/ /\ IsTable(Slot(3)) /\ Slot(2) # Nil
          /\ heap' = [heap EXCEPT ![Slot(3).id] = Assign(@, Slot(2), Slot(1))]
          /\ stack' = Pop(stack, 2)
          /\ pc' = "separator"
       \/ /\ ~IsTable(Slot(3)) \/ Slot(2) = Nil
          /\ pc' = "error"
          /\ UNCHANGED <<heap, stack>>
    /\ UNCHANGED <<text, pos, frames, stray>>

\* After an element: a comma continues the loop, the closing bracket ends it,
\* and so does anything else, silently and without being consumed.
Separator ==
    /\ pc = "separator"
    /\ \/ /\ Look = ","
          /\ pos' = pos + 1
          /\ pc' = "item"
          /\ UNCHANGED frames
       \/ /\ Look # ","
          /\ pos' = IF Look = Closer(Top.kind) THEN pos + 1 ELSE pos
          /\ frames' = Pop(frames, 1)
          /\ pc' = "return"
    /\ UNCHANGED <<text, stack, heap, stray>>

\* The next call of the Lua API pushes a value, a table or a key.
Pushes == pc = "value" \/ (pc = "item" /\ Top.kind = "object" /\ Look \in Quoted)

\* No lua_checkstack asks for the slot: with LUA_MINSTACK of them in use nothing
\* is defined, though the stack may happen to be larger.
Overrun ==
    /\ Pushes
    /\ Len(stack) >= MinStack
    /\ pc' = "undefined"
    /\ UNCHANGED <<text, pos, frames, stack, heap, stray>>

\* parse_json returns the value on top of the stack.
Return ==
    /\ pc = "return"
    /\ frames = <<>>
    /\ pc' = "done"
    /\ UNCHANGED <<text, pos, frames, stack, heap, stray>>

Next ==
    \/ ParseScalar
    \/ \E kind \in {"array", "object"} : OpenTable(kind)
    \/ Opened
    \/ ArrayItem
    \/ ObjectKey
    \/ ObjectColon
    \/ StoreElement
    \/ StoreMember
    \/ Separator
    \/ Overrun
    \/ Return

\* The parser is straight-line C++ on one thread: it keeps taking steps.
Spec == Init /\ [][Next]_vars /\ WF_vars(Next)

-----------------------------------------------------------------------------
Running == {"value", "opened", "item", "colon", "return", "separator"}
Final   == {"done", "error", "undefined"}

TypeOK ==
    /\ text \in Texts
    /\ pos \in Nat \ {0}
    /\ pc \in Running \cup Final
    /\ frames \in Seq(Frame)
    /\ stack \in Seq(Value)
    /\ heap \in Seq(Entries)
    /\ stray \in Nat

\* Slots between a container's table and the table of a container inside it.
Step(kind) == IF kind = "array" THEN 1 ELSE 2

\* How many slots above the innermost container's own table are in use when
\* the parser is at pc and every slot is accounted for.
Pending(kind) ==
    IF pc = "return" THEN Step(kind)
    ELSE IF pc = "value" THEN Step(kind) - 1
    ELSE IF pc = "colon" THEN 1
    ELSE 0

(***************************************************************************)
(* Whatever the text, no container ever loses the table it is filling:     *)
(* the table lua_newtable pushed for each active call is still in the slot *)
(* it was pushed to, under the tables of the calls it made, and the slots  *)
(* the next lua_rawseti(-2) or lua_settable(-3) uses all lie at or above   *)
(* it.  The parser pops only what its own frame, or a callee, pushed.      *)
(***************************************************************************)
TablesStayPut ==
    pc \in Running =>
      /\ \A i \in 1 .. Len(frames) :
            /\ frames[i].base <= Len(stack)
            /\ stack[frames[i].base] = Table(frames[i].tab)
      /\ \A i, j \in 1 .. Len(frames) :
            i < j => frames[i].base + Step(frames[i].kind) <= frames[j].base
      /\ frames # <<>> => Top.base + Pending(Top.kind) <= Len(stack)

(***************************************************************************)
(* As long as no object has stopped between a key and its colon, the Lua   *)
(* stack is exactly the tables under construction and the keys waiting for *)
(* their values: every store of parse_json_array and parse_json_object     *)
(* goes to the table of the call that makes it, parse_json leaves one      *)
(* value, a Lua error means a key that was no valid string, and the one    *)
(* thing undefined is a push beyond the slots of a C function.  (A stray   *)
(* key stays on the stack and shifts every slot the enclosing calls        *)
(* address by -2 and -3.)                                                  *)
(***************************************************************************)
StackBalanced ==
    stray = 0 =>
      /\ pc \in Running /\ frames # <<>> =>
            /\ frames[1].base = 1
            /\ \A i \in 1 .. Len(frames) - 1 :
                  frames[i + 1].base = frames[i].base + Step(frames[i].kind)
            /\ Len(stack) = Top.base + Pending(Top.kind)
      /\ pc = "done" => Len(stack) = 1
      /\ pc = "error" => IsTable(Slot(3)) /\ Slot(2) = Nil
      /\ pc = "undefined" => Len(stack) >= MinStack

(***************************************************************************)
(* What MAX_JSON_DEPTH buys: calls at depth 0 .. MaxDepth enter a          *)
(* container, so with no stray key the parser never needs more slots       *)
(* than a table and a key per level and one value.  This is the number a   *)
(* lua_checkstack in parse_json would have to ask for.                     *)
(***************************************************************************)
SlotDemand == stray = 0 => Len(stack) <= 2 * (MaxDepth + 1) + 1

\* Every text is read to a result or a Lua error: no branch that pushes nil
\* without consuming a character lets a loop run for ever.
Termination == <>(pc \in Final)
=============================================================================
