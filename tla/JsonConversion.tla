--------------------------- MODULE JsonConversion ---------------------------
(***************************************************************************)
(* The reader and the writer together, as run_simple_json_test in          *)
(* luau_wrapper.cpp uses them and as a mapper does that returns what       *)
(* parse_json gave it: a text is read by parse_json inside lua_pcall, and  *)
(* the table it leaves is converted back by lua_table_to_json.             *)
(***************************************************************************)
EXTENDS JsonLayouts

CONSTANTS
    Digits, Decimal, IndexOf, Unsafe, Escaped, MaxNesting, Slots    \* as in JsonSerializer

VARIABLES calls, at, out                            \* of JsonSerializer

-----------------------------------------------------------------------------
\* Documents the writer takes for what they are: tables, without a null in an
\* array, a key that reads as an index or needs an escape, or a string with an
\* escape the writer does not know.
Plain(t, l) ==
    /\ l # <<>>
    /\ \A k \in DOMAIN l : \A j \in DOMAIN l[k].values :
          LET p == l[k].values[j]
          IN  /\ IF KindOf(t, l, k) = "array"
                 THEN j <= Len(Digits) /\ ValueAt(t, l, p) # Nil
                 ELSE IndexOf[At(t, p - 2)] = 0 /\ At(t, p - 2) \notin Unsafe
              /\ At(t, p) \in Str => At(t, p) \notin Unsafe \ Escaped

PlainDocuments == {d \in Documents : Plain(d.text, d.layout)}
DocumentHeaps  == {HeapOf(d.text, d.layout) : d \in PlainDocuments}

W == INSTANCE JsonWritings WITH Heaps <- DocumentHeaps

ASSUME ConversionAssumption ==
    /\ Digits \in Seq(Str) /\ Decimal \in [Num -> Str]
    /\ IndexOf \in [Str -> Nat] /\ \A i \in DOMAIN Digits : IndexOf[Digits[i]] = i
    /\ \A s \in W!Range(Digits) \cup W!Range(Decimal) : s \notin Unsafe
    /\ MaxNesting \in Nat /\ Slots \in Nat \ {0}

-----------------------------------------------------------------------------
cvars == <<text, pos, pc, frames, stack, heap, stray, calls, at, out>>

ConversionInit ==
    /\ Init
    /\ calls = <<>>
    /\ at = "parsing"
    /\ out = <<>>

Parse ==
    /\ at = "parsing"
    /\ Next
    /\ UNCHANGED <<calls, at, out>>

\* lua_pcall leaves the one value parse_json returns.
Convert ==
    /\ at = "parsing"
    /\ pc = "done"
    /\ IsTable(Slot(1))
    /\ stack' = <<Slot(1)>>
    /\ at' = "enter"
    /\ UNCHANGED <<text, pos, pc, frames, heap, stray, calls, out>>

\* parse_json raised an error, or its result is no table.
NothingToConvert ==
    /\ at = "parsing"
    /\ \/ pc = "error"
       \/ pc = "done" /\ ~IsTable(Slot(1))
    /\ at' = "skipped"
    /\ UNCHANGED <<text, pos, pc, frames, stack, heap, stray, calls, out>>

Write ==
    /\ at # "parsing"
    /\ W!Next
    /\ UNCHANGED <<text, pos, pc, frames, stray>>

ConversionNext == Parse \/ Convert \/ NothingToConvert \/ Write

ConversionSpec == ConversionInit /\ [][ConversionNext]_cvars /\ WF_cvars(ConversionNext)

\* The writer never raises a Lua error: run_simple_json_test calls it outside
\* every lua_pcall.
ConversionCompletes == at # "error"

(***************************************************************************)
(* Reading a plain document and writing it back raises no error, and gives *)
(* a JSON text of what the document denotes: numbers have become strings,  *)
(* an empty array "{}", null members are gone, and what lies below the     *)
(* writer's depth limit is "{}".  Neither pushes beyond its slots on the   *)
(* Lua stack, if the document's containers fit in them.                    *)
(***************************************************************************)
ConvertsBack ==
    \A d \in PlainDocuments : text = d.text =>
        /\ at \notin {"skipped", "error"}
        /\ at = "done" => out \in W!TableTexts(HeapOf(text, d.layout))[MaxNesting + 1][1]
        /\ Fits(d.layout, MinStack) => pc # "undefined"
        /\ Fits(d.layout, Slots) => at # "undefined"
=============================================================================
