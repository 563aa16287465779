---------------------------- MODULE JsonWritings ----------------------------
(***************************************************************************)
(* The JSON texts of the tables of a heap: what the writer promises.       *)
(***************************************************************************)
EXTENDS JsonSerializer

\* An entry with a JSON text of its own: the key is no string that reads as an index
\* or needs an escape, as keys are written without any, and the value is no string
\* that needs an escape the code does not know.
PlainEntry(e) ==
    /\ IsAtomIn(e[1], Str) => IndexOf[e[1].v] = 0 /\ e[1].v \notin Unsafe
    /\ IsAtomIn(e[2], Str) => e[2].v \notin Unsafe \ Escaped

PlainHeaps == {h \in Heaps : \A t \in Range(h) : \A e \in t : PlainEntry(e)}

\* A sequence has the keys 1 .. n and no others.
IsSequence(t) == t # {} /\ {e[1] : e \in t} = {Index(i) : i \in 1 .. Cardinality(t)}

\* Numbers are written as strings.
Lexeme(v) ==
    IF v.ty # "atom" THEN "null" ELSE IF v.v \in Num THEN Decimal[v.v] ELSE v.v

\* A key that is no string and no number is written as "unknown".
Name(k) ==
    IF k.ty = "index" THEN Digits[k.n]
    ELSE IF k.ty = "atom" /\ k.v \in Num THEN Decimal[k.v]
    ELSE IF k.ty = "atom" /\ k.v \in Str THEN k.v ELSE "unknown"

\* The texts of a value, given those of the tables.
ValueTexts(texts, v) == IF IsTable(v) THEN texts[v.id] ELSE {<<Lexeme(v)>>}

\* What stands before the k-th value of a list.
Lead(o, k, sequence) ==
    (IF k = 1 THEN <<>> ELSE <<",">>) \o (IF sequence THEN <<>> ELSE <<Name(o[k][1]), ":">>)

Lists(texts, o, k, shorter, sequence) ==
    UNION {{w \o Lead(o, k, sequence) \o x : x \in ValueTexts(texts, o[k][2])} : w \in shorter}

Bracketed(w, sequence) == IF sequence THEN <<"[">> \o w \o <<"]">> ELSE <<"{">> \o w \o <<"}">>

\* ListTexts(texts, o)[k]: the texts of the first k entries in order o.
ListTexts(texts, o) ==
    LET lists[k \in 0 .. Len(o)] ==
          IF k = 0 THEN {<<>>} ELSE Lists(texts, o, k, lists[k - 1], IsSequence(Range(o)))
    IN  lists

\* The texts of table t: its entries in an order lua_next may visit them in.
EntryTexts(texts, t) ==
    UNION {{Bracketed(w, IsSequence(t)) : w \in ListTexts(texts, o)[Len(o)]} : o \in Orders(t)}

\* TableTexts(h)[n][j]: the texts of table j of h, n levels of it; a table no
\* level of which is written is "{}".
TableTexts(h) ==
    LET levels[n \in 0 .. MaxNesting + 1] ==
          IF n = 0 THEN [j \in DOMAIN h |-> {<<"{", "}">>}]
          ELSE [j \in DOMAIN h |-> EntryTexts(levels[n - 1], h[j])]
    IN  levels

(***************************************************************************)
(* A conversion of plain tables that ends leaves a JSON text of the first  *)
(* table: a sequence is an array in the order of its indices, any other    *)
(* table an object with each entry once, and what lies deeper than the     *)
(* limit is "{}", tables that contain themselves included.                 *)
(***************************************************************************)
OutputDenotes ==
    at = "done" /\ heap \in PlainHeaps => out \in TableTexts(heap)[MaxNesting + 1][1]
=============================================================================
