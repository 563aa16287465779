---------------------------- MODULE MCJsonParser ----------------------------
(***************************************************************************)
(* Instances of JsonParser: every short text, every document with one      *)
(* lexeme lost, every small well-formed document, and documents nested as  *)
(* deep as MAX_JSON_DEPTH.  The well-formed documents are trees; what a    *)
(* tree denotes as a Lua value is the reference for what parse_json leaves *)
(* on the stack.                                                           *)
(***************************************************************************)
EXTENDS JsonLayouts, JsonDocuments

CONSTANTS s1, s2, n1, h1

\* h1 is a literal with a \uXXXX; what the code makes of it is s2.
MCKept == [x \in {h1} |-> s2]

Docs0 == {Leaf(n1), Leaf("null")}
Docs1 == Nest(Docs0, {s1, s2})
Docs2 == Nest(Docs1, {s1, s2}) \cup {Leaf(x) : x \in {s1, s2, "true", "false"}}

WideDocs     == Nest({Wide, Leaf(n1)}, {s1, s2})
HexDocs      == Nest({Leaf(h1), Leaf(n1)}, {s1, h1})
DocTexts     == {Render(d) : d \in Docs2}
WideDocTexts == {Render(d) : d \in WideDocs}
HexDocTexts  == {Render(d) : d \in HexDocs}
Meaning      == {<<Render(d), Denote(d)>> : d \in Docs2 \cup WideDocs \cup HexDocs}

\* Every text of up to four lexemes, and every small document with one lost.
Alphabet   == Punct \cup {s1, h1, "null", "badstr", "other"}
ShortTexts == Upto(Alphabet, 4)
LostLexeme == UNION {{RemoveAt(t, i) : i \in DOMAIN t} : t \in {Render(d) : d \in Nest(Nest({Leaf("badnum")}, {s1, s2}), {s1, s2})}}
AnyTexts   == ShortTexts \cup LostLexeme \cup DocTexts

\* Objects, and arrays, nested k deep for every k up to beyond the limit.
Chain(open, close, k) == [i \in 1 .. k * Len(open) |-> open[((i - 1) % Len(open)) + 1]] \o <<n1>>
                           \o [i \in 1 .. k |-> close]
DeepTexts == {Chain(<<"{", s1, ":">>, "}", k) : k \in 0 .. MaxDepth + 2}
                \cup {Chain(<<"[">>, "]", k) : k \in 0 .. MaxDepth + 2}

Laid == {[text |-> Render(d), layout |-> LayoutFrom(d, 1, 1)] : d \in Docs2}
MCDocuments == Laid

\* A layout denotes what its document does.
ASSUME LayoutsDenote ==
    \A d \in Docs2 : LET t == Render(d)
                         l == LayoutFrom(d, 1, 1)
                     IN  Unfold(ValueAt(t, l, 1), HeapOf(t, l), MaxDepth + 2) = Denote(d)

\* parse_json never pushes more than the LUA_MINSTACK slots it may use without
\* lua_checkstack, which it does not call (api_incr_top's check in lapi.cpp).
SlotsReserved == Len(stack) <= MinStack

(***************************************************************************)
(* A well-formed document within the depth limit is read completely,       *)
(* whatever malformed texts do to the parser otherwise, and                *)
(* the one value parse_json leaves on the stack is the value the document  *)
(* denotes: nothing is lost, misplaced or invented by the recursion.       *)
(***************************************************************************)
ResultIsDocument ==
  text \in DocTexts \cup WideDocTexts \cup HexDocTexts =>
    /\ pc = "done" =>
         /\ pos = Len(text) + 1
         /\ Len(stack) = 1
         /\ <<text, Unfold(stack[1], heap, MaxDepth + 2)>> \in Meaning
    /\ pc \notin {"error", "undefined"}
=============================================================================
