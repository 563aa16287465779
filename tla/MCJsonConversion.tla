-------------------------- MODULE MCJsonConversion --------------------------
(***************************************************************************)
(* Instances of JsonConversion on small well-formed documents.             *)
(***************************************************************************)
EXTENDS JsonConversion, JsonDocuments

CONSTANTS s1, s2, d1, d2, n1, t1, h1

MCDigits  == <<d1, d2>>
MCDecimal == [x \in {n1} |-> t1]
MCIndexOf == [x \in {s1, s2, d1, d2, t1} |-> IF x = d1 THEN 1 ELSE IF x = d2 THEN 2 ELSE 0]
MCKept    == [x \in {h1} |-> s2]

\* No array of the document has a null among its elements.
RECURSIVE NoNullElement(_)
NoNullElement(d) ==
    CASE d.doc = "array"  -> \A i \in DOMAIN d.items :
                                d.items[i] # Leaf("null") /\ NoNullElement(d.items[i])
      [] d.doc = "object" -> \A i \in DOMAIN d.items : NoNullElement(d.items[i][2])
      [] OTHER -> TRUE

\* Two levels in all combinations, and some documents with a third one.
Docs      == Nest(Nest({Leaf(n1), Leaf("null")}, {s1, s2}), {s1, s2})
                \cup {Arr(<<d>>) : d \in Nest(Nest({Leaf(n1)}, {s1}), {s1})}
MCDocuments == {[text |-> Render(d), layout |-> LayoutFrom(d, 1, 1)] : d \in Docs}
DocTexts    == {d.text : d \in MCDocuments}

-----------------------------------------------------------------------------
QuoteOf == [v \in {Atom(n1)} |-> t1]
LabelOf == [k \in {Atom(s1), Atom(s2)} |-> k.v]

\* A plain document is one without a null in an array, and the texts it is
\* written as are those of the tree it denotes.
ASSUME PlainDocumentsDenote ==
    \A d \in Docs :
        LET t == Render(d)
            l == LayoutFrom(d, 1, 1)
        IN  /\ Plain(t, l) <=> d.doc # "leaf" /\ NoNullElement(d)
            /\ Plain(t, l) => W!TableTexts(HeapOf(t, l))[MaxNesting + 1][1] =
                                 Writings(Prune(Denote(d), MaxNesting + 1), QuoteOf, LabelOf)
=============================================================================
