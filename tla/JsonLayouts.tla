---------------------------- MODULE JsonLayouts -----------------------------
(***************************************************************************)
(* What a well-formed text means to the reader, without recursion: the     *)
(* layout of a document says of its containers, in the order in which they *)
(* open, where they close, where their values begin and how deep they are. *)
(* Each condition looks at one container, and so does what it denotes.     *)
(* Strings with a \uXXXX or beyond ASCII are left out: parse_json keeps or *)
(* rejects these, so what it leaves is not what such a text denotes.       *)
(***************************************************************************)
EXTENDS JsonParser

CONSTANT Documents    \* texts that are documents, each with its layout

Layouts == Seq([open : Nat \ {0}, close : Nat \ {0}, values : Seq(Nat \ {0}), depth : Nat])

\* The lexeme at p, as Look sees it.
At(t, p)   == IF p <= Len(t) THEN t[p] ELSE "eof"
Opens(t, p) == At(t, p) \in {"[", "{"}
KindOf(t, l, k) == IF At(t, l[k].open) = "[" THEN "array" ELSE "object"
OpenedAt(l, p) == CHOOSE k \in DOMAIN l : l[k].open = p

\* Of the value that begins at p: where the text goes on behind it, and what it
\* is in Lua.  A container is the table numbered like it.
Behind(t, l, p)  == IF Opens(t, p) THEN l[OpenedAt(l, p)].close + 1 ELSE p + 1
ValueAt(t, l, p) == IF Opens(t, p) THEN Table(OpenedAt(l, p)) ELSE Scalar(At(t, p))

\* What stands before value j of container k: a bracket or a comma, and a key
\* and a colon in an object.
Lead(t, l, k)     == IF KindOf(t, l, k) = "array" THEN 1 ELSE 3
Before(t, l, k, j) == IF j = 1 THEN l[k].open ELSE Behind(t, l, l[k].values[j - 1])
KeyOf(t, l, k, j) == IF KindOf(t, l, k) = "array" THEN Index(j) ELSE Atom(At(t, l[k].values[j] - 2))

IsValue(t, l, p, d) ==
    \/ At(t, p) \in Str \cup Num \cup Literal
    \/ Opens(t, p) /\ \E k \in DOMAIN l : l[k].open = p /\ l[k].depth = d

IsLayout(t, l) ==
    /\ l \in Layouts
    /\ IsValue(t, l, 1, 1) /\ Behind(t, l, 1) = Len(t) + 1
    /\ \A i, j \in DOMAIN l : i < j => l[i].open < l[j].open
    /\ \A k \in DOMAIN l :
          LET n == Len(l[k].values)
          IN  /\ Opens(t, l[k].open) /\ l[k].depth <= MaxDepth + 1
              /\ At(t, l[k].close) = Closer(KindOf(t, l, k))
              /\ l[k].close = IF n = 0 THEN l[k].open + 1 ELSE Behind(t, l, l[k].values[n])
              /\ \A j \in 1 .. n :
                    LET p == l[k].values[j]
                    IN  /\ p = Before(t, l, k, j) + Lead(t, l, k) /\ IsValue(t, l, p, l[k].depth + 1)
                        /\ j > 1 => At(t, Before(t, l, k, j)) = ","
                        /\ KindOf(t, l, k) = "object" => At(t, p - 2) \in Str /\ At(t, p - 1) = ":"

ASSUME LayoutAssumption == \A d \in Documents : IsLayout(d.text, d.layout)

\* The entries of container k after n of its members: nil leaves none, and of
\* equal keys the last one counts.
EntriesUpto(t, l, k, n) ==
    {<<KeyOf(t, l, k, j), ValueAt(t, l, l[k].values[j])>> :
        j \in {i \in 1 .. n : /\ ValueAt(t, l, l[k].values[i]) # Nil
                              /\ \A m \in i + 1 .. n : KeyOf(t, l, k, m) # KeyOf(t, l, k, i)}}

HeapOf(t, l) == [k \in DOMAIN l |-> EntriesUpto(t, l, k, Len(l[k].values))]

\* Two slots per container and one for a value are within what is available.
Fits(l, slots) == \A k \in DOMAIN l : 2 * l[k].depth + 1 <= slots

(***************************************************************************)
(* A document within the depth limit is read to its end, without an error, *)
(* and what parse_json leaves is what the document denotes, table by       *)
(* table: nothing is lost, misplaced or invented by the recursion.  Only a *)
(* document nested deeper than the slots of the C function allow may end   *)
(* in a push that is not defined.                                          *)
(***************************************************************************)
ReadsDocument ==
    pc \in Final => \A d \in Documents : text = d.text =>
        \/ /\ pc = "done" /\ pos = Len(text) + 1
           /\ stack = <<ValueAt(text, d.layout, 1)>>
           /\ heap = HeapOf(text, d.layout)
        \/ pc = "undefined" /\ ~Fits(d.layout, MinStack)
=============================================================================
