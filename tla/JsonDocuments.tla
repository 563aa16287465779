---------------------------- MODULE JsonDocuments ---------------------------
(***************************************************************************)
(* Reference definitions for the JSON reader and writer: documents as      *)
(* trees, the text of a document, the Lua value it denotes, and the texts  *)
(* a Lua value may be written as.  A Lua value is a tree here: a table is  *)
(* the set of its entries.                                                 *)
(***************************************************************************)
EXTENDS LuaValues, FiniteSets, FiniteSetsExt, SequencesExt

(* Documents: a leaf, an array of documents, an object of members.         *)
Leaf(x)  == [doc |-> "leaf", x |-> x]
Wide     == [doc |-> "wide"]
Arr(s)   == [doc |-> "array", items |-> s]
Obj(s)   == [doc |-> "object", items |-> s]    \* items are <<key, document>>

Upto(S, n) == UNION {[1 .. k -> S] : k \in 0 .. n}

\* Documents up to one level deeper than those of D, with keys from K.
Nest(D, K) ==
    D \cup {Arr(s) : s \in Upto(D, 2)} \cup {Obj(s) : s \in Upto(K \X D, 2)}

Commas(parts) ==
    FlattenSeq([i \in 1 .. Len(parts) |-> (IF i = 1 THEN <<>> ELSE <<",">>) \o parts[i]])

RECURSIVE Render(_)
Render(d) ==
    CASE d.doc = "leaf"   -> <<d.x>>
      [] d.doc = "wide"   -> <<"wide", "tail">>
      [] d.doc = "array"  -> <<"[">> \o Commas([i \in DOMAIN d.items |-> Render(d.items[i])]) \o <<"]">>
      [] d.doc = "object" -> <<"{">> \o Commas([i \in DOMAIN d.items |->
                                  <<d.items[i][1], ":">> \o Render(d.items[i][2])]) \o <<"}">>

\* The layout of document d whose text begins at p and whose containers are
\* depth deep: that of a container comes before those of its members, in order.
RECURSIVE LayoutFrom(_, _, _)
LayoutFrom(d, p, depth) ==
    IF d.doc \in {"leaf", "wide"} THEN <<>>
    ELSE LET lead    == IF d.doc = "array" THEN 1 ELSE 3
             item(i) == IF d.doc = "array" THEN d.items[i] ELSE d.items[i][2]
             begin[i \in 1 .. Len(d.items)] ==
                 lead + IF i = 1 THEN p ELSE begin[i - 1] + Len(Render(item(i - 1)))
         IN  <<[open |-> p, close |-> p + Len(Render(d)) - 1, depth |-> depth,
                values |-> [i \in 1 .. Len(d.items) |-> begin[i]]]>>
             \o FlattenSeq([i \in 1 .. Len(d.items) |-> LayoutFrom(item(i), begin[i], depth + 1)])

Tree(entries) == [ty |-> "table", entries |-> entries]

\* The Lua value a document denotes.  JSON null is Lua's nil, so it leaves no
\* entry; of equal keys the last one counts.
RECURSIVE Denote(_)
Denote(d) ==
    CASE d.doc = "leaf"   -> IF d.x = "null" THEN Nil ELSE Atom(d.x)
      [] d.doc = "wide"   -> Atom("wide")
      [] d.doc = "array"  -> Tree(
            {<<Index(i), Denote(d.items[i])>> : i \in {j \in DOMAIN d.items : d.items[j] # Leaf("null")}})
      [] d.doc = "object" -> Tree(
            {<<Atom(d.items[i][1]), Denote(d.items[i][2])>> :
                i \in {j \in DOMAIN d.items :
                         /\ d.items[j][2] # Leaf("null")
                         /\ \A k \in j + 1 .. Len(d.items) : d.items[k][1] # d.items[j][1]}})

\* The tree of value v in heap h, with tables below level n left empty.
RECURSIVE Unfold(_, _, _)
Unfold(v, h, n) ==
    IF ~IsTable(v) THEN v
    ELSE IF n = 0 THEN Tree({})
    ELSE Tree({<<e[1], Unfold(e[2], h, n - 1)>> : e \in h[v.id]})

\* The same cut on a tree.
RECURSIVE Prune(_, _)
Prune(v, n) ==
    IF ~IsTable(v) THEN v
    ELSE IF n = 0 THEN Tree({})
    ELSE Tree({<<e[1], Prune(e[2], n - 1)>> : e \in v.entries})

IsSequence(entries) ==
    entries # {} /\ {e[1] : e \in entries} = {Index(i) : i \in 1 .. Cardinality(entries)}

\* One choice from each of the sets S[1], S[2], ...
Selections(S) == {f \in [DOMAIN S -> UNION Range(S)] : \A i \in DOMAIN S : f[i] \in S[i]}

\* The texts a value may be written as: a sequence is an array; any other
\* table is an object, its members in any order.  quote gives the text of a
\* value that is no table and label that of a key.
RECURSIVE Writings(_, _, _)
Writings(v, quote, label) ==
    IF ~IsTable(v) THEN {<<quote[v]>>}
    ELSE IF IsSequence(v.entries)
      THEN LET item(i) == CHOOSE e \in v.entries : e[1] = Index(i)
               S == [i \in 1 .. Cardinality(v.entries) |-> Writings(item(i)[2], quote, label)]
           IN {<<"[">> \o Commas(f) \o <<"]">> : f \in Selections(S)}
      ELSE LET S(p) == [i \in DOMAIN p |->
                          {<<label[p[i][1]], ":">> \o w : w \in Writings(p[i][2], quote, label)}]
           IN UNION {{<<"{">> \o Commas(f) \o <<"}">> : f \in Selections(S(p))} :
                        p \in SetToSeqs(v.entries)}
=============================================================================
