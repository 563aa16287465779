-------------------------- MODULE MCMapperTemplate --------------------------
(***************************************************************************)
(* Payloads of at most two endpoints, subsets one or two levels deep, and  *)
(* the tables they meet: with nested objects, arrays with and without      *)
(* holes, and markers.                                                     *)
(***************************************************************************)
EXTENDS MapperTemplate, SequencesExt

Object(d, b, o) == [ty |-> "object", direct |-> d, body |-> b, odd |-> o]

Texts == {Nothing, [ty |-> "string"], [ty |-> "number"]}
         \cup {Object(d, b, FALSE) : d \in BOOLEAN, b \in {"none", "table", "string", "number"}}
         \cup {Object(TRUE, "none", TRUE)}

MCPayloads ==
    {Leaf, Obj(<<>>)}
    \cup {Obj("default" :> x) : x \in Texts}
    \cup {Obj("other" :> x @@ "default" :> y) :
             x \in {Nothing, Object(TRUE, "none", FALSE)},
             y \in {Nothing, Object(FALSE, "none", FALSE), Object(TRUE, "none", FALSE)}}

MCSpecs ==
    LET a == Obj("a" :> Flag(TRUE))
        star == Obj("*" :> a)
    IN  {Leaf, Flag(TRUE), Flag(FALSE), Obj(<<>>), a, star, Obj("a" :> Flag(FALSE)), Obj("a" :> Leaf),
         Obj("b" :> a), Obj("b" :> star), Obj("b" :> Obj("*" :> Flag(TRUE))), Obj("*" :> Flag(TRUE))}

Item == Obj("a" :> Leaf @@ "c" :> Null)
MCOutputs ==
    {Obj(<<>>), Item, Obj("a" :> EmptyArray @@ "b" :> Item),
     Obj("b" :> Arr(<<Item, Null, Obj("c" :> Leaf)>>)), Obj("b" :> Leaf @@ "c" :> Leaf),
     Obj("b" :> Holes(2 :> Item)), Obj("b" :> Holes(1 :> Item @@ 3 :> Null))}

-----------------------------------------------------------------------------
\* Every table of the shapes these have and of those selected from them.
Items  == {Obj(<<>>), Item, Obj("a" :> Leaf), Obj("c" :> Leaf), Obj("c" :> Null)}
Arrays == {Arr(s) : s \in SeqOf({Item, Null, Obj("a" :> Leaf), Obj("c" :> Leaf)}, 3)}
Gappy  == UNION {{Holes(f) : f \in [D -> {Item, Null, Obj("a" :> Leaf), Obj("c" :> Leaf)}]} :
                    D \in {{2}, {3}, {1, 3}, {2, 3}}}
Inner  == {Leaf, Null, EmptyArray} \cup Items \cup Arrays \cup Gappy
MCValues ==
    {Tag("null"), Tag("array")} \cup Inner
    \cup {Obj("b" :> x) : x \in Inner} \cup {Obj("a" :> x) : x \in {EmptyArray}}
    \cup {Obj("a" :> EmptyArray @@ "b" :> x) : x \in Inner} \cup {Obj("b" :> Leaf @@ "c" :> Leaf)}

MCResults == {Nil} \cup MCValues \cup {convert_nulls[v] : v \in MCValues}

RECURSIVE DepthOf(_)
DepthOf(v) == IF IsTable(v) /\ Keys(v) # {} THEN 1 + Max({DepthOf(v.at[k]) : k \in Keys(v)}) ELSE 0
MCDepth == [v \in MCValues \cup MCResults |-> DepthOf(v)]
=============================================================================
