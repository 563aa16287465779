---------------------------- MODULE MapperValues ----------------------------
(***************************************************************************)
(* The values the mapper script of sample/sgx-luau/production-script.lua   *)
(* handles, as far as it tells them apart: leaves, and tables, which are   *)
(* functions from their keys: objects, arrays, and arrays with holes, which*)
(* parse_json makes of a text with null elements.  The two markers of the  *)
(* script are tables with a field __type; NoSubset is an absent            *)
(* field_subset.                                                           *)
(***************************************************************************)
EXTENDS Integers, Sequences, FiniteSets

Leaf    == [ty |-> "leaf"]
Nil     == [ty |-> "nil"]
Flag(b) == [ty |-> "flag", v |-> b]
Obj(f)  == [ty |-> "object", at |-> f]
Arr(s)  == IF s = <<>> THEN Obj(<<>>) ELSE [ty |-> "array", at |-> s]
NoSubset == [ty |-> "nosubset"]

Holes(f) == [ty |-> "holes", at |-> f]

\* A table with the numbers in DOMAIN f as its keys.
Numbered(f) == IF DOMAIN f = 1 .. Cardinality(DOMAIN f) THEN Arr(f) ELSE Holes(f)

Keys(v)    == DOMAIN v.at
IsTable(v) == v.ty \in {"object", "array", "holes"}

\* subset.is_array: something in it, and a number as the first key.
IsArray(v) == v.ty \in {"array", "holes"}

\* The items ipairs visits: it stops at the first hole.
Run(v) == {i \in Keys(v) : 1 .. i \subseteq Keys(v)}

Tag(m)     == [ty |-> "tag", v |-> m]
Mark(m)    == Obj([k \in {"__type"} |-> Tag(m)])
Null       == Mark("null")
EmptyArray == Mark("array")

\* null.is_null_marker and null.is_empty_array_marker look at one field.
IsMarked(v, m) == v.ty = "object" /\ "__type" \in Keys(v) /\ v.at["__type"] = Tag(m)
=============================================================================
