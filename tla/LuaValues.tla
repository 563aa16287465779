----------------------------- MODULE LuaValues ------------------------------
(***************************************************************************)
(* The Lua values that cross the Lua API in luau_wrapper.cpp, as far as    *)
(* the C++ code tells them apart.  A table is a reference into a heap that *)
(* holds, for each table, the set of its entries.                          *)
(***************************************************************************)
EXTENDS Naturals, Sequences

CONSTANTS
    Str,        \* strings
    Num         \* numbers other than the indices 1, 2, ...

Nil       == [ty |-> "nil"]
Atom(x)   == [ty |-> "atom", v |-> x]
Table(t)  == [ty |-> "table", id |-> t]
Index(i)  == [ty |-> "index", n |-> i]

Value == {Nil} \cup [ty : {"atom"}, v : Str \cup Num \cup {"true", "false"}]
               \cup [ty : {"table"}, id : Nat \ {0}]

Key   == Value \cup [ty : {"index"}, n : Nat \ {0}]

Entries == SUBSET (Key \X Value)

IsTable(v) == v.ty = "table"

\* A table with t[k] = v assigned; assigning nil removes the entry.
Assign(t, k, v) == {e \in t : e[1] # k} \cup (IF v = Nil THEN {} ELSE {<<k, v>>})

\* lua_pop(L, n) on a stack, or the end of n calls.
Pop(s, n) == SubSeq(s, 1, Len(s) - n)
=============================================================================
