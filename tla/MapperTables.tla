---------------------------- MODULE MapperTables ----------------------------
(***************************************************************************)
(* What sample/sgx-luau/production-script.lua does to a whole table: the   *)
(* check of a field subset, the selection of fields, the removal of null   *)
(* markers.  Each is a recursive function, over the tables a mapper may    *)
(* build, and takes one level of a table with what it makes of the members.*)
(***************************************************************************)
EXTENDS MapperValues

CONSTANTS
    Values,     \* what process builds and apply_subsetting selects, and its parts
    Results,    \* what convert_nulls makes of that, and its parts; nil
    Specs,      \* what a caller may pass as a field subset, and its parts
    Depth,      \* how deep a table is nested
    MaxDepth    \* the most of these

-----------------------------------------------------------------------------
\* Names as keys, flags and tables as values.
validate_subset_structure[f \in Specs] ==
    f.ty = "object" /\ \A k \in Keys(f) : f.at[k].ty = "flag" \/ validate_subset_structure[f.at[k]]

\* The tables with something in them among the items, in their order.
NonEmpty(items) ==
    LET kept   == {i \in DOMAIN items : IsTable(items[i]) /\ Keys(items[i]) # {}}
        Nth(n) == CHOOSE i \in kept : Cardinality({j \in kept : j <= i}) = n
    IN  [n \in 1 .. Cardinality(kept) |-> items[Nth(n)]]

\* Naming a field is enough to select it.
SelectedAnyFlag(d, f, select) ==
    IF ~IsTable(d) \/ ~IsTable(f) \/ IsArray(d) THEN Nil
    ELSE Obj([k \in Keys(d) \cap Keys(f) |-> d.at[k]])

\* subset.apply_subsetting, given what it selects of the members.
Selected(d, f, select) ==
    IF ~IsTable(d) \/ ~IsTable(f) THEN Nil
    ELSE IF IsArray(d) THEN
        IF "*" \in Keys(f) THEN Arr(NonEmpty([i \in Run(d) |-> select[<<d.at[i], f.at["*"]>>]]))
        ELSE Nil
    ELSE LET Part(k) == IF f.at[k] = Flag(TRUE) THEN d.at[k] ELSE select[<<d.at[k], f.at[k]>>]
         IN  Obj([k \in {j \in Keys(d) \cap Keys(f) : Part(j) # Nil} |-> Part(k)])

apply_subsetting[p \in Values \X Specs] == Selected(p[1], p[2], apply_subsetting)

\* Only the outermost level is converted.
ConvertedFlat(v, convert) ==
    IF ~IsTable(v) \/ IsArray(v) THEN v
    ELSE IF IsMarked(v, "null") THEN Nil
    ELSE IF IsMarked(v, "array") THEN Obj(<<>>)
    ELSE Obj([k \in {j \in Keys(v) : v.at[j] # Null} |-> v.at[k]])

\* null.convert_nulls, given what it makes of the members: a marker becomes nil,
\* which drops the key; in an array, rebuilt as one, that leaves a hole.
Converted(v, convert) ==
    IF ~IsTable(v) THEN v
    ELSE IF IsMarked(v, "null") THEN Nil
    ELSE IF IsMarked(v, "array") THEN Obj(<<>>)
    ELSE LET kept == {k \in Keys(v) : convert[v.at[k]] # Nil}
             new  == [k \in kept |-> convert[v.at[k]]]
         IN  IF IsArray(v) THEN Numbered(new) ELSE Obj(new)

convert_nulls[v \in Values] == Converted(v, convert_nulls)

-----------------------------------------------------------------------------
\* A value without a marker at any depth.
Unmarked(v, clean) ==
    IsTable(v) => /\ ~IsMarked(v, "null") /\ ~IsMarked(v, "array")
                  /\ \A k \in Keys(v) : clean[v.at[k]]

NoMarks[v \in Results] == Unmarked(v, NoMarks)

\* r holds only what the subset f selects of d.
Inside(r, d, f, within) ==
    /\ IsTable(r) /\ IsTable(d) /\ IsTable(f)
    /\ IF IsArray(d)
       THEN \A i \in Keys(r) : /\ "*" \in Keys(f)
                               /\ \E j \in Keys(d) : within[<<r.at[i], d.at[j], f.at["*"]>>]
       ELSE \A k \in Keys(r) : /\ k \in Keys(d) \cap Keys(f)
                               /\ f.at[k] = Flag(TRUE) \/ within[<<r.at[k], d.at[k], f.at[k]>>]

Within[t \in Results \X Values \X Specs] == Inside(t[1], t[2], t[3], Within)

-----------------------------------------------------------------------------
\* A set of values with the members of its tables, which are nested less deep.
Closed(S) ==
    \A v \in S : IsTable(v) =>
        \A k \in Keys(v) : v.at[k] \in S /\ Depth[v.at[k]] \in 0 .. Depth[v] - 1

\* Tables are nested to some depth, arrays are numbered, with or without holes, and
\* the sets hold what the functions return.
ASSUME TablesAssumption ==
    /\ MaxDepth \in Nat /\ Depth \in [Values \cup Results -> 0 .. MaxDepth]
    /\ Closed(Values) /\ Closed(Results) /\ Nil \in Results
    /\ \A v \in Values : IsArray(v) => IsFiniteSet(Keys(v)) /\ Keys(v) \subseteq Nat \ {0}
    /\ \A f \in Specs : IsTable(f) => \A k \in Keys(f) : f.at[k] \in Specs
    /\ \A v \in Values : convert_nulls[v] \in Results
    /\ \A p \in Values \X Specs : apply_subsetting[p] \in Values \cup {Nil}
=============================================================================
