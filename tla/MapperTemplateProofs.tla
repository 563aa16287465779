------------------------ MODULE MapperTemplateProofs ------------------------
(***************************************************************************)
(* Proofs about MapperTables, for tables of any shape and depth, and about *)
(* MapperTemplate, for every payload, subset and time budget, every limit  *)
(* of the history and any number of calls.                                 *)
(***************************************************************************)
EXTENDS MapperTemplate, FiniteSetTheorems, WellFoundedInduction, TLAPS

(* Induction on the depth of a table.                                      *)

\* What holds of a number whenever it holds of those below it holds of all.
LEMMA UpTo ==
    ASSUME NEW N \in Nat, NEW T, \A n \in 0 .. N : (\A m \in 0 .. n - 1 : m \in T) => n \in T
    PROVE  0 .. N \subseteq T
<1> DEFINE R == {p \in Nat \X Nat : p[1] < p[2]}
           S == {n \in 0 .. N : n \notin T}
<1>1. IsWellFoundedOn(R, Nat)
  BY NatLessThanWellFounded DEF OpToRel
<1> SUFFICES ASSUME S # {} PROVE FALSE
  OBVIOUS
<1>2. S \subseteq Nat
  OBVIOUS
<1>3. PICK n \in S : \A m \in S : ~(<<m, n>> \in R)
  <2> HIDE DEF R, S
  <2> QED
    BY <1>1, <1>2, WFMin
<1>4. \A m \in 0 .. n - 1 : m \in 0 .. N /\ m < n /\ m \in Nat /\ n \in Nat
  OBVIOUS
<1>5. \A m \in 0 .. n - 1 : m \in T
  BY <1>3, <1>4
<1> QED
  BY <1>5

\* The same of a value and those nested less deep.
LEMMA ByDepth ==
    ASSUME NEW S \in {Values, Results}, NEW T,
           \A v \in S : (\A w \in S : Depth[w] \in 0 .. Depth[v] - 1 => w \in T) => v \in T
    PROVE  S \subseteq T
<1>1. Depth \in [Values \cup Results -> 0 .. MaxDepth] /\ MaxDepth \in Nat
  BY TablesAssumption
<1> DEFINE U == {n \in 0 .. MaxDepth : \A v \in S : Depth[v] = n => v \in T}
<1>2. ASSUME NEW n \in 0 .. MaxDepth, \A m \in 0 .. n - 1 : m \in U PROVE n \in U
  <2>1. ASSUME NEW v \in S, Depth[v] = n PROVE v \in T
    <3>1. ASSUME NEW w \in S, Depth[w] \in 0 .. Depth[v] - 1 PROVE w \in T
      <4>1. Depth[w] \in U
        BY <1>2, <2>1, <3>1
      <4> QED
        BY <4>1
    <3> QED
      BY <3>1
  <2> QED
    BY <2>1
<1>3. 0 .. MaxDepth \subseteq U
  <2> HIDE DEF U
  <2> QED
    BY <1>1, <1>2, UpTo
<1>4. \A v \in S : Depth[v] \in U
  BY <1>1, <1>3
<1> QED
  BY <1>4

-----------------------------------------------------------------------------
(* The recursive functions are what their definitions say: for the values  *)
(* of a depth below n there is a function that is, for every n.            *)

\* The values of a depth below n.
Below(S, n) == {v \in S : Depth[v] < n}

\* There are none below 0, and the members of a table are a level further down.
LEMMA BelowAll ==
    ASSUME NEW S \in {Values, Results}
    PROVE  /\ Below(S, 0) = {} /\ Below(S, MaxDepth + 1) = S
           /\ \A n \in Nat : \A v \in Below(S, n + 1) : IsTable(v) =>
                  \A k \in Keys(v) : v.at[k] \in Below(S, n) /\ v.at[k] \in Below(S, n + 1)
<1>1. /\ Depth \in [Values \cup Results -> 0 .. MaxDepth] /\ MaxDepth \in Nat
      /\ Closed(S)
  BY TablesAssumption
<1>2. \A v \in S : Depth[v] \in 0 .. MaxDepth
  BY <1>1
<1>3. Below(S, 0) = {} /\ Below(S, MaxDepth + 1) = S
  BY <1>1, <1>2 DEF Below
<1>4. ASSUME NEW n \in Nat, NEW v \in Below(S, n + 1), IsTable(v), NEW k \in Keys(v)
      PROVE  v.at[k] \in Below(S, n) /\ v.at[k] \in Below(S, n + 1)
  <2>1. v \in S /\ Depth[v] < n + 1 /\ Depth[v] \in Nat
    BY <1>2 DEF Below
  <2>2. v.at[k] \in S /\ Depth[v.at[k]] \in 0 .. Depth[v] - 1
    BY <1>1, <1>4, <2>1 DEF Closed
  <2> QED
    BY <2>1, <2>2 DEF Below
<1> QED
  BY <1>3, <1>4

\* What holds for the values of no depth, and for those of a depth with those below
\* it, holds for all.
LEMMA Stages ==
    ASSUME NEW T, 0 \in T, \A n \in 0 .. MaxDepth : n \in T => n + 1 \in T
    PROVE  MaxDepth + 1 \in T
<1>1. MaxDepth + 1 \in Nat /\ MaxDepth \in Nat
  BY TablesAssumption
<1>2. ASSUME NEW n \in 0 .. MaxDepth + 1, \A m \in 0 .. n - 1 : m \in T PROVE n \in T
  <2>1. CASE n # 0
    <3>1. n - 1 \in 0 .. MaxDepth /\ n - 1 \in 0 .. n - 1 /\ (n - 1) + 1 = n
      BY <1>1, <2>1
    <3>2. n - 1 \in T
      BY <1>2, <3>1
    <3> QED
      BY <3>1, <3>2
  <2> QED
    BY <2>1
<1>3. 0 .. MaxDepth + 1 \subseteq T
  BY <1>1, <1>2, UpTo
<1> QED
  BY <1>1, <1>3

\* What is made of a table depends on what is made of its members.
LEMMA ConvertedMembers ==
    ASSUME NEW v, NEW g, NEW h, IsTable(v) => \A k \in Keys(v) : g[v.at[k]] = h[v.at[k]]
    PROVE  Converted(v, g) = Converted(v, h)
<1>1. CASE ~IsTable(v)
  BY <1>1 DEF Converted
<1>2. CASE IsTable(v)
  <2> DEFINE K(f) == {k \in Keys(v) : f[v.at[k]] # Nil}
             New(f) == [k \in K(f) |-> f[v.at[k]]]
  <2>1. K(g) = K(h)
    BY <1>2
  <2>2. New(g) = New(h)
    BY <1>2, <2>1
  <2> QED
    BY <2>1, <2>2 DEF Converted
<1> QED
  BY <1>1, <1>2

\* convert_nulls.
LEMMA ConvertDefined == \A v \in Values : convert_nulls[v] = Converted(v, convert_nulls)
<1> DEFINE IsOn(D, g) == g = [v \in D |-> Converted(v, g)]
           At(n) == Below(Values, n)
           T == {n \in Nat : \E g : IsOn(At(n), g)}
<1>1. 0 \in T
  <2>1. At(0) = {}
    BY BelowAll
  <2>2. IsOn(At(0), [v \in At(0) |-> 0])
    <3> HIDE DEF At
    <3> QED
      BY <2>1
  <2> QED
    BY <2>2
<1>2. ASSUME NEW n \in 0 .. MaxDepth, n \in T PROVE n + 1 \in T
  <2> DEFINE D == At(n)
             E == At(n + 1)
  <2>1. PICK g : IsOn(D, g)
    BY <1>2
  <2> DEFINE h == [v \in E |-> Converted(v, g)]
  <2>2. ASSUME NEW w \in D, w \in E PROVE g[w] = h[w]
    <3>1. g[w] = Converted(w, g)
      BY <2>1
    <3> QED
      BY <3>1, <2>2
  <2>3. ASSUME NEW v \in E PROVE Converted(v, g) = Converted(v, h)
    <3>1. IsTable(v) => \A k \in Keys(v) : v.at[k] \in D /\ v.at[k] \in E
      BY <1>2, BelowAll, TablesAssumption
    <3> HIDE DEF h, D, E
    <3> QED
      BY <3>1, <2>2, ConvertedMembers
  <2>4. IsOn(E, h)
    BY <2>3
  <2>5. n + 1 \in Nat
    BY <1>2
  <2> QED
    BY <2>4, <2>5
<1>3. MaxDepth + 1 \in T
  <2> HIDE DEF T
  <2> QED
    BY <1>1, <1>2, Stages
<1>4. \E g : IsOn(Values, g)
  BY <1>3, BelowAll
<1>5. IsOn(Values, convert_nulls)
  BY <1>4 DEF convert_nulls
<1> QED
  BY <1>5

\* What is selected of a table depends on what is selected of its members.
LEMMA SelectedMembers ==
    ASSUME NEW d, NEW f, NEW g, NEW h,
           IsTable(d) /\ IsTable(f) =>
              \A k \in Keys(d), j \in Keys(f) : g[<<d.at[k], f.at[j]>>] = h[<<d.at[k], f.at[j]>>]
    PROVE  Selected(d, f, g) = Selected(d, f, h)
<1>1. CASE ~IsTable(d) \/ ~IsTable(f)
  BY <1>1 DEF Selected
<1>2. CASE IsTable(d) /\ IsTable(f) /\ IsArray(d)
  <2>1. CASE "*" \in Keys(f)
    <3>1. [i \in Run(d) |-> g[<<d.at[i], f.at["*"]>>]] = [i \in Run(d) |-> h[<<d.at[i], f.at["*"]>>]]
      BY <1>2, <2>1 DEF Run
    <3> QED
      BY <1>2, <2>1, <3>1 DEF Selected
  <2>2. CASE "*" \notin Keys(f)
    BY <1>2, <2>2 DEF Selected
  <2> QED
    BY <2>1, <2>2
<1>3. CASE IsTable(d) /\ IsTable(f) /\ ~IsArray(d)
  <2> DEFINE Part(k, s) == IF f.at[k] = Flag(TRUE) THEN d.at[k] ELSE s[<<d.at[k], f.at[k]>>]
             J(s) == {j \in Keys(d) \cap Keys(f) : Part(j, s) # Nil}
  <2>1. \A k \in Keys(d) \cap Keys(f) : Part(k, g) = Part(k, h)
    BY <1>3
  <2>2. Selected(d, f, g) = Obj([k \in J(g) |-> Part(k, g)])
    BY <1>3 DEF Selected
  <2>3. Selected(d, f, h) = Obj([k \in J(h) |-> Part(k, h)])
    BY <1>3 DEF Selected
  <2> HIDE DEF Part
  <2>4. J(g) = J(h)
    BY <2>1
  <2> QED
    BY <2>1, <2>2, <2>3, <2>4
<1> QED
  BY <1>1, <1>2, <1>3

\* apply_subsetting.
LEMMA SelectDefined ==
    \A p \in Values \X Specs : apply_subsetting[p] = Selected(p[1], p[2], apply_subsetting)
<1> DEFINE IsOn(D, g) == g = [p \in D |-> Selected(p[1], p[2], g)]
           At(n) == Below(Values, n) \X Specs
           T == {n \in Nat : \E g : IsOn(At(n), g)}
<1>1. 0 \in T
  <2>1. At(0) = {}
    BY BelowAll
  <2>2. IsOn(At(0), [p \in At(0) |-> 0])
    <3> HIDE DEF At
    <3> QED
      BY <2>1
  <2> QED
    BY <2>2
<1>2. ASSUME NEW n \in 0 .. MaxDepth, n \in T PROVE n + 1 \in T
  <2> DEFINE D == At(n)
             E == At(n + 1)
  <2>1. PICK g : IsOn(D, g)
    BY <1>2
  <2> DEFINE h == [p \in E |-> Selected(p[1], p[2], g)]
  <2>2. ASSUME NEW w \in D, w \in E PROVE g[w] = h[w]
    <3>1. g[w] = Selected(w[1], w[2], g)
      BY <2>1
    <3> QED
      BY <3>1, <2>2
  <2>3. ASSUME NEW p \in E PROVE Selected(p[1], p[2], g) = Selected(p[1], p[2], h)
    <3>1. IsTable(p[1]) /\ IsTable(p[2]) =>
            \A k \in Keys(p[1]), j \in Keys(p[2]) : /\ <<p[1].at[k], p[2].at[j]>> \in D
                                                  /\ <<p[1].at[k], p[2].at[j]>> \in E
      BY <1>2, BelowAll, TablesAssumption
    <3> HIDE DEF h, D, E
    <3> QED
      BY <3>1, <2>2, SelectedMembers
  <2>4. IsOn(E, h)
    BY <2>3
  <2>5. n + 1 \in Nat
    BY <1>2
  <2> QED
    BY <2>4, <2>5
<1>3. MaxDepth + 1 \in T
  <2> HIDE DEF T
  <2> QED
    BY <1>1, <1>2, Stages
<1>4. \E g : IsOn(Values \X Specs, g)
  BY <1>3, BelowAll
<1>5. IsOn(Values \X Specs, apply_subsetting)
  BY <1>4 DEF apply_subsetting
<1> QED
  BY <1>5

\* Whether a table is clean depends on whether its members are.
LEMMA UnmarkedMembers ==
    ASSUME NEW v, NEW g, NEW h, IsTable(v) => \A k \in Keys(v) : g[v.at[k]] = h[v.at[k]]
    PROVE  Unmarked(v, g) = Unmarked(v, h)
BY Zenon DEF Unmarked

\* NoMarks.
LEMMA NoMarksDefined == \A v \in Results : NoMarks[v] = Unmarked(v, NoMarks)
<1> DEFINE IsOn(D, g) == g = [v \in D |-> Unmarked(v, g)]
           At(n) == Below(Results, n)
           T == {n \in Nat : \E g : IsOn(At(n), g)}
<1>1. 0 \in T
  <2>1. At(0) = {}
    BY BelowAll
  <2>2. IsOn(At(0), [v \in At(0) |-> 0])
    <3> HIDE DEF At
    <3> QED
      BY <2>1
  <2> QED
    BY <2>2
<1>2. ASSUME NEW n \in 0 .. MaxDepth, n \in T PROVE n + 1 \in T
  <2> DEFINE D == At(n)
             E == At(n + 1)
  <2>1. PICK g : IsOn(D, g)
    BY <1>2
  <2> DEFINE h == [v \in E |-> Unmarked(v, g)]
  <2>2. ASSUME NEW w \in D, w \in E PROVE g[w] = h[w]
    <3>1. g[w] = Unmarked(w, g)
      BY <2>1
    <3> QED
      BY <3>1, <2>2
  <2>3. ASSUME NEW v \in E PROVE Unmarked(v, g) = Unmarked(v, h)
    <3>1. IsTable(v) => \A k \in Keys(v) : v.at[k] \in D /\ v.at[k] \in E
      BY <1>2, BelowAll, TablesAssumption
    <3> HIDE DEF h, D, E
    <3> QED
      BY <3>1, <2>2, UnmarkedMembers
  <2>4. IsOn(E, h)
    BY <2>3
  <2>5. n + 1 \in Nat
    BY <1>2
  <2> QED
    BY <2>4, <2>5
<1>3. MaxDepth + 1 \in T
  <2> HIDE DEF T
  <2> QED
    BY <1>1, <1>2, Stages
<1>4. \E g : IsOn(Results, g)
  BY <1>3, BelowAll
<1>5. IsOn(Results, NoMarks)
  BY <1>4 DEF NoMarks
<1> QED
  BY <1>5

\* What lies inside a selection depends on what its members do.
LEMMA InsideMembers ==
    ASSUME NEW r, NEW d, NEW f, NEW g, NEW h,
           IsTable(r) /\ IsTable(d) /\ IsTable(f) =>
              \A i \in Keys(r), j \in Keys(d), k \in Keys(f) :
                  g[<<r.at[i], d.at[j], f.at[k]>>] = h[<<r.at[i], d.at[j], f.at[k]>>]
    PROVE  Inside(r, d, f, g) = Inside(r, d, f, h)
<1>1. CASE ~(IsTable(r) /\ IsTable(d) /\ IsTable(f))
  BY <1>1, Zenon DEF Inside
<1>2. CASE IsTable(r) /\ IsTable(d) /\ IsTable(f) /\ IsArray(d)
  BY <1>2, Zenon DEF Inside
<1>3. CASE IsTable(r) /\ IsTable(d) /\ IsTable(f) /\ ~IsArray(d)
  BY <1>3, Zenon DEF Inside
<1> QED
  BY <1>1, <1>2, <1>3

\* Within.
LEMMA WithinDefined ==
    \A t \in Results \X Values \X Specs : Within[t] = Inside(t[1], t[2], t[3], Within)
<1> DEFINE IsOn(D, g) == g = [t \in D |-> Inside(t[1], t[2], t[3], g)]
           At(n) == Below(Results, n) \X Values \X Specs
           T == {n \in Nat : \E g : IsOn(At(n), g)}
<1>1. 0 \in T
  <2>1. At(0) = {}
    BY BelowAll
  <2>2. IsOn(At(0), [t \in At(0) |-> 0])
    <3> HIDE DEF At
    <3> QED
      BY <2>1
  <2> QED
    BY <2>2
<1>2. ASSUME NEW n \in 0 .. MaxDepth, n \in T PROVE n + 1 \in T
  <2> DEFINE D == At(n)
             E == At(n + 1)
  <2>1. PICK g : IsOn(D, g)
    BY <1>2
  <2> DEFINE h == [t \in E |-> Inside(t[1], t[2], t[3], g)]
  <2>2. ASSUME NEW w \in D, w \in E PROVE g[w] = h[w]
    <3>1. g[w] = Inside(w[1], w[2], w[3], g)
      BY <2>1
    <3> QED
      BY <3>1, <2>2
  <2>3. ASSUME NEW t \in E PROVE Inside(t[1], t[2], t[3], g) = Inside(t[1], t[2], t[3], h)
    <3>1. IsTable(t[1]) /\ IsTable(t[2]) /\ IsTable(t[3]) =>
            \A i \in Keys(t[1]), j \in Keys(t[2]), k \in Keys(t[3]) :
                /\ <<t[1].at[i], t[2].at[j], t[3].at[k]>> \in D
                /\ <<t[1].at[i], t[2].at[j], t[3].at[k]>> \in E
      BY <1>2, BelowAll, TablesAssumption
    <3> HIDE DEF h, D, E
    <3> QED
      BY <3>1, <2>2, InsideMembers
  <2>4. IsOn(E, h)
    BY <2>3
  <2>5. n + 1 \in Nat
    BY <1>2
  <2> QED
    BY <2>4, <2>5
<1>3. MaxDepth + 1 \in T
  <2> HIDE DEF T
  <2> QED
    BY <1>1, <1>2, Stages
<1>4. \E g : IsOn(Results \X Values \X Specs, g)
  BY <1>3, BelowAll
<1>5. IsOn(Results \X Values \X Specs, Within)
  BY <1>4 DEF Within
<1> QED
  BY <1>5

-----------------------------------------------------------------------------
\* Of the numbers in a finite set one is the nth.
LEMMA NthThere ==
    ASSUME NEW S, IsFiniteSet(S), S \subseteq Nat, NEW n \in 1 .. Cardinality(S)
    PROVE  \E i \in S : Cardinality({j \in S : j <= i}) = n
<1> DEFINE Upto(i) == {j \in S : j <= i}
           f == [i \in S |-> Cardinality(Upto(i))]
<1>1. \A i \in S : Upto(i) \in SUBSET S /\ i \in Upto(i)
  OBVIOUS
<1> HIDE DEF Upto
<1>2. Cardinality(S) \in Nat
  BY FS_CardinalityType
<1>3. \A i \in S : IsFiniteSet(Upto(i)) /\ Cardinality(Upto(i)) <= Cardinality(S)
  BY <1>1, FS_Subset
<1>4. \A i \in S : Cardinality(Upto(i)) \in Nat /\ Cardinality(Upto(i)) # 0
  BY <1>1, <1>3, FS_CardinalityType, FS_EmptySet
<1>5. f \in [S -> 1 .. Cardinality(S)]
  BY <1>2, <1>3, <1>4
<1>6. ASSUME NEW i \in S, NEW k \in S, i < k PROVE f[i] # f[k]
  <2>1. Upto(i) \subseteq Upto(k) /\ k \in Upto(k) /\ k \notin Upto(i)
    <3>1. \A j \in S : j \in Nat
      OBVIOUS
    <3>2. ~(k <= i) /\ \A j \in S : j <= i => j <= k
      BY <1>6, <3>1
    <3> QED
      BY <1>1, <3>2 DEF Upto
  <2>2. Upto(i) \in SUBSET Upto(k) /\ Upto(i) # Upto(k)
    BY <2>1
  <2>3. Cardinality(Upto(i)) # Cardinality(Upto(k))
    BY <1>3, <2>2, FS_Subset
  <2> QED
    BY <2>3
<1>7. \A i, k \in S : f[i] = f[k] => i = k
  <2>1. \A i, k \in S : i < k \/ k < i \/ i = k
    OBVIOUS
  <2> HIDE DEF f
  <2> QED
    BY <1>6, <2>1
<1>8. f \in Injection(S, 1 .. Cardinality(S))
  <2> HIDE DEF f
  <2> QED
    BY <1>5, <1>7 DEF Injection, IsInjective
<1>9. IsFiniteSet(1 .. Cardinality(S)) /\ Cardinality(1 .. Cardinality(S)) = Cardinality(S)
  BY <1>2, FS_Interval
<1>10. f \in Surjection(S, 1 .. Cardinality(S))
  <2> HIDE DEF f
  <2> QED
    BY <1>8, <1>9, FS_Injection
<1>11. \E i \in S : f[i] = n
  BY <1>10 DEF Surjection
<1> QED
  BY <1>11 DEF Upto

\* What is kept of the items of an array is a sequence of some of them.
LEMMA NonEmptyItems ==
    ASSUME NEW items, IsFiniteSet(DOMAIN items), DOMAIN items \subseteq Nat
    PROVE  \A i \in DOMAIN NonEmpty(items) :
              \E j \in DOMAIN items : NonEmpty(items)[i] = items[j] /\ IsTable(items[j])
<1> DEFINE kept == {i \in DOMAIN items : IsTable(items[i]) /\ Keys(items[i]) # {}}
           Nth(m) == CHOOSE i \in kept : Cardinality({j \in kept : j <= i}) = m
<1>1. NonEmpty(items) = [m \in 1 .. Cardinality(kept) |-> items[Nth(m)]]
  BY DEF NonEmpty
<1>2. IsFiniteSet(kept) /\ kept \subseteq Nat
  <2>1. kept \in SUBSET DOMAIN items
    OBVIOUS
  <2> HIDE DEF kept
  <2> QED
    BY <2>1, FS_Subset
<1>3. \A m \in 1 .. Cardinality(kept) : Nth(m) \in kept
  <2> HIDE DEF kept
  <2> QED
    BY <1>2, NthThere
<1> QED
  BY <1>1, <1>3

-----------------------------------------------------------------------------
\* What convert_nulls leaves of a table has some of its keys, and their values
\* converted.
Shrunk(v, r) ==
    /\ IsTable(r) /\ Keys(r) \subseteq Keys(v)
    /\ \A k \in Keys(r) : r.at[k] = convert_nulls[v.at[k]] /\ r.at[k] # Nil
    /\ r.ty = "object" /\ Keys(r) # {} =>
          v.ty = "object" /\ ~IsMarked(v, "null") /\ ~IsMarked(v, "array")

\* A value that is no table is kept, a marker becomes nil or an empty table.
LEMMA ConvertedShape ==
    ASSUME NEW v \in Values, NEW r, r = convert_nulls[v]
    PROVE  \/ ~IsTable(v) /\ r = v
           \/ IsTable(v) /\ (r = Nil \/ Shrunk(v, r))
<1>1. r = Converted(v, convert_nulls)
  BY ConvertDefined
<1>2. CASE ~IsTable(v)
  BY <1>1, <1>2 DEF Converted
<1>3. CASE IsTable(v) /\ IsMarked(v, "null")
  BY <1>1, <1>3 DEF Converted
<1>4. CASE IsTable(v) /\ ~IsMarked(v, "null") /\ IsMarked(v, "array")
  <2>1. r = Obj(<<>>)
    BY <1>1, <1>4 DEF Converted
  <2>2. IsTable(r) /\ Keys(r) = {}
    BY <2>1 DEF Obj, IsTable, Keys
  <2> QED
    BY <1>4, <2>2 DEF Shrunk
<1>5. CASE IsTable(v) /\ ~IsMarked(v, "null") /\ ~IsMarked(v, "array")
  <2> DEFINE kept == {k \in Keys(v) : convert_nulls[v.at[k]] # Nil}
             new  == [k \in kept |-> convert_nulls[v.at[k]]]
  <2>1. r = IF IsArray(v) THEN Numbered(new) ELSE Obj(new)
    BY <1>1, <1>5 DEF Converted
  <2>2. DOMAIN new = kept /\ \A k \in kept : new[k] = convert_nulls[v.at[k]] /\ new[k] # Nil
    OBVIOUS
  <2> HIDE DEF new
  <2>3. CASE ~IsArray(v)
    <3>1. r = Obj(new) /\ v.ty = "object"
      BY <1>5, <2>1, <2>3 DEF IsTable, IsArray
    <3>2. IsTable(r) /\ Keys(r) = kept /\ r.at = new
      BY <2>2, <3>1 DEF Obj, IsTable, Keys
    <3> QED
      BY <1>5, <2>2, <3>1, <3>2 DEF Shrunk
  <2>4. CASE IsArray(v) /\ new # <<>>
    <3>1. r.ty # "object" /\ IsTable(r) /\ r.at = new
      BY <2>1, <2>4 DEF Numbered, Arr, Holes, IsTable
    <3> QED
      BY <1>5, <2>2, <3>1 DEF Shrunk, Keys
  <2>5. CASE IsArray(v) /\ new = <<>>
    <3>1. IsTable(r) /\ Keys(r) = {}
      BY <2>1, <2>5 DEF Numbered, Arr, Obj, Holes, IsTable, Keys
    <3> QED
      BY <1>5, <3>1 DEF Shrunk
  <2> QED
    BY <2>3, <2>4, <2>5
<1> QED
  BY <1>2, <1>3, <1>4, <1>5

\* No marker is left, at any depth.
LEMMA ConvertedClean == \A v \in Values : NoMarks[convert_nulls[v]]
<1> DEFINE T == {v \in Values : NoMarks[convert_nulls[v]]}
<1>1. ASSUME NEW v \in Values, \A w \in Values : Depth[w] \in 0 .. Depth[v] - 1 => w \in T
      PROVE  v \in T
  <2>1. PICK r : r = convert_nulls[v] /\ r \in Results
    BY TablesAssumption
  <2>2. NoMarks[r] = Unmarked(r, NoMarks)
    BY <2>1, NoMarksDefined
  <2>3. ASSUME IsTable(r)
        PROVE  ~IsMarked(r, "null") /\ ~IsMarked(r, "array") /\ \A k \in Keys(r) : NoMarks[r.at[k]]
    <3>1. IsTable(v) /\ Shrunk(v, r)
      BY <2>1, <2>3, ConvertedShape DEF IsTable, Nil
    <3>2. \A k \in Keys(r) : v.at[k] \in Values /\ Depth[v.at[k]] \in 0 .. Depth[v] - 1
      BY <3>1, TablesAssumption DEF Closed, Shrunk
    <3>3. ASSUME NEW m \in {"null", "array"}, IsMarked(r, m) PROVE FALSE
      <4>1. PICK x : x = v.at["__type"]
        OBVIOUS
      <4>2. /\ v.ty = "object" /\ "__type" \in Keys(v) /\ ~IsMarked(v, m)
            /\ x \in Values /\ convert_nulls[x] = Tag(m)
        BY <3>1, <3>2, <3>3, <4>1 DEF Shrunk, IsMarked
      <4>3. ~IsTable(Tag(m)) /\ Tag(m) # Nil
        BY DEF Tag, IsTable, Nil
      <4>4. x = Tag(m)
        BY <4>2, <4>3, ConvertedShape DEF Shrunk
      <4> QED
        BY <4>1, <4>2, <4>4 DEF IsMarked
    <3>4. \A k \in Keys(r) : NoMarks[r.at[k]]
      BY <1>1, <3>1, <3>2 DEF Shrunk
    <3> QED
      BY <3>3, <3>4
  <2>4. Unmarked(r, NoMarks)
    BY <2>3, Zenon DEF Unmarked
  <2> QED
    BY <2>1, <2>2, <2>4
<1>2. Values \subseteq T
  <2> HIDE DEF T
  <2> QED
    BY <1>1, ByDepth
<1> QED
  BY <1>2

-----------------------------------------------------------------------------
\* What apply_subsetting selects of a table.
SelectedOf(s, d, f) ==
    /\ s \in Values /\ IsTable(s) /\ IsTable(d) /\ IsTable(f)
    /\ \/ /\ IsArray(d)
          /\ \A i \in Keys(s) : /\ "*" \in Keys(f) /\ IsTable(s.at[i])
                                /\ \E j \in Keys(d) : s.at[i] = apply_subsetting[<<d.at[j], f.at["*"]>>]
       \/ /\ ~IsArray(d)
          /\ \A k \in Keys(s) : /\ k \in Keys(d) \cap Keys(f)
                                /\ \/ f.at[k] = Flag(TRUE)
                                   \/ s.at[k] = apply_subsetting[<<d.at[k], f.at[k]>>] /\ s.at[k] # Nil

\* Of a table with names as keys something is always selected.
LEMMA SelectedShape ==
    ASSUME NEW d \in Values, NEW f \in Specs, NEW s, s = apply_subsetting[<<d, f>>]
    PROVE  /\ s = Nil \/ SelectedOf(s, d, f)
           /\ d.ty = "object" /\ IsTable(f) => s # Nil
<1>1. s = Selected(d, f, apply_subsetting) /\ s \in Values \cup {Nil}
  <2>1. <<d, f>> \in Values \X Specs
    OBVIOUS
  <2> QED
    BY <2>1, SelectDefined, TablesAssumption
<1>2. CASE ~IsTable(d) \/ ~IsTable(f)
  BY <1>1, <1>2 DEF Selected, IsTable
<1>3. CASE IsTable(d) /\ IsTable(f) /\ IsArray(d)
  <2> DEFINE items == [i \in Run(d) |-> apply_subsetting[<<d.at[i], f.at["*"]>>]]
  <2>1. CASE "*" \in Keys(f)
    <3>1. s = Arr(NonEmpty(items))
      BY <1>1, <1>3, <2>1 DEF Selected
    <3>2. IsFiniteSet(DOMAIN items) /\ DOMAIN items \subseteq Nat
      <4>1. Run(d) \in SUBSET Keys(d) /\ DOMAIN items = Run(d)
        BY DEF Run
      <4>2. IsFiniteSet(Keys(d)) /\ Keys(d) \subseteq Nat
        BY <1>3, TablesAssumption
      <4> HIDE DEF items
      <4> QED
        BY <4>1, <4>2, FS_Subset
    <3>3. \A j \in DOMAIN items : j \in Keys(d) /\ items[j] = apply_subsetting[<<d.at[j], f.at["*"]>>]
      BY DEF Run
    <3> HIDE DEF items
    <3>4. \A i \in DOMAIN NonEmpty(items) :
             \E j \in DOMAIN items : NonEmpty(items)[i] = items[j] /\ IsTable(items[j])
      BY <3>2, NonEmptyItems
    <3>5. CASE NonEmpty(items) = <<>>
      <4>1. IsTable(s) /\ Keys(s) = {} /\ s # Nil
        BY <3>1, <3>5 DEF Arr, Obj, IsTable, Keys, Nil
      <4> QED
        BY <1>1, <1>3, <4>1 DEF SelectedOf, IsArray
    <3>6. CASE NonEmpty(items) # <<>>
      <4>1. IsTable(s) /\ s.at = NonEmpty(items) /\ Keys(s) = DOMAIN NonEmpty(items) /\ s # Nil
        BY <3>1, <3>6 DEF Arr, IsTable, Keys, Nil
      <4>2. \A i \in Keys(s) : IsTable(s.at[i]) /\ \E j \in Keys(d) : s.at[i] = apply_subsetting[<<d.at[j], f.at["*"]>>]
        BY <3>3, <3>4, <4>1
      <4> QED
        BY <1>1, <1>3, <2>1, <4>1, <4>2 DEF SelectedOf, IsArray
    <3> QED
      BY <3>5, <3>6
  <2>2. CASE "*" \notin Keys(f)
    BY <1>1, <1>3, <2>2 DEF Selected, IsArray
  <2> QED
    BY <2>1, <2>2
<1>4. CASE IsTable(d) /\ IsTable(f) /\ ~IsArray(d)
  <2> DEFINE Part(k) == IF f.at[k] = Flag(TRUE) THEN d.at[k] ELSE apply_subsetting[<<d.at[k], f.at[k]>>]
             J == {j \in Keys(d) \cap Keys(f) : Part(j) # Nil}
  <2>1. s = Obj([k \in J |-> Part(k)])
    BY <1>1, <1>4 DEF Selected
  <2> HIDE DEF J
  <2>2. IsTable(s) /\ Keys(s) = J /\ s # Nil /\ \A k \in J : s.at[k] = Part(k)
    BY <2>1 DEF Obj, IsTable, Keys, Nil
  <2>3. \A k \in J : k \in Keys(d) \cap Keys(f) /\ Part(k) # Nil
    BY DEF J
  <2> QED
    BY <1>1, <1>4, <2>2, <2>3 DEF SelectedOf
<1> QED
  BY <1>2, <1>3, <1>4

\* After the removal of markers it is still only what the subset names.
LEMMA SelectedInside ==
    \A d \in Values : \A f \in Specs :
        LET s == apply_subsetting[<<d, f>>]
        IN  s # Nil => convert_nulls[s] = Nil \/ Within[<<convert_nulls[s], d, f>>]
<1> DEFINE P(d, f) == LET s == apply_subsetting[<<d, f>>]
                      IN  s # Nil => convert_nulls[s] = Nil \/ Within[<<convert_nulls[s], d, f>>]
           T == {d \in Values : \A f \in Specs : P(d, f)}
<1>1. ASSUME NEW d \in Values, \A w \in Values : Depth[w] \in 0 .. Depth[d] - 1 => w \in T
      PROVE  d \in T
  <2> SUFFICES ASSUME NEW f \in Specs, NEW s, NEW r, s = apply_subsetting[<<d, f>>], s # Nil,
                      r = convert_nulls[s], r # Nil
               PROVE  Within[<<r, d, f>>]
    OBVIOUS
  <2>1. SelectedOf(s, d, f)
    BY SelectedShape
  <2>2. Shrunk(s, r) /\ r \in Results
    BY <2>1, ConvertedShape, TablesAssumption DEF SelectedOf
  <2>3. \A k \in Keys(d) : d.at[k] \in Values /\ d.at[k] \in T
    BY <1>1, <2>1, TablesAssumption DEF Closed, SelectedOf
  <2>4. \A k \in Keys(f) : f.at[k] \in Specs
    BY <2>1, TablesAssumption DEF SelectedOf
  <2>5. \A k \in Keys(d), j \in Keys(f) : P(d.at[k], f.at[j])
    BY <2>3, <2>4
  <2> HIDE DEF T
  <2>6. Inside(r, d, f, Within)
    <3>1. CASE IsArray(d)
      <4>1. ASSUME NEW i \in Keys(r)
            PROVE  "*" \in Keys(f) /\ \E j \in Keys(d) : Within[<<r.at[i], d.at[j], f.at["*"]>>]
        <5>1. i \in Keys(s) /\ r.at[i] = convert_nulls[s.at[i]] /\ r.at[i] # Nil
          BY <2>2 DEF Shrunk
        <5>2. PICK j \in Keys(d) : s.at[i] = apply_subsetting[<<d.at[j], f.at["*"]>>]
          BY <2>1, <3>1, <5>1 DEF SelectedOf
        <5>3. "*" \in Keys(f) /\ s.at[i] # Nil
          BY <2>1, <3>1, <5>1 DEF SelectedOf, IsTable, Nil
        <5> QED
          BY <2>5, <5>1, <5>2, <5>3
      <4> QED
        BY <2>1, <2>2, <3>1, <4>1 DEF Inside, SelectedOf, Shrunk
    <3>2. CASE ~IsArray(d)
      <4>1. ASSUME NEW k \in Keys(r)
            PROVE  /\ k \in Keys(d) \cap Keys(f)
                   /\ f.at[k] = Flag(TRUE) \/ Within[<<r.at[k], d.at[k], f.at[k]>>]
        <5>1. k \in Keys(s) /\ r.at[k] = convert_nulls[s.at[k]] /\ r.at[k] # Nil
          BY <2>2 DEF Shrunk
        <5>2. /\ k \in Keys(d) \cap Keys(f)
              /\ \/ f.at[k] = Flag(TRUE)
                 \/ s.at[k] = apply_subsetting[<<d.at[k], f.at[k]>>] /\ s.at[k] # Nil
          BY <2>1, <3>2, <5>1 DEF SelectedOf
        <5> QED
          BY <2>5, <5>1, <5>2
      <4> QED
        BY <2>1, <2>2, <3>2, <4>1 DEF Inside, SelectedOf, Shrunk
    <3> QED
      BY <3>1, <3>2
  <2>7. <<r, d, f>> \in Results \X Values \X Specs
    BY <2>2
  <2>8. Within[<<r, d, f>>] = Inside(r, d, f, Within)
    BY <2>7, WithinDefined
  <2> QED
    BY <2>6, <2>8
<1>2. Values \subseteq T
  <2> HIDE DEF T
  <2> QED
    BY <1>1, ByDepth
<1> QED
  BY <1>2

-----------------------------------------------------------------------------
\* A call whose timer started has a table for a subset if it has one, and past the
\* next check a table of texts for a payload.
Shaped ==
    /\ pc # "idle" => /\ payload \in Payloads
                      /\ fields = NoSubset \/ (fields \in Specs /\ IsTable(fields))
    /\ pc \notin {"idle", "started"} => IsTable(payload)

\* What the target says of a payload with no other endpoint than the one read.
OnlyDefault == Keys(payload) = {"default"}
Targeted ==
    /\ (pc \in {"validate", "budget", "enter", "process"} /\ OnlyDefault) =>
           target = Parsed(payload.at["default"])
    /\ pc \in {"budget", "enter", "process"} => Valid(target)

\* What process returned is a table with names as keys.
Built == pc = "subset" => data \in Outputs \cup {Obj(<<>>)}

IInv == TypeOK /\ Shaped /\ Targeted /\ Built

-----------------------------------------------------------------------------
\* What a text parses to has a type the validation knows.
LEMMA ParsedType ==
    ASSUME NEW text, IsText(text)
    PROVE  Parsed(text).ty \in {"nil", "object", "string", "number"}
BY DEF IsText, Parsed, Nil

\* What passes the validation was not "nothing".
LEMMA ValidParsed ==
    ASSUME NEW text, Valid(Parsed(text))
    PROVE  text.ty = "object" /\ (text.direct \/ text.body = "table")
<1>1. Parsed(text).ty = "object" /\ (Parsed(text).direct \/ Parsed(text).body = "table")
  BY Zenon DEF Valid
<1>2. Parsed(text) # Nil
  BY <1>1 DEF Nil
<1>3. Parsed(text) = text
  BY <1>2 DEF Parsed
<1> QED BY <1>1, <1>3

\* A sequence r is s with b added at the end, the oldest entry making room for
\* it when s holds m already.
Pushed(r, s, b, m) ==
    /\ r # <<>> /\ r[Len(r)] = b
    /\ \/ Len(r) = Len(s) + 1 /\ SubSeq(r, 1, Len(s)) = s
       \/ Len(s) = m /\ SubSeq(r, 1, m - 1) = Tail(s)

\* Dropping the head of a sequence grown beyond its limit pushes the new entry.
LEMMA PushAtLimit ==
    ASSUME NEW T, NEW s \in Seq(T), NEW b \in T, NEW m \in Nat \ {0}, Len(s) <= m,
           NEW r, r = IF Len(Append(s, b)) > m THEN Tail(Append(s, b)) ELSE Append(s, b)
    PROVE  r \in Seq(T) /\ Len(r) <= m /\ Pushed(r, s, b, m)
<1> DEFINE h == Append(s, b)
<1>1. h \in Seq(T) /\ Len(h) = Len(s) + 1 /\ h[Len(h)] = b
  OBVIOUS
<1>2. \A i \in 1..Len(s) : h[i] = s[i]
  OBVIOUS
<1>3. Len(s) \in Nat
  OBVIOUS
<1>4. r = IF Len(h) > m THEN Tail(h) ELSE h
  OBVIOUS
<1> HIDE DEF h
<1>5. CASE Len(s) < m
  <2>1. r = h
    BY <1>1, <1>3, <1>4, <1>5
  <2>2. SubSeq(h, 1, Len(s)) = s
    BY <1>1, <1>2, <1>3
  <2>3. h # <<>>
    BY <1>1, <1>3
  <2>4. r # <<>> /\ Len(r) = Len(s) + 1 /\ r[Len(r)] = b
    BY <2>1, <2>3, <1>1
  <2>5. Pushed(r, s, b, m)
    BY <2>1, <2>2, <2>4, Zenon DEF Pushed
  <2>6. Len(r) <= m
    BY <2>4, <1>3, <1>5
  <2> QED BY <2>1, <2>5, <2>6, <1>1, Zenon
<1>6. CASE Len(s) = m
  <2>1. r = Tail(h)
    BY <1>1, <1>3, <1>4, <1>6
  <2>2. h # <<>>
    BY <1>1, <1>3
  <2>3. /\ Tail(h) \in Seq(T) /\ Len(Tail(h)) = m
        /\ \A i \in 1..m : Tail(h)[i] = h[i + 1]
    BY <2>2, <1>1, <1>6
  <2>4. Tail(h)[m] = b /\ Tail(h) # <<>>
    BY <1>1, <1>6, <2>3
  <2>5. s # <<>>
    BY <1>6
  <2>6. /\ Tail(s) \in Seq(T) /\ Len(Tail(s)) = m - 1
        /\ \A i \in 1..(m - 1) : Tail(s)[i] = s[i + 1]
    BY <1>6, <2>5
  <2>7. \A i \in 1..(m - 1) : Tail(h)[i] = Tail(s)[i]
    <3>1. \A i \in 1..(m - 1) : i + 1 \in 1..m /\ i \in 1..m
      OBVIOUS
    <3> QED BY <3>1, <1>2, <1>6, <2>3, <2>6
  <2>8. SubSeq(Tail(h), 1, m - 1) = Tail(s)
    BY <2>3, <2>6, <2>7
  <2>9. r # <<>> /\ Len(r) = m /\ r[Len(r)] = b
    BY <2>1, <2>3, <2>4
  <2>10. Pushed(r, s, b, m)
    BY <2>1, <2>8, <2>9, <1>6, Zenon DEF Pushed
  <2>11. m <= m
    OBVIOUS
  <2> QED BY <2>1, <2>3, <2>9, <2>10, <2>11, Zenon
<1> QED BY <1>3, <1>5, <1>6

\* What a call that ends with its timer running does to the history.
Logged(ok) == Pushed(history', history, ok, MaxHistory)

\* The end of the timer pushes the outcome.
LEMMA EndTimerLogs ==
    ASSUME history \in Seq(BOOLEAN), Len(history) <= MaxHistory,
           NEW ok \in BOOLEAN, EndTimer(ok)
    PROVE  history' \in Seq(BOOLEAN) /\ Len(history') <= MaxHistory /\ Logged(ok)
<1>1. history' = IF Len(Append(history, ok)) > MaxHistory
                 THEN Tail(Append(history, ok)) ELSE Append(history, ok)
  BY Zenon DEF EndTimer
<1>2. MaxHistory \in Nat \ {0}
  BY TemplateAssumption
<1>3. PICK T : T = BOOLEAN
  OBVIOUS
<1>4. history \in Seq(T) /\ ok \in T
  BY <1>3
<1>5. /\ history' \in Seq(T) /\ Len(history') <= MaxHistory
      /\ Pushed(history', history, ok, MaxHistory)
  BY <1>1, <1>2, <1>4, PushAtLimit, Zenon
<1> QED BY <1>3, <1>5 DEF Logged

\* An error with the timer running ends the call and logs a failure.
LEMMA RaiseLoggedEnds ==
    ASSUME history \in Seq(BOOLEAN), Len(history) <= MaxHistory, RaiseLogged
    PROVE  /\ pc' = "idle" /\ outcome'.ok = FALSE
           /\ history' \in Seq(BOOLEAN) /\ Len(history') <= MaxHistory /\ Logged(FALSE)
<1>1. pc' = "idle" /\ outcome'.ok = FALSE /\ EndTimer(FALSE)
  BY DEF RaiseLogged, Raise
<1> QED BY <1>1, EndTimerLogs

-----------------------------------------------------------------------------
\* The invariant holds when the script has been loaded.
LEMMA InitIInv == Init => IInv
BY TemplateAssumption DEF Init, IInv, TypeOK, Shaped, Targeted, Built, Subsets, Nil

\* Every step preserves the invariant.
LEMMA NextIInv == IInv /\ [Next]_vars => IInv'
<1> SUFFICES ASSUME IInv, [Next]_vars PROVE IInv'
  OBVIOUS
<1>0. history \in Seq(BOOLEAN) /\ Len(history) <= MaxHistory /\ MaxTime \in Nat /\ MaxCalls \in Nat
  BY TemplateAssumption DEF IInv, TypeOK
<1> USE DEF IInv, TypeOK, Shaped, Targeted, Built, OnlyDefault
<1>1. CASE Call
  <2>1. \/ /\ pc' = "started" /\ outcome' = outcome
           /\ fields' = NoSubset \/ IsTable(fields')
        \/ pc' = "idle" /\ outcome' = [ok |-> FALSE, value |-> Nil]
    BY <1>1, Zenon DEF Call, Raise
  <2>2. calls' \in 0..MaxCalls
    BY <1>0, <1>1 DEF Call
  <2>3. /\ payload' \in Payloads /\ fields' \in Subsets
        /\ UNCHANGED <<target, began, ranAt, data, history, clock>>
    BY <1>1 DEF Call
  <2>4. CASE /\ pc' = "started" /\ outcome' = outcome
             /\ fields' = NoSubset \/ IsTable(fields')
    BY <2>2, <2>3, <2>4 DEF Subsets
  <2>5. CASE pc' = "idle" /\ outcome' = [ok |-> FALSE, value |-> Nil]
    BY <2>2, <2>3, <2>5
  <2> QED BY <2>1, <2>4, <2>5
<1>2. CASE Parse
  <2>1. CASE Keys(payload) = {} /\ RaiseLogged /\ target' = Nil
    BY <1>0, <1>2, <2>1, RaiseLoggedEnds DEF Parse, args, Nil
  <2>2. ASSUME NEW e \in Keys(payload), target' = Parsed(payload.at[e]),
               IF target' # Nil THEN pc' = "validate" /\ UNCHANGED <<outcome, history>>
               ELSE RaiseLogged
        PROVE  IInv'
    <3>1. IsText(payload.at[e])
      BY <1>2, PayloadsAssumption DEF Parse
    <3>2. target'.ty \in {"nil", "object", "string", "number"}
      BY <2>2, <3>1, ParsedType
    <3>3. CASE target' # Nil
      <4>1. pc' = "validate" /\ UNCHANGED <<outcome, history>>
        BY <2>2, <3>3
      <4>2. OnlyDefault => e = "default"
        OBVIOUS
      <4> QED BY <1>2, <2>2, <3>2, <4>1, <4>2 DEF Parse, args
    <3>4. CASE target' = Nil
      <4>1. RaiseLogged
        BY <2>2, <3>4
      <4> QED BY <1>0, <1>2, <3>2, <4>1, RaiseLoggedEnds DEF Parse, args
    <3> QED BY <3>3, <3>4
  <2> QED BY <1>2, <2>1, <2>2 DEF Parse
<1>3. CASE Validate
  <2>1. CASE Valid(target)
    <3>1. /\ pc' = "budget" /\ UNCHANGED <<args, target, began, ranAt, data, clock, calls>>
          /\ UNCHANGED <<outcome, history>>
      BY <1>3, <2>1 DEF Validate
    <3> QED BY <1>3, <2>1, <3>1 DEF Validate, args, Valid
  <2>2. CASE ~Valid(target)
    <3>1. RaiseLogged /\ UNCHANGED <<args, target, began, ranAt, data, clock, calls>>
      BY <1>3, <2>2 DEF Validate
    <3> QED BY <1>0, <3>1, RaiseLoggedEnds DEF args
  <2> QED BY <2>1, <2>2
<1>4. CASE Budget
  BY <1>4 DEF Budget, args, Valid
<1>5. CASE Enter
  <2>1. CASE clock - began > Timeout
    <3>1. /\ RaiseLogged /\ ranAt' = ranAt
          /\ UNCHANGED <<args, target, began, data, clock, calls>>
      BY <1>5, <2>1 DEF Enter
    <3> QED BY <1>0, <3>1, RaiseLoggedEnds DEF args
  <2>2. CASE ~(clock - began > Timeout)
    <3>1. /\ pc = "enter" /\ pc' = "process" /\ ranAt' = clock
          /\ UNCHANGED <<args, target, began, data, clock, calls>>
          /\ UNCHANGED <<outcome, history>>
      BY <1>5, <2>2 DEF Enter
    <3> QED BY <3>1 DEF args, Valid
  <2> QED BY <2>1, <2>2
<1>6. CASE Process
  <2>1. /\ pc = "process" /\ UNCHANGED <<args, target, began, ranAt, clock, calls>>
        /\ \/ RaiseLogged /\ data' = data
           \/ /\ pc' = "subset" /\ UNCHANGED <<outcome, history>>
              /\ data' = Obj(<<>>) \/ data' \in Outputs
    BY <1>6, Zenon DEF Process
  <2>2. CASE RaiseLogged /\ data' = data
    BY <1>0, <2>1, <2>2, RaiseLoggedEnds DEF args
  <2>3. CASE pc' = "subset" /\ UNCHANGED <<outcome, history>>
             /\ (data' = Obj(<<>>) \/ data' \in Outputs)
    BY <2>1, <2>3 DEF args
  <2> QED BY <2>1, <2>2, <2>3
<1>7. CASE Finish
  <2>1. /\ EndTimer(TRUE) /\ pc' = "idle" /\ outcome'.ok = TRUE
        /\ UNCHANGED <<args, target, began, ranAt, data, clock, calls>>
    BY <1>7 DEF Finish
  <2>2. history' \in Seq(BOOLEAN) /\ Len(history') <= MaxHistory
    BY <1>0, <2>1, EndTimerLogs
  <2> QED BY <2>1, <2>2 DEF args
<1>8. CASE Tick
  <2>1. clock' \in 0..MaxTime
    BY <1>0, <1>8 DEF Tick
  <2> QED BY <1>8, <2>1 DEF Tick, args, Valid
<1>9. CASE UNCHANGED vars
  BY <1>9 DEF vars, Valid
<1>10. CASE CheckPayload
  <2>1. /\ pc = "started" /\ UNCHANGED <<args, target, began, ranAt, data, history, clock, calls>>
        /\ \/ IsTable(payload) /\ pc' = "parse" /\ outcome' = outcome
           \/ pc' = "idle" /\ outcome' = [ok |-> FALSE, value |-> Nil]
    BY <1>10, Zenon DEF CheckPayload, Raise
  <2>2. CASE IsTable(payload) /\ pc' = "parse" /\ outcome' = outcome
    BY <2>1, <2>2 DEF args
  <2>3. CASE pc' = "idle" /\ outcome' = [ok |-> FALSE, value |-> Nil]
    BY <2>1, <2>3 DEF args
  <2> QED BY <2>1, <2>2, <2>3
<1> QED
  BY <1>1, <1>2, <1>3, <1>4, <1>5, <1>6, <1>7, <1>8, <1>9, <1>10 DEF Next

\* The invariant holds in every state of every sequence of calls.
THEOREM InvariantAlways == Spec => []IInv
BY InitIInv, NextIInv, PTL DEF Spec

\* The script keeps its types, and the history of outcomes its limit, over any
\* number of calls.
THEOREM TypeCorrect == Spec => []TypeOK
<1>1. IInv => TypeOK
  BY DEF IInv
<1> QED BY <1>1, InvariantAlways, PTL

-----------------------------------------------------------------------------
\* Every call past the checks of its arguments ends with one entry for its outcome.
Metric == IF pc \notin {"idle", "started"} /\ pc' = "idle" THEN Logged(outcome'.ok) ELSE history' = history

\* An error that is logged is such an end.
LEMMA RaiseLoggedMetric ==
    ASSUME IInv, pc \notin {"idle", "started"}, RaiseLogged
    PROVE  Metric
BY RaiseLoggedEnds DEF IInv, TypeOK, Metric

\* No other step logs anything.
LEMMA StepMetric == IInv /\ [Next]_vars => Metric
<1> SUFFICES ASSUME IInv, [Next]_vars PROVE Metric
  OBVIOUS
<1>1. CASE Call
  BY <1>1 DEF Call, Metric
<1>2. CASE Parse
  <2>1. pc = "parse" /\ (RaiseLogged \/ (pc' = "validate" /\ UNCHANGED <<outcome, history>>))
    BY <1>2 DEF Parse
  <2> QED BY <2>1, RaiseLoggedMetric DEF Metric
<1>3. CASE Validate
  <2>1. pc = "validate" /\ (RaiseLogged \/ (pc' = "budget" /\ UNCHANGED <<outcome, history>>))
    BY <1>3 DEF Validate
  <2> QED BY <2>1, RaiseLoggedMetric DEF Metric
<1>4. CASE Budget
  BY <1>4 DEF Budget, Metric
<1>5. CASE Enter
  <2>1. pc = "enter" /\ (RaiseLogged \/ (pc' = "process" /\ UNCHANGED <<outcome, history>>))
    BY <1>5 DEF Enter
  <2> QED BY <2>1, RaiseLoggedMetric DEF Metric
<1>6. CASE Process
  <2>1. pc = "process" /\ (RaiseLogged \/ (pc' = "subset" /\ UNCHANGED <<outcome, history>>))
    BY <1>6, Zenon DEF Process
  <2> QED BY <2>1, RaiseLoggedMetric DEF Metric
<1>7. CASE Finish
  <2>1. pc = "subset" /\ pc' = "idle" /\ EndTimer(TRUE) /\ outcome'.ok = TRUE
    BY <1>7 DEF Finish
  <2>2. Logged(TRUE)
    BY <2>1, EndTimerLogs DEF IInv, TypeOK
  <2> QED BY <2>1, <2>2 DEF Metric
<1>8. CASE Tick
  BY <1>8 DEF Tick, Metric
<1>9. CASE UNCHANGED vars
  BY <1>9 DEF vars, Metric
<1>10. CASE CheckPayload
  BY <1>10 DEF CheckPayload, Metric
<1> QED
  BY <1>1, <1>2, <1>3, <1>4, <1>5, <1>6, <1>7, <1>8, <1>9, <1>10 DEF Next

\* However a call ends once its payload has passed the check, it adds exactly one
\* entry, with its outcome, and drops the oldest only at the limit; no other step,
\* the exit for a payload that is no table included, touches the history.
THEOREM OneMetricAlways == Spec => OneMetricPerCall
<1>1. Metric => IF pc \notin {"idle", "started"} /\ pc' = "idle"
                THEN EntryAdded ELSE history' = history
  BY Zenon DEF Metric, Logged, Pushed, EntryAdded
<1> QED BY <1>1, StepMetric, InvariantAlways, PTL DEF Spec, OneMetricPerCall

-----------------------------------------------------------------------------
\* What process reads of a payload with one endpoint is what was validated.
LEMMA StepValidated ==
    ASSUME IInv, [Next]_vars, pc = "process", pc' = "subset", Keys(payload) = {"default"}
    PROVE  LET doc == payload.at["default"]
           IN  doc.ty = "object" /\ (doc.direct \/ doc.body = "table")
<1>1. Valid(Parsed(payload.at["default"]))
  BY DEF IInv, Targeted, OnlyDefault
<1> QED BY <1>1, ValidParsed

\* With no endpoint but 'default', what process reads has the required fields,
\* whatever earlier calls left in target.
THEOREM ProcessedIsValidatedAlways == Spec => ProcessedIsValidated
<1>1. IInv /\ [Next]_vars =>
          ((pc = "process" /\ pc' = "subset" /\ Keys(payload) = {"default"}) =>
             LET doc == payload.at["default"]
             IN  doc.ty = "object" /\ (doc.direct \/ doc.body = "table"))
  BY StepValidated
<1> QED BY <1>1, InvariantAlways, PTL DEF Spec, ProcessedIsValidated

-----------------------------------------------------------------------------
\* What a call returned holds no marker and, for a caller with a subset, nothing
\* outside it.
Returned == OnlySelected /\ NoMarksReturned

\* A call that comes to its end returns such a value.
LEMMA FinishReturns == ASSUME IInv, Finish PROVE Returned'
<1>1. /\ pc = "subset" /\ data \in Values /\ data.ty = "object"
      /\ fields = NoSubset \/ (fields \in Specs /\ IsTable(fields))
  BY TemplateAssumption DEF IInv, Shaped, Built, Finish
<1>2. UNCHANGED <<data, fields>>
  BY DEF Finish, args
<1>3. CASE fields = NoSubset
  <2>1. outcome'.value = convert_nulls[data]
    BY <1>3 DEF Finish
  <2>2. NoMarks[outcome'.value]
    BY <1>1, <2>1, ConvertedClean
  <2> QED
    BY <1>2, <1>3, <2>2 DEF Returned, OnlySelected, NoMarksReturned
<1>4. CASE fields # NoSubset
  <2>1. PICK s : s = apply_subsetting[<<data, fields>>]
    OBVIOUS
  <2>2. s # Nil /\ s \in Values
    BY <1>1, <1>4, <2>1, SelectedShape DEF SelectedOf
  <2>3. outcome'.value = convert_nulls[s]
    BY <1>4, <2>1, <2>2 DEF Finish
  <2>4. NoMarks[outcome'.value]
    BY <2>2, <2>3, ConvertedClean
  <2>5. outcome'.value = Nil \/ Within[<<outcome'.value, data, fields>>]
    BY <1>1, <1>4, <2>1, <2>2, <2>3, SelectedInside
  <2> QED
    BY <1>2, <2>4, <2>5 DEF Returned, OnlySelected, NoMarksReturned
<1> QED
  BY <1>3, <1>4

\* Nil, which stands for the result of a call that failed, is no marker.
LEMMA NilClean == NoMarks[Nil]
<1>1. NoMarks[Nil] = Unmarked(Nil, NoMarks)
  BY NoMarksDefined, TablesAssumption
<1>2. Unmarked(Nil, NoMarks)
  BY DEF Unmarked, IsTable, Nil
<1> QED
  BY <1>1, <1>2

\* An error returns nil.
LEMMA RaiseReturns == ASSUME Raise PROVE Returned'
<1>1. outcome'.ok = FALSE /\ outcome'.value = Nil
  BY DEF Raise
<1> QED
  BY <1>1, NilClean DEF Returned, OnlySelected, NoMarksReturned

\* Every step keeps it.
LEMMA StepReturns == IInv /\ Returned /\ [Next]_vars => Returned'
<1> SUFFICES ASSUME IInv, Returned, [Next]_vars PROVE Returned'
  OBVIOUS
<1>1. CASE pc' # "idle"
  BY <1>1 DEF Returned, OnlySelected, NoMarksReturned
<1>2. CASE Finish
  BY <1>2, FinishReturns
<1>3. CASE UNCHANGED vars
  BY <1>3 DEF vars, Returned, OnlySelected, NoMarksReturned
<1>4. CASE Next /\ pc' = "idle" /\ ~Finish
  <2>1. Raise
    BY <1>4, Zenon DEF Next, Call, CheckPayload, Parse, Validate, Budget, Enter, Process, Tick, RaiseLogged
  <2> QED
    BY <2>1, RaiseReturns
<1> QED
  BY <1>1, <1>2, <1>3, <1>4

\* It holds in every state of every sequence of calls.
LEMMA AlwaysReturned == Spec => []Returned
<1>1. Init => Returned
  <2> SUFFICES ASSUME Init PROVE Returned
    OBVIOUS
  <2>1. outcome.ok = FALSE /\ outcome.value = Nil
    BY DEF Init
  <2> QED
    BY <2>1, NilClean DEF Returned, OnlySelected, NoMarksReturned
<1> QED BY <1>1, StepReturns, InvariantAlways, PTL DEF Spec

\* Whatever table process builds and whatever subset of it a caller names, what
\* the caller gets is part of what the subset selects: the return of the whole
\* data when subsetting yields nothing is never taken.
THEOREM OnlySelectedAlways == Spec => []OnlySelected
<1>1. Returned => OnlySelected
  BY DEF Returned
<1> QED BY <1>1, AlwaysReturned, PTL

\* Whatever table process builds, no null or empty-array marker is left at any
\* depth of what a caller gets.
THEOREM NoMarksAlways == Spec => []NoMarksReturned
<1>1. Returned => NoMarksReturned
  BY DEF Returned
<1> QED BY <1>1, AlwaysReturned, PTL
=============================================================================
