-------------------------- MODULE MCJsonSerializer --------------------------
(***************************************************************************)
(* Instances of JsonSerializer: heaps of two tables that may contain each  *)
(* other and themselves, and single tables with any mix of keys.           *)
(***************************************************************************)
EXTENDS JsonWritings

CONSTANTS s1, e1, u1, d1, d2, d3, r1, n1, t1

\* e1 has a quote in it, u1 a control character; d1, d2, d3 are "1", "2", "3" and
\* r1 is "1.0"; t1 is n1 as a string.
MCDigits  == <<d1, d2, d3>>
MCDecimal == [x \in {n1} |-> t1]
MCIndexOf == [x \in {s1, e1, u1, d1, d2, d3, r1, t1} |->
                 CASE x \in {d1, r1} -> 1 [] x = d2 -> 2 [] x = d3 -> 3 [] OTHER -> 0]

\* The tables with keys from K and values from V.
TablesOf(K, V) == UNION {{{<<k, f[k]>> : k \in S} : f \in [S -> V]} : S \in SUBSET K}
Arrays(V)      == UNION {TablesOf({Index(i) : i \in 1 .. n}, V) : n \in 0 .. 2}
HasKeys(t, n)  == {e[1] : e \in t} = {Index(i) : i \in 1 .. n}

Scalars == {Atom(n1), Atom(e1), Opaque}
Names   == {Atom(s1), Atom("true")}
Refs    == {Table(1), Table(2)}

\* Arrays and objects; a table may be shared or contain itself.
PlainTables == {t \in Arrays(Scalars \cup Refs) : \E n \in 0 .. 2 : HasKeys(t, n)}
                  \cup TablesOf(Names, Scalars \cup Refs)
ArrayHeaps  == {<<a, b>> : a \in PlainTables, b \in PlainTables}

\* Tables with any keys, none of them a number whose text is a key as well.
AnyKeys   == {Index(1), Index(2), Index(3), Atom(d1), Atom(r1), Atom(d3), Atom(s1), Atom(n1)}
Twins(t)  == \E i \in 1 .. 3 : {Index(i), Atom(Digits[i])} \subseteq {e[1] : e \in t}
AnyTables == TablesOf(AnyKeys, {Atom("true")})
MixedHeaps == {<<a, b>> : a \in {{<<Atom(s1), Table(2)>>}}, b \in {t \in AnyTables : ~Twins(t)}}
AllHeaps  == {<<t>> : t \in AnyTables}

\* Tables with strings that JSON text must escape, as keys and as values.
RawTables == TablesOf({Atom(s1), Atom(e1)}, {Atom(e1), Atom(u1)})
RawHeaps  == {<<t>> : t \in RawTables}
MCHeaps   == ArrayHeaps \cup MixedHeaps \cup RawHeaps

\* "Generic function to convert a Lua table to JSON string": the text is JSON.
OutputIsJson == at = "done" => "badstr" \notin Range(out)
=============================================================================
