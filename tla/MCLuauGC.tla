------------------------------ MODULE MCLuauGC ------------------------------
(***************************************************************************)
(* Memory has room for few objects, of the kinds that meet in one hazard.  *)
(***************************************************************************)
EXTENDS LuauGC, TLC

CONSTANTS main, co, co2, G, t, w, f, u, s, nil

MCThreads   == {main, co, co2}
MCTables    == {G, t, w}
MCClosures  == {f}
MCUpVals    == {u}
MCStrings   == {s}
MCWeakMetas == {w}
MCPage == (main :> 0 @@ G :> 0 @@ co :> 1 @@ co2 :> 1 @@ w :> 2 @@ t :> 3 @@ f :> 4 @@ u :> 5 @@ s :> 6)

\* Objects beside the main thread and the globals; slots of the main thread and
\* of others.
Use(os, m, c, b, a) ==
    [objects |-> os, slots |-> [th \in Threads |-> IF th = main THEN m ELSE c],
     basic |-> b, collect |-> a]

MCUses ==
    {Use({w, co}, 2, 0, FALSE, TRUE),      \* weak tables, and an object in them
     Use({w, s}, 2, 0, TRUE, TRUE),        \* strings in them; basic metatables
     Use({f, u, s}, 2, 0, FALSE, FALSE),   \* upvalues of a running function
     Use({co, f, u}, 1, 2, FALSE, FALSE),  \* of a coroutine, suspended or lost
     Use({co, s}, 2, 1, FALSE, TRUE),      \* values moved between coroutines
     Use({co, co2}, 1, 1, FALSE, FALSE),   \* coroutines that resume coroutines
     Use({G, w}, 1, 0, FALSE, FALSE)}      \* tables in tables
=============================================================================
