---------------------------- MODULE MapperService ---------------------------
(***************************************************************************)
(* What a LuauEnvironment promises the code that holds it: calls are       *)
(* served one at a time, each gets exactly one answer, Ok or Err, after    *)
(* which the environment takes the next one, until it is dropped.  The     *)
(* process may die while a call is being served, and only then.            *)
(***************************************************************************)
EXTENDS Naturals

VARIABLES
    phase,      \* "unborn", "ready", "busy" or "gone"
    answer,     \* the answer to the last call, "none" while it is served
    served      \* calls taken so far

svars == <<phase, answer, served>>

Init == phase = "unborn" /\ answer = "none" /\ served = 0

Create == /\ phase = "unborn"
          /\ \/ phase' = "ready" /\ answer' = "none"
             \/ phase' = "gone" /\ answer' = "err"
          /\ UNCHANGED served

Accept == /\ phase = "ready" /\ phase' = "busy"
          /\ answer' = "none"
          /\ served' = served + 1

Refuse == /\ phase = "ready" /\ phase' = "ready"
          /\ answer' = "err"
          /\ served' = served + 1

Answer == /\ phase = "busy" /\ phase' = "ready"
          /\ answer' \in {"ok", "err"}
          /\ UNCHANGED served

Die    == /\ phase = "busy" /\ phase' = "gone"
          /\ UNCHANGED <<answer, served>>

Drop   == /\ phase = "ready" /\ phase' = "gone"
          /\ UNCHANGED <<answer, served>>

Next == Create \/ Accept \/ Refuse \/ Answer \/ Die \/ Drop

\* A call being served is not left without an answer.
Spec == Init /\ [][Next]_svars /\ WF_svars(Answer \/ Die)
=============================================================================
