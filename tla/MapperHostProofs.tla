-------------------------- MODULE MapperHostProofs --------------------------
(***************************************************************************)
(* Proofs about MapperHost, for every number of calls, every nesting of    *)
(* results and every reservation.                                          *)
(***************************************************************************)
EXTENDS MapperHost, FiniteSetTheorems, TLAPS

\* What is live at each point of a call.
LiveBlocks ==
    /\ pc = "compile" => live = {"result"}
    /\ pc \in {"load", "run", "build", "call"} => live = {"result", "bytecode"}
    /\ pc = "returned" => live = {"result"} \/ live = {"result", "error"} \/ live = {"result", "json"}
    /\ pc \in {"start", "idle", "closed"} => live = {}

\* Counters are ordered: no call is counted twice.
Counters == /\ loads <= calls /\ undecoded <= calls
            /\ pc \in {"compile", "load"} => loads < calls
            /\ pc \in Calling => undecoded < calls
            /\ pc = "start" => top = 0 /\ peak = 0 /\ loads = 0 /\ calls = 0

IInv == TypeOK /\ LiveBlocks /\ Counters /\ OneSlotPerCall /\ leaked = 2 * undecoded

\* FailWith leaves at most the message, and no bytecode.
LEMMA FailWithLive ==
    ASSUME NEW B, FailWith(B)
    PROVE  /\ pc' = "returned"
           /\ live' = B \ {"bytecode"} \/ live' = (B \ {"bytecode"}) \cup {"error"}
<1>1. pc' = "returned"
  BY DEF FailWith
<1>2. PICK msg \in SUBSET {"error"} : live' = (B \ {"bytecode"}) \cup msg
  BY DEF FailWith
<1>3. msg = {} \/ msg = {"error"}
  OBVIOUS
<1> QED BY <1>1, <1>2, <1>3

\* The invariant holds at the start.
LEMMA InitIInv == Init => IInv
<1>1. Init => success \in BOOLEAN
  BY Zenon DEF Init
<1> QED
  BY <1>1, BoundAssumption
     DEF Init, IInv, TypeOK, LiveBlocks, Counters, OneSlotPerCall, Block, Calling

\* Every step preserves the invariant.
LEMMA NextIInv == IInv /\ [Next]_vars => IInv'
<1> SUFFICES ASSUME IInv, [Next]_vars PROVE IInv'
  OBVIOUS
<1> USE BoundAssumption DEF IInv, TypeOK, LiveBlocks, Counters, OneSlotPerCall, Block, Calling, Reaches
<1>1. CASE NewEnvironment
  BY <1>1 DEF NewEnvironment
<1>2. CASE CallRefused
  BY <1>2 DEF CallRefused
<1>3. CASE CallBegin
  <2>1. success' \in BOOLEAN
    BY <1>3, Zenon DEF CallBegin
  <2> QED BY <1>3, <2>1 DEF CallBegin
<1>4. CASE Compile
  <2>1. CASE FailWith(live)
    <3>1. pc' = "returned" /\ (live' = {"result"} \/ live' = {"result", "error"})
      BY <1>4, <2>1, FailWithLive DEF Compile
    <3> QED BY <1>4, <3>1 DEF Compile
  <2>2. CASE ~FailWith(live)
    <3>1. live' = {"result", "bytecode"} /\ pc' = "load"
      BY <1>4, <2>2 DEF Compile
    <3> QED BY <1>4, <3>1 DEF Compile
  <2> QED BY <2>1, <2>2
<1>5. CASE Load
  <2>1. CASE FailWith(live)
    <3>1. pc' = "returned" /\ (live' = {"result"} \/ live' = {"result", "error"})
      BY <1>5, <2>1, FailWithLive DEF Load
    <3> QED BY <1>5, <3>1 DEF Load
  <2>2. CASE ~FailWith(live)
    BY <1>5, <2>2 DEF Load
  <2> QED BY <2>1, <2>2
<1>6. CASE RunScript
  <2>1. CASE FailWith(live)
    <3>1. pc' = "returned" /\ (live' = {"result"} \/ live' = {"result", "error"})
      BY <1>6, <2>1, FailWithLive DEF RunScript
    <3> QED BY <1>6, <3>1 DEF RunScript
  <2>2. CASE ~FailWith(live)
    BY <1>6, <2>2 DEF RunScript
  <2> QED BY <2>1, <2>2
<1>7. CASE RunScriptRaisesObject
  BY <1>7 DEF RunScriptRaisesObject, Crash
<1>8. CASE BuildParams
  BY <1>8 DEF BuildParams
<1>9. CASE CallMapper
  <2>0. pc = "call" /\ top' = top - 1 /\ UNCHANGED <<outcome, calls, loads, undecoded, leaked>>
    BY <1>9 DEF CallMapper
  <2>1. CASE FailWith(live) /\ UNCHANGED <<success, peak>>
    <3>1. pc' = "returned" /\ (live' = {"result"} \/ live' = {"result", "error"})
      BY <2>0, <2>1, FailWithLive
    <3> QED BY <2>0, <2>1, <3>1
  <2>2. CASE /\ \E slots \in 0 .. 2 * MaxNest : Reaches(top - 1 + slots)
             /\ success' = TRUE
             /\ \E json \in SUBSET {"json"} : live' = (live \ {"bytecode"}) \cup json
             /\ pc' = "returned"
    <3>1. success' \in BOOLEAN
      BY <2>2, Zenon
    <3>2. PICK json \in SUBSET {"json"} : live' = (live \ {"bytecode"}) \cup json
      BY <2>2
    <3>3. live' = {"result"} \/ live' = {"result", "json"}
      <4>1. json = {} \/ json = {"json"}
        OBVIOUS
      <4>2. live = {"result", "bytecode"}
        BY <2>0
      <4> QED BY <3>2, <4>1, <4>2
    <3>4. PICK slots \in 0 .. 2 * MaxNest : Reaches(top - 1 + slots)
      BY <2>2
    <3>5. peak' \in Nat /\ peak' <= loads + (IF MaxNest > 1 THEN 2 * MaxNest ELSE 3)
      BY <2>0, <3>4
    <3> QED BY <2>0, <2>2, <3>1, <3>3, <3>5
  <2> QED BY <1>9, <2>1, <2>2 DEF CallMapper
<1>10. CASE CallMapperRaises
  BY <1>10 DEF CallMapperRaises, Crash
<1>11. CASE TakeResult
  BY <1>11 DEF TakeResult
<1>12. CASE TakeUndecodable
  <2>1. live = {"result", "json"}
    BY <1>12 DEF TakeUndecodable
  <2>2. Cardinality({"result", "json"}) = 2
    <3>1. IsFiniteSet({"json"}) /\ Cardinality({"json"}) = 1
      BY FS_Singleton
    <3>2. Cardinality({"json"} \cup {"result"}) = Cardinality({"json"}) + 1
      BY <3>1, FS_AddElement
    <3>3. {"json"} \cup {"result"} = {"result", "json"}
      OBVIOUS
    <3> QED BY <3>1, <3>2, <3>3
  <2> QED BY <1>12, <2>1, <2>2 DEF TakeUndecodable
<1>13. CASE DropEnvironment
  BY <1>13 DEF DropEnvironment
<1>14. CASE UNCHANGED vars
  BY <1>14 DEF vars
<1> QED
  BY <1>1, <1>2, <1>3, <1>4, <1>5, <1>6, <1>7, <1>8, <1>9, <1>10, <1>11, <1>12, <1>13, <1>14 DEF Next

\* So it holds in every state.
LEMMA Invariance == Spec => []IInv
  BY InitIInv, NextIInv, PTL DEF Spec

\* Every state of the bridge is well typed.
THEOREM TypeCorrect == Spec => []TypeOK
  BY Invariance, PTL DEF IInv

\* On every path through the C++ code a call leaves one slot on the Lua stack,
\* so the n-th call needs the reservation of the first plus n - 1 slots.
THEOREM OneSlotPerCallAlways == Spec => []OneSlotPerCall
  BY Invariance, PTL DEF IInv

\* Every block the C++ side allocates is freed by the end of its call, on every
\* early return; only a result that is not UTF-8 leaves blocks behind, and it
\* leaves two.
THEOREM LeakAccountingAlways == Spec => []LeakAccounting
<1>1. IInv => LeakAccounting
  BY DEF IInv, LiveBlocks, LeakAccounting, Calling
<1> QED BY <1>1, Invariance, PTL

\* The safety part of ImplementsService: the bridge starts as the service does,
\* and each of its steps is a step of the service or invisible to it.
THEOREM ServiceSafety == Spec => Service!Init /\ [][Service!Next]_(Service!svars)
<1>1. Init => Service!Init
  BY DEF Init, Service!Init, Phase
<1>2. IInv /\ [Next]_vars => [Service!Next]_(Service!svars)
  <2> SUFFICES ASSUME IInv, [Next]_vars PROVE [Service!Next]_(Service!svars)
    OBVIOUS
  <2> USE DEF Phase, Calling, Service!svars, Service!Next
  <2>1. CASE NewEnvironment
    BY <2>1 DEF NewEnvironment, Service!Create
  <2>2. CASE CallRefused
    BY <2>2 DEF CallRefused, Service!Refuse
  <2>3. CASE CallBegin
    BY <2>3 DEF CallBegin, Service!Accept
  <2>4. CASE Compile \/ Load \/ RunScript \/ BuildParams \/ CallMapper
    BY <2>4 DEF Compile, Load, RunScript, BuildParams, CallMapper, FailWith
  <2>5. CASE RunScriptRaisesObject \/ CallMapperRaises
    BY <2>5 DEF RunScriptRaisesObject, CallMapperRaises, Crash, Service!Die
  <2>6. CASE TakeResult \/ TakeUndecodable
    BY <2>6 DEF TakeResult, TakeUndecodable, Service!Answer
  <2>7. CASE DropEnvironment
    BY <2>7 DEF DropEnvironment, Service!Drop
  <2>8. CASE UNCHANGED vars
    BY <2>8 DEF vars
  <2> QED BY <2>1, <2>2, <2>3, <2>4, <2>5, <2>6, <2>7, <2>8 DEF Next
<1> QED BY <1>1, <1>2, Invariance, PTL DEF Spec
=============================================================================
