----------------------------- MODULE MapperHost -----------------------------
(***************************************************************************)
(* The bridge between the Rust host (sample/sgx-luau/src/main.rs,          *)
(* LuauEnvironment) and the Luau VM (execute_mapper and                    *)
(* execute_mapper_with_parsed_data in luau_wrapper.cpp, which take the     *)
(* same steps).  One environment, hence one Lua state, serves a sequence   *)
(* of calls; a LuauEnvironment holds a raw pointer and stays on one        *)
(* thread, so calls do not overlap.                                        *)
(*                                                                         *)
(* What is kept: the height of the Lua stack of the main thread, the C     *)
(* allocations of a call and who frees them, and every early return.  What *)
(* scripts compute is abstracted to the kind of value or error they leave. *)
(* The null-argument test of the C++ side is left out: CString pointers    *)
(* and a state accepted by LuauEnvironment::new are never null.            *)
(***************************************************************************)
EXTENDS Naturals, FiniteSets

CONSTANTS
    MaxCalls,   \* bound: calls made on one environment
    MaxNest,    \* bound: nesting of the table a mapper returns
    MinStack    \* LUA_MINSTACK

ASSUME BoundAssumption == MaxCalls \in Nat /\ MaxNest \in Nat \ {0} /\ MinStack \in Nat

VARIABLES
    pc,         \* where the host, or the C++ function it called, is
    top,        \* lua_gettop of the environment's main thread
    peak,       \* history: the most slots ever in use
    live,       \* C allocations of the current call not yet freed
    success,    \* LuauResult.success
    outcome,    \* what the last call returned to the Rust caller
    calls,      \* history: calls made
    loads,      \* history: calls that got as far as luau_load
    undecoded,  \* history: results that were not UTF-8
    leaked      \* history: allocations no one can free any more

vars == <<pc, top, peak, live, success, outcome, calls, loads, undecoded, leaked>>

Block   == {"result", "bytecode", "json", "error"}
Calling == {"compile", "load", "run", "build", "call", "returned"}

-----------------------------------------------------------------------------
\* The history of a step during which the stack is n slots high.
Reaches(n) == peak' = IF n > peak THEN n ELSE peak

\* The C++ function returns an error after freeing the bytecode, if it has
\* any.  strdup may fail, which leaves error_message null.
FailWith(blocks) ==
    /\ \E msg \in SUBSET {"error"} : live' = (blocks \ {"bytecode"}) \cup msg
    /\ pc' = "returned"

\* strdup(lua_tostring(L, -1)) on an error object that is neither a string nor
\* a number: lua_tostring returns NULL and the process dies in strdup.
Crash ==
    /\ pc' = "aborted"
    /\ UNCHANGED <<top, peak, live, success, outcome, calls, loads, undecoded, leaked>>

Init ==
    /\ pc = "start"
    /\ top = 0 /\ peak = 0
    /\ live = {}
    /\ success = FALSE
    /\ outcome = "none"
    /\ calls = 0 /\ loads = 0 /\ undecoded = 0 /\ leaked = 0

\* LuauEnvironment::new and create_luau_env; parse_json is set as a global,
\* which leaves the stack as it was.
NewEnvironment ==
    /\ pc = "start"
    /\ pc' \in {"idle", "closed"}
    /\ outcome' = IF pc' = "idle" THEN "none" ELSE "err"
    /\ UNCHANGED <<top, peak, live, success, calls, loads, undecoded, leaked>>

\* A script or a payload with a NUL byte is refused by CString::new.
CallRefused ==
    /\ pc = "idle"
    /\ calls < MaxCalls
    /\ calls' = calls + 1
    /\ outcome' = "err"
    /\ UNCHANGED <<pc, top, peak, live, success, loads, undecoded, leaked>>

\* The call crosses into C++: new LuauResult{false, nullptr, nullptr}.
CallBegin ==
    /\ pc = "idle"
    /\ calls < MaxCalls
    /\ calls' = calls + 1
    /\ live' = {"result"}
    /\ success' = FALSE
    /\ outcome' = "none"
    /\ pc' = "compile"
    /\ UNCHANGED <<top, peak, loads, undecoded, leaked>>

\* luau_compile returns null only when memory runs out; a syntax error is
\* bytecode that luau_load refuses.
Compile ==
    /\ pc = "compile"
    /\ \/ live' = live \cup {"bytecode"} /\ pc' = "load"
       \/ FailWith(live)
    /\ UNCHANGED <<top, peak, success, outcome, calls, loads, undecoded, leaked>>

\* Mutant: the bytecode of a script luau_load refuses is not freed.
LoadKeepsBytecode ==
    /\ pc = "load"
    /\ top' = top + 1
    /\ Reaches(top + 1)
    /\ loads' = loads + 1
    /\ \/ pc' = "run" /\ live' = live
       \/ pc' = "returned" /\ live' = live \cup {"error"}
    /\ UNCHANGED <<success, outcome, calls, undecoded, leaked>>

\* luau_load leaves one slot either way: the closure or the message.
Load ==
    /\ pc = "load"
    /\ top' = top + 1
    /\ Reaches(top + 1)
    /\ loads' = loads + 1
    /\ \/ pc' = "run" /\ live' = live
       \/ FailWith(live)
    /\ UNCHANGED <<success, outcome, calls, undecoded, leaked>>

\* lua_pcall(L, 0, 1, 0) replaces the closure by one value: the mapper
\* function, something that is no function, or an error object.
RunScript ==
    /\ pc = "run"
    /\ \/ pc' = "build" /\ live' = live
       \/ FailWith(live)
    /\ UNCHANGED <<top, peak, success, outcome, calls, loads, undecoded, leaked>>

RunScriptRaisesObject == pc = "run" /\ Crash

\* params = {payload = {default = text}}: three pushes, two lua_setfield pops.
BuildParams ==
    /\ pc = "build"
    /\ top' = top + 1
    /\ Reaches(top + 3)
    /\ pc' = "call"
    /\ UNCHANGED <<live, success, outcome, calls, loads, undecoded, leaked>>

\* Mutants: n slots are gone once the mapper has returned.
CallMapperPops(n) ==
    /\ pc = "call"
    /\ top' = top - n
    /\ success' = TRUE
    /\ live' = (live \ {"bytecode"}) \cup {"json"}
    /\ pc' = "returned"
    /\ UNCHANGED <<peak, outcome, calls, loads, undecoded, leaked>>

CallMapperPopsResult == CallMapperPops(2)
CallMapperUnderflow  == CallMapperPops(3)

\* lua_pcall(L, 1, 1, 0) replaces mapper and params by one value, which
\* nothing pops.  A table is converted by lua_table_to_json, which keeps up to a
\* key and a value on the stack for each level it is in (JsonSerializer); a
\* string, a number or a boolean needs no slots; a nil, a function or an error
\* object is refused.
CallMapper ==
    /\ pc = "call"
    /\ top' = top - 1
    /\ \/ /\ \E slots \in 0 .. 2 * MaxNest : Reaches(top - 1 + slots)
          /\ success' = TRUE
          /\ \E json \in SUBSET {"json"} : live' = (live \ {"bytecode"}) \cup json
          /\ pc' = "returned"
       \/ FailWith(live) /\ UNCHANGED <<success, peak>>
    /\ UNCHANGED <<outcome, calls, loads, undecoded, leaked>>

\* An error object without a string form, or a Lua error raised by lua_next
\* inside lua_table_to_json, outside every lua_pcall.
CallMapperRaises == pc = "call" /\ Crash

\* Mutant: an error closes the environment.
TakeResultCloses ==
    /\ pc = "returned"
    /\ outcome' = IF success /\ "json" \in live THEN "ok" ELSE "err"
    /\ live' = {}
    /\ pc' = IF outcome' = "ok" THEN "idle" ELSE "closed"
    /\ UNCHANGED <<top, peak, success, calls, loads, undecoded, leaked>>

\* The Rust side copies result_json, or the error message, and frees the
\* result with free_luau_result.
TakeResult ==
    /\ pc = "returned"
    /\ outcome' = IF success /\ "json" \in live THEN "ok" ELSE "err"
    /\ live' = {}
    /\ pc' = "idle"
    /\ UNCHANGED <<top, peak, success, calls, loads, undecoded, leaked>>

\* result_json is not UTF-8: map_err(..)? returns before free_luau_result.
TakeUndecodable ==
    /\ pc = "returned"
    /\ success /\ "json" \in live
    /\ outcome' = "err"
    /\ leaked' = leaked + Cardinality(live)
    /\ undecoded' = undecoded + 1
    /\ live' = {}
    /\ pc' = "idle"
    /\ UNCHANGED <<top, peak, success, calls, loads>>

\* Drop: close_luau_env.
DropEnvironment ==
    /\ pc = "idle"
    /\ pc' = "closed"
    /\ top' = 0
    /\ UNCHANGED <<peak, live, success, outcome, calls, loads, undecoded, leaked>>

Next ==
    \/ NewEnvironment \/ CallRefused \/ CallBegin
    \/ Compile \/ Load \/ RunScript \/ RunScriptRaisesObject
    \/ BuildParams \/ CallMapper \/ CallMapperRaises
    \/ TakeResult \/ TakeUndecodable \/ DropEnvironment

\* A script may run for ever: nothing interrupts it.  Fairness says that the
\* scripts of a call come to an end, and that the C++ and Rust code goes on.
Spec == Init /\ [][Next]_vars /\ WF_vars(pc \in Calling /\ Next)

-----------------------------------------------------------------------------
TypeOK ==
    /\ pc \in Calling \cup {"start", "idle", "closed", "aborted"}
    /\ top \in Nat /\ peak \in Nat
    /\ live \in SUBSET Block
    /\ success \in BOOLEAN
    /\ outcome \in {"none", "ok", "err"}
    /\ calls \in 0 .. MaxCalls /\ loads \in 0 .. MaxCalls /\ undecoded \in 0 .. MaxCalls
    /\ leaked \in Nat

(***************************************************************************)
(* Every call that gets as far as luau_load leaves exactly one slot behind *)
(* on the environment's stack, whatever it ended with: a value, a message  *)
(* or an error object.  No path leaves two, and none gives one back, so    *)
(* the slots a call works in start where the previous calls ended.         *)
(***************************************************************************)
OneSlotPerCall ==
    /\ pc \in Calling \cup {"idle"} => top = loads + (IF pc = "call" THEN 1 ELSE 0)
    /\ pc \in Calling \cup {"idle"} => peak <= loads + (IF MaxNest > 1 THEN 2 * MaxNest ELSE 3)

(***************************************************************************)
(* Memory: between calls nothing the C++ side allocated is still live      *)
(* except what an undecodable result left behind, which is its LuauResult  *)
(* and its string; and bytecode never survives the C++ function.           *)
(***************************************************************************)
LeakAccounting ==
    /\ leaked = 2 * undecoded
    /\ pc \in {"idle", "closed"} => live = {}
    /\ pc = "returned" => "bytecode" \notin live

\* The abstract view: pc is what phase the service is in.
Phase == IF pc = "start" THEN "unborn"
         ELSE IF pc = "idle" THEN "ready"
         ELSE IF pc \in Calling THEN "busy"
         ELSE "gone"

Service == INSTANCE MapperService WITH phase <- Phase, answer <- outcome, served <- calls

\* The bridge implements the service: one answer per call and no call left
\* without one, on every path through the C++ and the Rust code.
ImplementsService == Service!Spec

\* The slots in use never exceed what the VM reserved for the main thread.
WithinReservation == peak <= MinStack
=============================================================================
