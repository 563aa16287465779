# Verification of ScriptShield-Luau

ScriptShield runs script interpreters inside SGX enclaves.  The repository has
two generations of it: an SDK-based one for Lua, JavaScript and Squirrel
(`src/`, `libs/`, `sample/sgx-lua` and others), whose own code is an enclave
launcher and a system call shim under a patched musl; and a Gramine-based one
for Luau (`sample/sgx-luau`), whose own code is the C++ wrapper around the Luau
VM, its Rust host and a mapper script.  Paths below are relative to the
repository.

## Inventory

| Part | Where | State it keeps | Operations | Interacts with |
|---|---|---|---|---|
| JSON reader | `sample/sgx-luau/src/luau_wrapper.cpp` 25-328 | position in the text; tables under construction on the Lua stack; C++ recursion | `parse_json` and a function per kind of value | called by scripts as a global; the Lua API |
| JSON writer | same, 330-464 | the C++ recursion; keys and values on the Lua stack; text written | `lua_table_to_json` | the Lua API (`lua_next`, `lua_rawgeti`, `lua_tostring`); called by the bridge |
| Mapper bridge | same, 682-889; `sample/sgx-luau/src/main.rs` 8-137 | a Lua state per environment; a `LuauResult` and its strings per call | `LuauEnvironment::new`, `execute_mapper`, `execute_mapper_with_parsed_data`, `drop` | Rust host to C++ to VM to script |
| Test drivers | same, 466-681, 891-904; `main.rs` 139-274 | none | `run_all_tests`, `run_enhanced_test` | call the three parts above |
| Mapper script framework | `sample/sgx-luau/production-script.lua` | metric history and error log with caps | parse, validate, time budget, map, subset, remove null markers | runs inside the bridge's calls |
| Luau collector | `sample/sgx-luau/luau-src/VM/src/lgc.cpp`, `lfunc.cpp`, `ldo.cpp`, `lapi.cpp` and others | colours, gray lists, phase, sweep position; every reference in the VM | incremental steps, `luaC_fullgc`, barriers | interleaved with every script and every API call |
| System call shim | `src/Enclave/Enclave_syscalls.c`, `src/App/App_syscalls.c`, musl's `arch/x86_64/syscall_arch.h` | untrusted buffers per call | one function per system call: copy in, OCALL, copy back, free | in-enclave libc to untrusted host |
| Streams over the shim | `src/musl-sgx/src/stdio` | a FILE's buffer, flags and direction; the host's offset | `fwrite`, `fread`, `fflush`, `fseek`, `ftell`, `fclose` | shim's `readv`, `writev`, `lseek` |
| Process emulation | the shim's `clone`, `pipe2`, `execve`, `wait4`; musl's `popen`, `pclose`, `system`, `posix_spawn`; `App.cpp` | descriptors, child identity | spawn and wait | shim, host, other threads of the enclave |
| Enclave launcher | `src/App/App.cpp` | the launch-token file | load token, create enclave, save token | file system, SGX SDK, other launches |
| Deployment | `start.sh`, Docker and manifest files | none | | |
| Third party | Luau's compiler and libraries, Lua 5.3, mujs, Squirrel, musl | | | |

What is hard in this code, and what makes each part correct:

* **Reader.**  Correctness rests on where things are on the Lua stack: every
  store is to slot -2 or -3, after an arbitrary amount of recursion.  Malformed
  text makes some calls stop early with a slot too many on the stack, and the
  callers go on.  A container must never lose its table; as long as nothing
  goes stray each store must hit the container that makes it; a well-formed
  text must give the value it denotes; every text must be read to an end; and
  the slots needed must be bounded.
* **Writer.**  It reads a table in the order of its hash, keeps its place in
  slots it also converts, recurses over data that may be cyclic, and runs
  outside `lua_pcall`.  The stack must be restored at every level, every entry
  must be written once, and the text must be JSON of the table.
* **Bridge.**  One Lua state and C allocations live across a sequence of calls
  that may end in about ten different ways.  Each call must get one answer, free
  what it allocated, and leave the state fit for the next call.
* **Mapper framework.**  A call leaves by one of many exits, two of them inside
  `pcall`; data passes through validation, a caller's selection and a removal of
  markers, each of which has a fallback.
* **Collector.**  It runs between any two allocations of a script that keeps
  changing references through a dozen operations, some with a barrier and some
  deliberately without.  Nothing reachable may be freed; what an abandoned
  marking left behind must not keep garbage for ever; each object has one list
  link and three lists to be in.
* **Streams.**  One buffer serves reading and writing, transfers may be partial
  or fail, the descriptor is ahead of or behind the position the program sees.
  Through all of it the stream has to be one file with one position.
* **Process emulation.**  Several threads share one table of descriptors; a call
  has many exits; the child libc waits for never exists.
* **Launcher.**  A file is truncated and rewritten, by several processes that may
  be killed at any point.

`PROJECT.json` lists the hazards at their lines.

## Modules

| Module | Contents |
|---|---|
| `LuaValues` | Lua values as the wrapper tells them apart; tables as references into a heap of entry sets |
| `JsonParser` | the reader as a state machine: one action per step of the recursive descent |
| `JsonLayouts` | what a well-formed text means to the reader, without recursion: where its containers open, close and have their values, and the tables they denote |
| `JsonSerializer` | the writer as a state machine |
| `JsonWritings` | the JSON texts of the tables of a heap, as recursive functions of the levels and of the entries |
| `JsonConversion` | reader, then writer, on one Lua stack (`run_simple_json_test`); which documents come back, and as what |
| `JsonDocuments` | reference definitions for TLC: the text of a document, the value it denotes, the texts a value may be written as |
| `MapperService` | abstract specification of the bridge: one answer per call |
| `MapperHost` | the bridge in detail; `ImplementsService` is the refinement |
| `MapperValues`, `MapperTables` | the tables of the mapper script; its functions over a whole table, as recursive functions, and what they may return |
| `MapperTemplate` | calls of one mapper made by `create_mapper` |
| `LuauGC` | the incremental collector under a mutator |
| `Bytes`, `ByteFile` | sequences of bytes; what a C program may expect of an update stream |
| `EnclaveStdio` | the stream, the shim and the host's file in detail; `ImplementsByteFile` is the refinement |
| `ProcessSpawn` | `popen`, `pclose` and `system` by several threads over a clone that starts nothing |
| `LaunchToken` | the launch-token file under concurrent, killed launches |
| `MCJsonParser`, `MCJsonSerializer`, `MCJsonConversion`, `MCMapperTemplate`, `MCLuauGC`, `MCEnclaveStdio`, `MCProcessSpawn` | instances for TLC (the other two need only a cfg) |
| `JsonParserProofs`, `JsonSerializerProofs`, `MapperHostProofs`, `LaunchTokenProofs`, `ProcessSpawnProofs`, `EnclaveStdioProofs`, `LuauGCProofs`, `MapperTemplateProofs` | their theorems |

The reader and the writer are composed in `JsonConversion`; the bridge meets
them only through the outcomes a script or a conversion may have, which
`json_conversion` and `json_null_element` justify.  The collector's mutator is
every script, so it is checked on its own.

Definitions named after a property's violation (`StoreMemberKeepsKey`, ...) are
mutants: plausible bugs each property is tested against.

### How the models correspond to the code

**JsonParser.**  `text` is a sequence of lexemes and `pos` the pointer `json`.
White space is dropped, as the code skips it before each test; the characters of
one string or number are one lexeme, either accepted or given up on (`badstr`,
`badnum`; the characters after that point are the lexemes that follow).  A string
literal with a `\uXXXX` is a lexeme of `Hex`, and `Kept` is the string that
`parse_json_string` makes of it: it keeps the six characters, so it is not the string
the text denotes.  A string with a non-ASCII character is `wide` followed by `tail`: `char` is signed in this
build, so the first such byte compares below 0x20.  `frames` is the C++
recursion, with the slot (`base`) at which a call pushed its table; `stack` is the
Lua stack of the C function; `heap` the tables.  `OpenTable`, `Opened`,
`ArrayItem`, `ObjectKey`, `ObjectColon`, `StoreElement`, `StoreMember` and
`Separator` are the steps of `parse_json_array` and `parse_json_object` in their
order, `ParseScalar` every branch of `parse_json_value` that pushes one value.
`stray` is a history variable.  Nothing asks for stack slots: `Overrun` is a push with
`MinStack` slots in use (`LUA_MINSTACK`, 20 in the build), after which nothing is
defined.  The other actions may be taken there as well, since the stack may happen to
be larger.

**JsonLayouts.**  A document is a text of strings without `\uXXXX`, numbers and
literals, with its layout.  `Fits` compares what its nesting needs, two slots per
level and one, with those there are: with 20, documents up to depth 9 fit.

**JsonSerializer.**  `calls` is the recursion of `lua_table_to_json_helper`, each
call with the absolute slot of its table, the order in which `lua_next` visits it,
`array_size`, and how many items are written.  The order is chosen on entry
(`Orders`): keys 1..n come first, as Luau keeps them in the array part, the rest in
any order.  `lua_tostring` on the key replaces the number in the slot (`ToText`),
so that the next `lua_next` may not find it (`ObjectInvalidKey`).  Numbers pass
`lua_isstring`, so they are written as strings; the branch of the code that
formats numbers is never reached.  `IndexOf` is the index a string reads as, in any
of the notations `lua_tonumber` accepts ("1", "1.0", " 1", "0x1"), which the test for
an array takes for that index.  Of the escapes only this is kept: a string
value is written correctly if the characters to escape are among the five the
code handles, a key if it has none; `badstr` is a string written with a character
JSON does not allow there.  A string with a NUL byte, which `lua_tostring` would cut,
is left out.  As in the reader, `Overrun` is a push beyond the `Slots` reserved.

**JsonWritings.**  A JSON text has no `badstr`.  `PlainEntry` says which entries have a
text: the key is no string that reads as an index or needs an escape, the value no
string with a character the code leaves as it is.  Of other entries
the project says what the code does, not that it is right: `MCJsonArrayTest`,
`MCJsonUnescaped`.  Keys that are neither strings nor numbers are plain; the code writes
"unknown" for each of them, so of two such entries a reader of the text sees one.

**MapperHost.**  `pc` is where the Rust host or the C++ function it called is,
`top` is `lua_gettop` of the main thread, `live` the C allocations of the current
call.  A script's doing is a choice among its outcomes at `RunScript` and
`CallMapper`.  `Crash` is an error object without a string form (`strdup` of a null
pointer) or an error raised by the writer outside `lua_pcall`.  The two C++ entry
points take the same steps and are one set of actions.

**MapperTemplate.**  One mapper of the `github` platform and its calls.  A text is
what it parses to, with only what `validate_input` and `process_github_data` look
at; what the latter extracts is any table of `Outputs`.  `pc` follows the closure
`create_mapper` returns: the check of the subset (`Call`), the start of the timer, the
check of the payload (`CheckPayload`), parsing of the endpoint
`next` finds first (any of them), validation, the two halves of
`with_time_budget`, `process`, subsetting and `convert_nulls`.  `Tick` lets time
pass anywhere inside a call.  `validate_subset_structure`, `apply_subsetting` and
`convert_nulls` are the script's functions case by case, as recursive functions:
`Selected` and `Converted` are one level of a table, given what the function makes
of the members.  Their domains are the constants `Values` and `Specs`, any sets of
tables closed under members and under the functions in which nesting is bounded
(`TablesAssumption`): a Lua table that contains itself would keep the script
busy for ever.  Tables are objects, arrays and arrays with holes, as
`parse_json` makes of `[null, 1]` and `convert_nulls` of an array with a marker:
`ipairs` visits them up to the first hole (`Run`), `pairs` visits all of them.  Tables
with numbers and names as keys, which only malformed texts give (`stray`), are
left out.  `history` outlives a call only because
the run keeps one script state; the bridge's calls load the script afresh.

**LuauGC.**  An object is a model value of one of five kinds, `mark` its colour
(`dead` is the other white), `gray`, `grayagain` and `weak` the three lists as
sets, `phase` is `gcstate` with the stages of `atomic()` made explicit.  A table
has one value and a metatable, a closure one capture, a thread an array of slots
of which `top` are in frames.  `Mark` is `reallymarkobject`; `BarrierForward`,
`BarrierTable`, `ThreadBarrier` and `CloseUpvals` are the barriers with the tests
their callers make.  Each mutator action is an operation that reads or stores a
reference, with its barrier: loads, allocation (`luaC_init`), interned strings
(found again even when about to be swept), table stores, metatables of tables and
of basic types, closures and their three kinds of capture, upvalue stores, calls
and returns, `resume`, `yield`, a `resume` that fails, `coroutine.close`.  A step
of the collector (`MarkRoot`, `Propagate` of one object, the steps of `atomic()`,
`Sweep` of one object) may come between any two of them; the code allows it only
at some allocations, so the model has every behaviour of the code and more.
Within `atomic()` and `luaC_fullgc` the mutator does not run.  Left out: weak
keys, userdata, buffers, prototypes, tables with several values (a partly
traversed object does not exist in this collector), finishing a list in a
particular order.

**EnclaveStdio.**  `wbuf` and `rbuf` are the bytes between `wbase` and `wpos` and
between `rpos` and `rend`; `file` and `off` are the host's.  `pc` is where a call
is: writing out (`__stdio_write`, one `writev` per `WriteV`, any part of what is
left), flushed, reading (`__stdio_read`, one `readv` per `ReadV`).  `iov` is the
array `__stdio_write` advances.  A failing `writev` discards the buffer; a
failing `readv` ends the program (`ReadVFails`), as `enclave_readv` compares the
negative result as unsigned and calls `abort`.  `ByteFile` knows neither buffer
nor descriptor: a byte sequence, a position, `feof` and `ferror`.

**ProcessSpawn.**  One system call per step.  `fds` is the host's table, in which
a descriptor says whose pipe end it is; `todo` and `after` are the descriptors a
path of the code closes next and where it goes on.  `Clone` is `enclave_clone`,
which answers with a constant; `Sync` is `posix_spawn`'s read of its pipe, which
returns when the last writing end is closed.  Numbers are given out lowest first
and reused at once.

**LaunchToken.**  Each launch is a process with a `pc` through
`initialize_enclave`; the file is a sequence of pieces named after the launch
whose token they belong to.  `fread` may take several reads, `fwrite` is one
write at `fclose`, `Kill` may come anywhere.

## Runs

| Run | Shows |
|---|---|
| `json_parser` | 378871 states.  All texts of up to four lexemes over a ten-lexeme alphabet, all two-level documents with one lexeme lost, and all well-formed texts of up to two levels and two items each, keys equal or not, with `MaxDepth = 1` and `MinStack = 4`.  Tables stay in their slots; the stack is accounted for while no key is stray; slots are bounded; a well-formed text within the depth limit is read to its end and gives the tables it denotes, or needs more slots than there are; the parser stops. |
| `json_serializer` | 4508 heaps of at most two tables, with arrays and objects of up to two entries that may contain each other and themselves, and mixed tables over seven keys; strings that need an escape, as keys and values; `MaxNesting = 1` and `Slots = 4`, so both limits cut in.  180453 states.  The stack is restored, each entry is written once, an error means a mixed table, and the text of a plain table is JSON of it. |
| `json_conversion` | documents up to three levels, read and written back, with `MaxNesting = 1`, `MinStack = 6` and `Slots = 4`: each plain one (a table without null elements, and without keys that read as an index or need an escape) ends as a JSON text of what it denotes, unless its nesting exceeds the slots. 257836 states. |
| `json_null_element` (violation) | `[null, n]` is read to a table the writer raises an error on, outside `lua_pcall`. |
| `mapper_host` | three calls on one environment, all outcomes, and the refinement of `MapperService` with its liveness. |
| `mapper_host_stack` (violation) | the 18th call on one environment exceeds the main thread's reservation. |
| `mapper_template` | three calls with payloads of up to two endpoints, subsets of all shapes and a clock: results within the subset and free of markers, one metric per call past the checks of its arguments, a lone endpoint processed only if validated.  2.1 million states; `Values` are the tables up to three levels deep that these outputs, and what is selected of them, are made of. |
| `launch_token` | three overlapping launches, any of which may be killed, on a disk with space: one token's prefix in the file, a whole token or none handed over, every launch ends. |
| `enclave_stdio` | five calls on a file of up to six bytes, line-buffered with two bytes of buffer or unbuffered, every split of every transfer, failing writes and reads: the stream is the file of `ByteFile`, short counts are honest, calls return. |
| `process_spawn` | two threads, two calls each, six descriptors of which one is taken: no descriptor is lost or closed by another thread, calls return. |
| `luau_gc` | seven groups of objects, each the ones one kind of hazard needs: nothing that is not dead refers to a dead or freed object; the tri-colour invariant with its documented exceptions; one list per gray object; a full collection leaves exactly what is reachable, and ends. |
| `luau_gc_resume` (violation) | a `resume` that fails for lack of C stack leaves a reference without a barrier, found dead later. |

**Bounds.**  The reader's and the writer's actions look at the innermost call and
its caller's slots only, so two levels with two items exercise every pair of
adjacent frames; the depth limits are scaled to 1 so that they are reached, and
the proofs cover every value.  Two entries per table suffice for first, last and
repeated keys.  Three calls let a call of each outcome precede and follow another.
Objects of more than two entries are met in the mixed tables of `json_serializer`.
In `enclave_stdio` chunks of one to three bytes around a buffer of two meet every
comparison of a length with the buffer; `MaxFile` and `MaxCalls` cap the rest.
Six descriptors are one pair short of what two threads may want at once, and 0 and
1 are among them, which `popen` treats apart.  In `luau_gc` each group has at most
three objects beside the main thread and the table of globals and at most two
slots per thread, which is what a missing barrier needs to be caught (an owner
already black, a white value, and a place it is moved from).  Larger groups were
run to the end separately ({coroutine, closure, upvalue} with two slots
everywhere: 5.6 million states; {table, weak table} and {closure, upvalue, table}
with full collections), with no other result.

**Fairness.**  Reader and writer are straight-line C++ on one thread: weak
fairness of the next-state relation.  In `MapperHost` fairness covers only steps of
a call in progress, with the assumption, which the code does not enforce, that
scripts come to an end; nothing obliges the host to make another call.
`LaunchToken` assumes that a launch that is not killed keeps running;
`ProcessSpawn` that a thread inside a call goes on, one thread at a time;
`EnclaveStdio` that an entered call runs on by steps that do not fail (failing is
always allowed and never required).  `LuauGC` assumes fairness of the collector
only where the mutator is stopped: `atomic()` and `luaC_fullgc` are loops that run
to their end.  `MapperTemplate` states safety only.

**Deadlock** checking is off where the modelled program ends.

## Disagreements

Three runs are expected to fail, each on a sentence of the repository:
`json_null_element`, `mapper_host_stack` and `luau_gc_resume`
(`PROJECT.json`, findings).  These configurations show others; each checks one
property with TLC and is violated:

| Configuration (module) | What the code does |
|---|---|
| `MCJsonWide` (`MCJsonParser`) | a character outside ASCII loses its string and the rest of the document: `char` is signed (`luau_wrapper.cpp:94`) |
| `MCJsonDeep` (`MCJsonParser`) | eleven nested objects need 21 slots; 20 are reserved and `lua_checkstack` is not called (`luau_wrapper.cpp:189`) |
| `MCJsonWide` with `Texts <- HexDocTexts` | a `\uXXXX` stays in the string as these six characters (`luau_wrapper.cpp:77`) |
| `MCJsonArrayTest` (`MCJsonSerializer`) | the string key "1" counts as an index, and the element written is then null (`luau_wrapper.cpp:357`) |
| `MCJsonUnescaped` (`MCJsonSerializer`) | a key is written without escapes, and of the control characters in a value only three are escaped: the text is no JSON (`luau_wrapper.cpp:426`, 386) |
| `MCLaunchRace` (`LaunchToken`) | a launch that finds no token truncates the one another launch saved in between (`App.cpp:186`) |
| `MCLaunchTorn` (`LaunchToken`) | on a full disk a prefix of a token stays, and one `fread` over it and a later save hands over a mixture of the right size (`App.cpp:192`) |
| `MCEnclaveReadFails` (`MCEnclaveStdio`) | a read the host refuses ends the program instead of the call (`Enclave_syscalls.c:326`) |
| `MCPopen` (`MCProcessSpawn`) | `popen` returns a stream although no process runs (`Enclave_syscalls.c:778`) |
| `MCExecute` (`MCProcessSpawn`) | on SGX hardware `system` ends the enclave: the cancellation point's dispatch has no `wait4` (`syscall_arch.h`, `system.c:40`) |
| `MCSigpipe` (`MCProcessSpawn`) | ignoring SIGPIPE is answered with success and changes nothing (`syscall_arch.h:313`) |
| `MCMapperBudget` (`MCMapperTemplate`) | the time budget is compared before the function runs and never after (`production-script.lua:234`) |
| `MCMapperTimer` (`MCMapperTemplate`) | a payload that is no table raises an error with the timer running, and no metric is added (`production-script.lua:350`, 353) |
| `MCMapperEndpoints` (`MCMapperTemplate`) | the endpoint `next` finds is validated, `default` is processed (`production-script.lua:356`) |

With launches one at a time even a full disk leaves every token handed over whole
or none: with `MaxAlive = 1` `MCLaunchTorn` finds no violation.

Two smaller observations need no run: a marker inside an array leaves a table with a hole; a
subset `{"*": true}` of an array selects nothing, as `apply_subsetting` expects a
table there.

## Proofs

What these theorems say holds for every value of the constants that satisfies
the assumptions their modules name; TLC evaluates those assumptions for every
instance it checks.

`JsonParserProofs`, for every set of texts and every depth limit: `TypeCorrect`,
`TablesStayPutAlways`, `StackBalancedAlways` and `SlotDemandAlways`, from
`LexemeAssumption` (kinds of lexemes are disjoint), `TextsAssumption` and
`DepthAssumption`; and `ReadsDocumentAlways`, for every document within the depth
limit and every number of stack slots, from `LayoutAssumption` as well, which says what
a document is.  It excludes errors, not pushes beyond the slots: of these it says that
they happen only in a document that does not fit (`Fits`).  With `LUA_MINSTACK` = 20 and
`MAX_JSON_DEPTH` = 100 that is everything from depth 10 on, so for deeper texts it says what parse_json
does if its stack happens to be larger.

* `TablesStayPut` carries the argument itself: besides each table being in its
  slot it says how far apart the tables are and how many slots above the
  innermost one are in use at each `pc`, so that no pop reaches a table.  `Shape`
  adds the types and that a container is being read where the code assumes one
  (`InContainer`).  Stray keys do not disturb it: they only push slots further up.
* `StackBalanced` fixes the slots exactly while `stray = 0`, and allows `undefined` only
  with all of `MinStack` in use.  `Balanced` adds what
  the stack holds outside every container (`OutsideBalanced`) and that frame i
  starts no higher than slot 2i - 1, with at most MaxDepth + 1 frames
  (`DepthBounded`); its step uses `Shape`.
* `SlotDemand` follows from the two by `LayoutBound`.
* `ReadsInLinearTime` bounds the reader's run: `StepsLeft`, five for each unread
  lexeme, two for each open call and how far the innermost one is from its next
  move (`Rank`), goes down at every step and is a number.  A branch that pushes nil
  without consuming anything must therefore return or fail.  `Termination` adds to
  this only that the reader keeps running.
* `ReadsDocument` is the reader's functional correctness: nothing but the value the
  text denotes is left, with every table's entries.  What a text denotes is given
  without recursion, so that each step of the reader can be held against it: a
  document comes with its layout, the list of its containers in the order in which they open, each with the places of its
  bracket, its values and its closing bracket, and its depth.  `IsLayout` says what
  each container's text looks like, `EntriesUpto` what its first n members leave in
  its table (null leaves nothing, of equal keys the last counts).  The invariant
  `Reads` says that the tables created are the containers that have opened, that
  those not in progress are complete, and that frame i is at some member of its
  container, the one its callee reads, with the members before it stored and the
  key of this one above its table.  `StayReads`, `OpenReads`, `CloseReads` and
  `StoreReads` are the four things a step can do to it; that a store's slots are the
  right ones comes from `Balanced`.  TLC checks that every small document has a
  layout, and that the layout denotes what the recursive definition in
  `JsonDocuments` does (`LayoutsDenote`).

`JsonSerializerProofs`, for every heap, every order in which `lua_next` may visit
a table and every depth limit: `TypeCorrect` and `StackRestoredAlways`, from
`HeapsAssumption`, `DigitsAssumption` and `DecimalAssumption`; and, in heaps where
no table has a number and its text as keys (`NoTwins`, a hypothesis of the
theorems), `EntriesOnceAlways` and `ErrorMeansMixedAlways`, and
`OutputDenotesAlways`, which says what the writer is for: a conversion that ends
without an error leaves a JSON text of the table.  This last one speaks of the
heaps of `PlainHeaps`, where no key is a string that reads as an index or needs an
escape, and no value one that needs an escape the code lacks
(`MCJsonArrayTest` and `MCJsonUnescaped` show what the code does with these).  Where the
stack is used up the conversion does not end (`undefined`).

* `Shape` says for every call in progress where its table, key and value are
  (`Frames`, `Heights`), which loop runs (`Innermost`) and how far the array test
  has come (`Scanned`, `Entered`).  A call touches only slots above those of its
  caller (`FramesKept`), and a call that ends leaves one slot less (`FramesPopped`).
* `Progress` says that a call has written exactly the entries before its place in
  its order.  The loop goes on from a key it may have converted; without twins the
  converted key still stands for one place (`PlaceIs`), or for none, and then
  `lua_next` raises the error `ErrorMeansMixed` speaks of.  `OrderReaches`, an
  injection between finite sets of one size, says that an order misses no entry.
* The texts are recursive functions of the levels written (`TableTexts`) and of the
  entries written (`ListTexts`).  `ListsDefined` and `TablesDefined` prove that these
  functions are what their definitions say, one argument at a time (`StepByStep`).
* `Wrote` says what stands in the output for the calls in progress: for each of
  them, behind what was there when it began, its bracket, a list of the entries it
  has written, and the comma and key of the one it is at, whose value is in the slot
  below the next call's table.  `Kinds` adds that an array call has counted every key
  of its table and that no call is deeper than the limit.  `ItemBegins`,
  `ListGrows`, `ListCloses` and `EnterTooDeepWrites` are what a step can do to it;
  that the loop chosen is the right one for the table is `KindMeans`, and that
  `lua_rawgeti` reads the entry the order has there is `SequenceOrder`.

The two meet in `ConvertsBackAlways` (in `JsonParserProofs`, as its `Reads` is what the
reader hands over): every plain document, whatever its length and nesting within the
reader's limit, is read and written back without an error, as a JSON text of what it
denotes, and pushes within its slots where `Fits` says that they suffice: the parser's
with `MinStack`, the writer's with `Slots`.  It rests on `LayoutAssumption` and
`ConversionAssumption`.  A plain document
is a table, has no null in an array, no key that reads as an index or needs an escape
and no string with an escape the writer lacks: `json_null_element`, `MCJsonArrayTest` and
`MCJsonUnescaped` show what happens without these.

* How many slots the writer needs is an invariant of its own (`Levels`): where the
  containers of a heap have depths that grow from each table to those inside it (`Layered`, which
  `DocumentLayered` proves of a document's heap), call i converts a table of depth i
  and its table is no higher than slot 2i - 1.  `LevelsFit` concludes that with
  2 * depth + 1 slots for each table no push is one too many; `UndefinedStops`, that
  nothing follows where one is.

* `Piped` is the invariant: while the text is being read, the reader's; from then on
  the writer's (`Writing`), on the heap the document denotes (`HandedOver`).
  The lemmas of `JsonSerializerProofs` are cited through an `INSTANCE` of that module with
  these heaps in the place of its own; `HeapsWellFormed`, `HeapsPlain` and `HeapsTwinFree` are
  the hypotheses they ask for.  That a JSON document cannot have a number and its
  text as keys of one table, as all its keys are strings, is why the writer always goes on
  (`KeysKnown`); that its arrays have no holes is why no table is mixed
  (`NothingMixed`).

`MapperHostProofs`, for any number of calls: `TypeCorrect`,
`OneSlotPerCallAlways`, `LeakAccountingAlways`, from the invariant `IInv`, which
adds to the properties what is allocated at each `pc` (`LiveBlocks`) and the order
of the counters (`Counters`); and `ServiceSafety`, the initial states and steps
of the bridge mapped to those of `MapperService`.

`LaunchTokenProofs`, for any number of launches and any size of a token:
`TypeCorrect`; `FileUnmixedAlways`, whether or not the disk fills up; and
`TokenSoundAlways` on a disk that does not.  A launch about to save
holds a token of its own making (`SaverHasOwn`); on a disk with space the file is
moreover always empty or whole, so that a reader never has half a token
(`WholeOrEmpty`, `ReaderSound`).

`ProcessSpawnProofs`, for any number of threads, calls and descriptors, in
simulation and on hardware: `TypeCorrect`, `DescriptorsAccountedAlways` and
`ClosesOwnAlways`, from `SpawnAssumption`.  At every point of the code the
descriptors a thread will still use (`Keeps`) and those it closes next (`Queued`)
are disjoint and are exactly what it owns; a step of another thread changes only
descriptors that are free or that thread's.  Since numbers are given out lowest
first, that the lowest free one exists is a lemma of its own (`LeastMember`).

`EnclaveStdioProofs`, for every buffer size and mode, all chunks, lengths and
offsets, and every way the host may split transfers or fail: `TypeCorrect`,
`CountHonestAlways` and the refinement itself, `StreamIsFile`, which is the
property `ImplementsByteFile` (`ByteFile` states no fairness), from
`StdioAssumption`.

* The invariant `IInv` adds that the two halves of the buffer are never in use
  together (`Direction`), that bytes read ahead are those before the descriptor's
  offset (`ReadAhead`), and how far a write in progress has come (`Calling`,
  `FWriting`): with two parts left the chunk is still whole, with one part left
  what lies before the offset counts towards it.
* In the refinement bytes in the buffer count as written.  `OverlayConcat`
  (writing one sequence and then another behind it is writing both) makes a round
  of `writev` invisible: what was pending is split at the point the host reached,
  and `AdvanceProperties` says that the rewritten `iov` holds the second half.
  `DataProperties` does the same for `readv`, where the caller gets the first part
  and the buffer the rest.  A failing write is `Lose`: nothing before the
  descriptor's offset changes.  Once a write has failed `ByteFile` is loose: `Put` may
  write any part of a chunk, and what follows the position `Lose` goes back to is
  open.  What a failing call may answer is `CountHonest`.

`LuauGCProofs`, for any number of objects of each kind, any slots and any order in
which the mutator and the collector act: `TypeCorrect`, `LiveClosedAlways`,
`TriColourAlways`, `GrayListedAlways`, `StackRefsAlways` and `FullCollectsAlways`,
from `GCAssumption`.  `StackRefsLive` is the property the run `luau_gc_resume` refutes: that run adds the
failing resume without arguments to the next-state relation, and the theorem says
that without this one step the property holds.

* None of the three safety properties is inductive alone.  `IInv` has two parts.
  `Heap` says that what is not dead refers to nothing dead (`References`), what is
  not allocated is in its initial state (`Fresh`), the threads that wait for each
  other form one chain from the main thread to the running one (`Chain`), and each
  of them is in the frame of the one that resumed it, where no upvalue can
  overwrite it (`Held`).  `Colours` adds to `GrayListed` where dead objects may be
  (`Swept`), that what is written without a barrier is not black (`NeverBlack`),
  what a black object refers to (`BlackRefs`), and what each stage of `atomic()`
  has marked (`Marked`, `Staged`, `OpenUnmarked`).
* One lemma per action, under it one step per conjunct.  Actions that do the same
  to the colours share a lemma: storing into a register (`RegisterStep`), a forward
  barrier (`BarrierStep`), closing upvalues (`CloseStep`), and marking some objects
  (`MarkingStep`).  The recursion of `reallymarkobject` ends after one step, as an
  upvalue never holds an upvalue, so `Reached` is given outright.
* At the end of `atomic()` nothing is gray any more, so what is still white is
  referred to by nothing black.  That no waiting thread is among the white
  (`ActiveMarked`) follows along the chain: the running thread is marked, and the
  frame of a marked thread marks the one it resumed.
* `FullCollects` is about a step, and about what is reachable then.  `Reachable` is
  the least set closed under `Strong`; the proof uses only that it is closed
  (`ReachClosed`) and the least (`ReachLeast`).  `OnlyReachable` says of the cycle
  that what is marked is reachable, and after `atomic()` that what is not dead is.
  Each step keeps this since it makes nothing unreachable (`ReachGrows`): slots that
  `clearstack` clears are referred to by no open upvalue (`InFrame`), and the
  upvalues that `clearupvals` closes belong to threads no one can reach.  The other
  inclusion is `LiveClosed`.

`MapperTemplateProofs`, for any payloads, subsets, outputs, time budget and limit of
the history: `TypeCorrect`, `OnlySelectedAlways`, `NoMarksAlways`, `OneMetricAlways`
and `ProcessedIsValidatedAlways`, from `TablesAssumption`, `TemplateAssumption` and
`PayloadsAssumption` (an endpoint's value is one of the texts told apart).

* `IInv` adds that past its guards a call has a table for a payload and a subset
  that is none or a table (`Shaped`), that what waits to be returned is an object
  `process` may build (`Built`), and that with the one endpoint `default` the target
  is what that text parses to and, from validation on, valid (`Targeted`).
  `PushAtLimit` is the history as a sequence: appending and dropping the head beyond
  the limit adds the new entry last and loses none but the oldest.
* What the functions return is proved by induction over the depth of a table
  (`ByDepth`, on a set of depths, as the library's theorems take an operator for
  a parameter).  That a function satisfies its own definition has to be proved first,
  since nothing says that a recursive definition has a solution: `Stages` builds it
  one depth at a time, each stage agreeing with the one below
  (`ConvertDefined`, `SelectDefined`, `NoMarksDefined`, `WithinDefined`).
* `ConvertedClean`: no marker is left, at any depth.  `SelectedInside`: what is
  selected of a table, its markers removed, is nil or lies within the subset.  They
  go together because the order matters: removing markers changes an array into a
  table with holes, so the claim must be about the two functions one after the other.
  `Returned` puts them at the end of a call.

Only model-checked: liveness (`Termination`, `LaunchEnds`, `CallsReturn`,
`FullEnds` and the liveness of `ImplementsService`), which is out of the prover's
reach (of the reader's `Termination` all but the fairness is `ReadsInLinearTime`);
and that the non-recursive definitions agree with the recursive ones a reader
would write down first (`LayoutsDenote`, `PlainDocumentsDenote`): evaluated for the
documents of the runs.

## Not modelled

The drivers keep no state.  Luau's compiler, parser and interpreter loop, its
libraries, and the other interpreters are third party and have no protocol with
the rest beyond the API calls, which are modelled where they are used; of the VM
only the collector is, because every script depends on it and no test can order
its steps.  Memory exhaustion inside the VM, the time a script takes and the
formatting of numbers are left out.  A table with a number and its text both as
keys is left out of `json_serializer`: the writer may then loop for ever with a
growing text.  Of the shim, sockets, `select`, `poll` and `stat` are single calls
that copy in, ask the host and copy out: they keep no state between calls.  Of the
script framework, the detailed counters (switched off in the script), the field
lists of other platforms and the date helpers are left out; of the launcher, the
second enclave and its arguments.

## Plan

The modules were written and proved about in the order of the table above: the
wrapper's reader, writer and bridge first, then the shim's streams, processes and
the launcher, then the mapper framework and the collector.  What would come next:

1. `LuauGC` with weak keys (ephemeron passes of `clearephemerons`) and tables of
   several values, for the order of `cleartable` against resurrected strings.
2. The shim's sockets and `select` under a caller that keeps their results, should
   a part of the repository come to use them.
