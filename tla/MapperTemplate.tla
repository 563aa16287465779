--------------------------- MODULE MapperTemplate ---------------------------
(***************************************************************************)
(* One mapper made by create_mapper (sample/sgx-luau/production-script.lua)*)
(* for the platform 'github', called again and again: the check of the     *)
(* field subset, the timer, parsing and validation of an endpoint, the     *)
(* time budget around process, subsetting, and the removal of null markers *)
(* from what is returned.                                                  *)
(*                                                                         *)
(* What process_github_data extracts is any table it may build; which text *)
(* it reads, and when it raises an error, is kept.  Logging and the        *)
(* optional counters (metrics_config.detailed is false) are left out.      *)
(***************************************************************************)
EXTENDS MapperTables

CONSTANTS
    Payloads,    \* params.payload: tables from endpoint names to texts, or no table
    Outputs,     \* the tables process may build
    Timeout,     \* config.timeout
    MaxHistory,  \* the length metric_history is held to (1000)
    MaxTime,     \* bound: the clock
    MaxCalls     \* bound: the calls made

ASSUME TemplateAssumption ==
    /\ Timeout \in Nat /\ MaxHistory \in Nat \ {0}
    /\ MaxTime \in Nat /\ MaxCalls \in Nat
    /\ Outputs \cup {Obj(<<>>)} \subseteq {v \in Values : v.ty = "object"}

\* params.field_subset.
Subsets == Specs \cup {NoSubset}

VARIABLES
    pc,         \* where the call is
    payload, fields,   \* its arguments
    target,     \* validation_target
    began,      \* start_time of with_time_budget
    ranAt,      \* history: when process was entered
    data,       \* what process returned
    outcome,    \* what the last call returned: [ok, value], value Null on error
    history,    \* metric_history: the success flags
    clock,      \* os.clock()
    calls       \* history: calls made

vars == <<pc, payload, fields, target, began, ranAt, data, outcome, history, clock, calls>>
args == <<payload, fields>>

-----------------------------------------------------------------------------
\* A text is what it parses to.  Bad text, null and false are "nothing"; an
\* object has the required fields or not (direct), a body, and a field 'bad' or
\* 'invalid' or not (odd); "string" and "number" (with true) are the rest.
Nothing == [ty |-> "nothing"]
IsText(text) == text = Nothing \/ text.ty \in {"object", "string", "number"}

\* The value of an endpoint is one of these texts.
ASSUME PayloadsAssumption ==
    \A p \in Payloads : IsTable(p) => \A e \in Keys(p) : IsText(p.at[e])

\* helpers.parse_json_string.
Parsed(text) == IF text = Nothing THEN Nil ELSE text

\* Any object passes for a document of the platform.
ValidObject(t) == t.ty = "object"

\* error_handler.validate_input for 'github'.
Valid(t) ==
    /\ t.ty = "object"
    /\ t.direct \/ t.body = "table"
    /\ t.body = "table" \/ ~t.odd

-----------------------------------------------------------------------------
Init ==
    /\ pc = "idle" /\ payload = Nil /\ fields = NoSubset
    /\ target = Nil /\ began = 0 /\ ranAt = 0 /\ data = Nil
    /\ outcome = [ok |-> FALSE, value |-> Nil]
    /\ history = <<>> /\ clock = 0 /\ calls = 0

\* The oldest entry is dropped one call too late.
EndTimerLate(ok) ==
    LET h == Append(history, ok)
    IN  history' = IF Len(h) > MaxHistory + 1 THEN Tail(h) ELSE h

\* metrics.end_timer: log_metric drops the oldest entry beyond the limit.
EndTimer(ok) ==
    LET h == Append(history, ok)
    IN  history' = IF Len(h) > MaxHistory THEN Tail(h) ELSE h

Raise == outcome' = [ok |-> FALSE, value |-> Nil] /\ pc' = "idle"

\* A refused document leaves the timer running.
RaiseUnlogged == Raise /\ UNCHANGED history

RaiseLogged == Raise /\ EndTimer(FALSE)

\* The call starts: a subset of the wrong shape raises an error, otherwise the
\* timer starts.
Call ==
    /\ pc = "idle" /\ calls < MaxCalls /\ calls' = calls + 1
    /\ payload' \in Payloads /\ fields' \in Subsets
    /\ IF fields' = NoSubset \/ (IsTable(fields') /\ validate_subset_structure[fields'])
       THEN pc' = "started" /\ outcome' = outcome ELSE Raise
    /\ UNCHANGED <<target, began, ranAt, data, history, clock>>

\* A payload that is no table raises an error, too: the timer has started and is
\* not ended.
CheckPayload ==
    /\ pc = "started"
    /\ IF IsTable(payload) THEN pc' = "parse" /\ outcome' = outcome ELSE Raise
    /\ UNCHANGED <<args, target, began, ranAt, data, history, clock, calls>>

\* The first endpoint next() finds is parsed; without one, or without a value,
\* the call fails.
Parse ==
    /\ pc = "parse"
    /\ \/ \E e \in Keys(payload) :
             /\ target' = Parsed(payload.at[e])
             /\ IF target' # Nil THEN pc' = "validate" /\ UNCHANGED <<outcome, history>>
                ELSE RaiseLogged
       \/ Keys(payload) = {} /\ RaiseLogged /\ target' = Nil
    /\ UNCHANGED <<args, began, ranAt, data, clock, calls>>

Validate ==
    /\ pc = "validate"
    /\ IF Valid(target) THEN pc' = "budget" /\ UNCHANGED <<outcome, history>> ELSE RaiseLogged
    /\ UNCHANGED <<args, target, began, ranAt, data, clock, calls>>

\* with_time_budget notes the time ...
Budget ==
    /\ pc = "budget" /\ pc' = "enter" /\ began' = clock
    /\ UNCHANGED <<args, target, ranAt, data, outcome, history, clock, calls>>

\* ... and compares it once, before it enters process.
Enter ==
    /\ pc = "enter"
    /\ IF clock - began > Timeout
       THEN RaiseLogged /\ ranAt' = ranAt
       ELSE pc' = "process" /\ ranAt' = clock /\ UNCHANGED <<outcome, history>>
    /\ UNCHANGED <<args, target, began, data, clock, calls>>

\* process_github_data reads raw.default, whatever was validated; a number, as
\* the document or as its body, cannot be indexed.
Process ==
    /\ pc = "process"
    /\ LET doc == IF "default" \in Keys(payload) THEN Parsed(payload.at["default"]) ELSE Nil
       IN  IF doc = Nil THEN pc' = "subset" /\ data' = Obj(<<>>) /\ UNCHANGED <<outcome, history>>
           ELSE IF doc.ty = "number" \/ (doc.ty = "object" /\ doc.body = "number")
           THEN RaiseLogged /\ data' = data
           ELSE pc' = "subset" /\ data' \in Outputs /\ UNCHANGED <<outcome, history>>
    /\ UNCHANGED <<args, target, began, ranAt, clock, calls>>

\* The subset, when it yields a value, replaces the data; the timer ends; null
\* markers go.
Finish ==
    /\ pc = "subset"
    /\ LET sub == IF fields = NoSubset THEN Nil ELSE apply_subsetting[<<data, fields>>]
       IN  outcome' = [ok |-> TRUE, value |-> convert_nulls[IF sub = Nil THEN data ELSE sub]]
    /\ EndTimer(TRUE) /\ pc' = "idle"
    /\ UNCHANGED <<args, target, began, ranAt, data, clock, calls>>

\* Time passes while Lua code runs.
Tick ==
    /\ pc # "idle" /\ clock < MaxTime /\ clock' = clock + 1
    /\ UNCHANGED <<pc, args, target, began, ranAt, data, outcome, history, calls>>

Next ==
    \/ Call \/ CheckPayload \/ Parse \/ Validate \/ Budget \/ Enter \/ Process \/ Finish
    \/ Tick

Spec == Init /\ [][Next]_vars

-----------------------------------------------------------------------------
TypeOK ==
    /\ pc \in {"idle", "started", "parse", "validate", "budget", "enter", "process", "subset"}
    /\ payload \in Payloads \cup {Nil} /\ fields \in Subsets
    /\ target.ty \in {"nil", "object", "string", "number"}
    /\ data \in Outputs \cup {Nil, Obj(<<>>)} /\ outcome.ok \in BOOLEAN
    /\ history \in Seq(BOOLEAN) /\ Len(history) <= MaxHistory
    /\ {began, ranAt, clock} \subseteq 0..MaxTime /\ calls \in 0..MaxCalls

\* A caller who names a subset is given nothing outside it, whatever process
\* built: no error on the way falls back to the whole of the data.
OnlySelected ==
    (pc = "idle" /\ outcome.ok /\ fields # NoSubset) =>
        outcome.value = Nil \/ Within[<<outcome.value, data, fields>>]

\* No marker of the script reaches the caller, at any depth.
NoMarksReturned == pc = "idle" => NoMarks[outcome.value]

\* An entry with the outcome is added to the history, the oldest making room.
EntryAdded ==
    /\ history' # <<>> /\ history'[Len(history')] = outcome'.ok
    /\ \/ Len(history') = Len(history) + 1 /\ SubSeq(history', 1, Len(history)) = history
       \/ Len(history) = MaxHistory /\ SubSeq(history', 1, MaxHistory - 1) = Tail(history)

\* Every way out of a call that got past the checks of its arguments, by an error
\* or with a result, adds one entry with its outcome, and nothing else touches
\* the history.  The exit for a payload that is no table is not among them.
OneMetricPerCall ==
    [][IF pc \notin {"idle", "started"} /\ pc' = "idle"
       THEN EntryAdded ELSE history' = history]_vars

\* A timer that starts (metrics.start_timer, before the payload is checked) is
\* ended with an entry.
EveryTimerEnds == [][(pc # "idle" /\ pc' = "idle") => EntryAdded]_vars

\* A payload with the one endpoint the mapper reads is processed only if that
\* document has the required fields, whatever the calls before it were given.
ProcessedIsValidated ==
    [][(pc = "process" /\ pc' = "subset" /\ Keys(payload) = {"default"}) =>
          LET doc == payload.at["default"]
          IN  doc.ty = "object" /\ (doc.direct \/ doc.body = "table")]_vars

\* "Invalid GitHub data structure: missing required user fields" (validate_input):
\* data without them is refused, hence never processed.
RequiredFieldsProcessed ==
    [][(pc = "process" /\ pc' = "subset") =>
          /\ "default" \in Keys(payload)
          /\ payload.at["default"].ty = "object"
          /\ payload.at["default"].direct \/ payload.at["default"].body = "table"]_vars

\* "Maximum execution time exceeded" (with_time_budget): a process that takes
\* longer than the budget does not succeed.
BudgetKept == [][(pc = "process" /\ pc' = "subset") => clock - began <= Timeout]_vars
=============================================================================
