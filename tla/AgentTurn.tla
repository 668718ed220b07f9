----------------------------- MODULE AgentTurn -----------------------------
(***************************************************************************)
(* One turn of the file agent: AgentRuntime.run, the serial loop between a *)
(* model that asks for batches of tool calls and the registered read-only  *)
(* tools, with the turn's CombinedBudget and, behind the historical tools, *)
(* the SharedToolBudget of the facade.                                     *)
(*                                                                         *)
(* A call is a constant: its tool, and what is wrong with its arguments.   *)
(* Two requests of the same call have one signature.  The model answers    *)
(* and the tools return whatever their protocols admit.                    *)
(***************************************************************************)
EXTENDS Naturals, Sequences, FiniteSets, SequencesExt

CONSTANTS
    Calls,              \* the calls a model may ask for
    ToolOf,             \* the tool of a call: a member of Tools, or "unknown"
    FlawOf,             \* "none", "canonical", "schema" or "scope"
    MaxBatch,           \* bound: calls of one response (the protocol admits 3)
    MaxModelCalls, MaxToolCalls, MaxFilesystemCalls,   \* CombinedBudgetLimits
    MaxSerialized, MaxContent,
    MaxSharedCalls, MaxSharedItems, MaxSharedSerialized    \* ToolBudgetLimits

Tools == {"page", "diff", "directory", "content", "synthetic"}

TurnAssumption ==
    /\ ToolOf \in [Calls -> Tools \cup {"unknown"}]
    /\ FlawOf \in [Calls -> {"none", "canonical", "schema", "scope"}]
    /\ MaxBatch \in 1 .. 3
    /\ {MaxModelCalls, MaxToolCalls} \subseteq Nat \ {0}
    /\ {MaxFilesystemCalls, MaxSerialized, MaxContent, MaxSharedCalls,
        MaxSharedItems, MaxSharedSerialized} \subseteq Nat

VARIABLES
    pc,             \* MODEL, PREFLIGHT, DISPATCH, DONE, or RAISED out of run
    batch,          \* the calls of the last response
    results,        \* what the calls of the batch have come to so far
    messages,       \* the batches given back to the model
    signatures,     \* the calls dispatched in this turn
    traces,         \* the traces of the turn
    usage,          \* CombinedBudgetUsage
    shared,         \* ToolBudgetUsage
    outcome         \* "none", "ANSWER" or the failure code

turnVars == <<pc, batch, results, messages, signatures, traces, usage, shared, outcome>>

Steward == {"page", "diff"}
Filesystem == {"directory", "content"}
Recoverable == {"STEWARD_TOOL_FAILED", "FILESYSTEM_MCP_UNAVAILABLE", "FILESYSTEM_TOOL_FAILED"}

\* A page asked for has Requested items at most; a read reserves one unit of content.
Requested == 2
Reservation(c) == IF ToolOf[c] = "content" THEN 1 ELSE 0

Count(s, P(_)) == Cardinality({i \in DOMAIN s : P(s[i])})
IsFilesystem(c) == ToolOf[c] \in Filesystem

TurnInit ==
    /\ pc = "MODEL"
    /\ batch = <<>> /\ results = <<>> /\ messages = <<>>
    /\ signatures = {}
    /\ traces = <<>>
    /\ usage = [models |-> 0, tools |-> 0, filesystem |-> 0, bytes |-> 0,
                reserved |-> 0, observed |-> 0]
    /\ shared = [calls |-> 0, items |-> 0, bytes |-> 0]
    /\ outcome = "none"

\* The turn ends with an AgentTurnResult.
End(code) == pc' = "DONE" /\ outcome' = code

----------------------------------------------------------------------------
(* The model.                                                              *)

\* deviation: the last model call is one too many
ModelAdmittedLate == usage.models <= MaxModelCalls

\* CombinedBudget.admit_model_call
ModelAdmitted == usage.models < MaxModelCalls

ModelRefused ==
    /\ pc = "MODEL"
    /\ ~ModelAdmitted
    /\ End("AGENT_STEP_LIMIT_REACHED")
    /\ UNCHANGED <<batch, results, messages, signatures, traces, usage, shared>>

\* A final answer, no usable response, or an error of the port: its class is lost,
\* only a RuntimeFailure keeps its code.
ModelEnds ==
    /\ pc = "MODEL"
    /\ ModelAdmitted
    /\ usage' = [usage EXCEPT !.models = @ + 1]
    /\ \E code \in {"ANSWER", "MODEL_CALL_FAILED", "MODEL_TOOL_CALL_INVALID"} : End(code)
    /\ UNCHANGED <<batch, results, messages, signatures, traces, shared>>

ModelAsks ==
    /\ pc = "MODEL"
    /\ ModelAdmitted
    /\ usage' = [usage EXCEPT !.models = @ + 1]
    /\ batch' \in UNION {[1 .. n -> Calls] : n \in 1 .. MaxBatch}
    /\ results' = <<>>
    /\ pc' = "PREFLIGHT"
    /\ UNCHANGED <<messages, signatures, traces, shared, outcome>>

----------------------------------------------------------------------------
(* _preflight_batch: the whole batch is admitted, or the turn ends.        *)

\* What is wrong with the call at a place of the batch, in the order of the checks.
Refusal(i) ==
    LET c == batch[i]
    IN IF FlawOf[c] = "canonical" THEN "RAISED"
       ELSE IF c \in signatures \/ \E j \in 1 .. i - 1 : batch[j] = c
            THEN "MODEL_TOOL_CALL_INVALID"
       ELSE IF ToolOf[c] = "unknown" THEN "TOOL_NOT_ALLOWED"
       ELSE IF FlawOf[c] = "schema" THEN "TOOL_ARGUMENT_INVALID"
       ELSE IF FlawOf[c] = "scope" THEN "SCOPE_BINDING_FAILED"
       ELSE "none"

Refused == {i \in DOMAIN batch : Refusal(i) # "none"}
FirstRefused == CHOOSE i \in Refused : \A j \in Refused : i <= j

Reservations == Count(batch, LAMBDA c : Reservation(c) > 0)

\* deviation: the calls of the batch are not counted, only those before it
BatchRefusalOneByOne ==
    IF Refused # {} THEN Refusal(FirstRefused)
    ELSE IF usage.tools + 1 > MaxToolCalls THEN "AGENT_STEP_LIMIT_REACHED"
    ELSE IF Reservations > 1 THEN "BUDGET_EXHAUSTED"
    ELSE IF usage.reserved + Reservations > MaxContent THEN "BUDGET_EXHAUSTED"
    ELSE "none"

\* deviation: a call is a duplicate only within its batch
BatchRefusalForgetful ==
    IF \E i \in Refused : batch[i] \notin signatures THEN Refusal(FirstRefused)
    ELSE IF usage.tools + Len(batch) > MaxToolCalls THEN "AGENT_STEP_LIMIT_REACHED"
    ELSE IF usage.filesystem + Count(batch, IsFilesystem) > MaxFilesystemCalls
         THEN "BUDGET_EXHAUSTED"
    ELSE IF Reservations > 1 THEN "BUDGET_EXHAUSTED"
    ELSE IF usage.reserved + Reservations > MaxContent THEN "BUDGET_EXHAUSTED"
    ELSE "none"

BatchRefusal ==
    IF Refused # {} THEN Refusal(FirstRefused)
    ELSE IF usage.tools + Len(batch) > MaxToolCalls THEN "AGENT_STEP_LIMIT_REACHED"
    ELSE IF usage.filesystem + Count(batch, IsFilesystem) > MaxFilesystemCalls
         THEN "BUDGET_EXHAUSTED"
    ELSE IF Reservations > 1 THEN "BUDGET_EXHAUSTED"
    ELSE IF usage.reserved + Reservations > MaxContent THEN "BUDGET_EXHAUSTED"
    ELSE "none"

\* The content of the batch is reserved for good, whether its calls come to run or not.
PreflightAdmits ==
    /\ pc = "PREFLIGHT"
    /\ BatchRefusal = "none"
    /\ usage' = [usage EXCEPT !.reserved = @ + Reservations]
    /\ pc' = "DISPATCH"
    /\ UNCHANGED <<batch, results, messages, signatures, traces, shared, outcome>>

\* The refusal is traced with the first call of the batch.
PreflightRefuses ==
    /\ pc = "PREFLIGHT"
    /\ BatchRefusal \notin {"none", "RAISED"}
    /\ traces' = Append(traces, [call |-> batch[1], ran |-> FALSE])
    /\ End(BatchRefusal)
    /\ UNCHANGED <<batch, results, messages, signatures, usage, shared>>

\* Arguments json accepts and canonical_json refuses: an EvidenceError that run
\* does not catch.
PreflightRaises ==
    /\ pc = "PREFLIGHT"
    /\ BatchRefusal = "RAISED"
    /\ pc' = "RAISED"
    /\ UNCHANGED <<batch, results, messages, signatures, traces, usage, shared, outcome>>

----------------------------------------------------------------------------
(* The tools.  A run of a tool is a record: its failure code or "none", the *)
(* bytes of its result and of the content it observed, and the shared      *)
(* budget after it.                                                        *)

Failed(code, s) == [code |-> code, bytes |-> 0, observed |-> 0, shared |-> s]
Returned(n, o, s) == [code |-> "none", bytes |-> n, observed |-> o, shared |-> s]

Begun == [shared EXCEPT !.calls = @ + 1]
RemainingItems == IF shared.items >= MaxSharedItems THEN 0 ELSE MaxSharedItems - shared.items

\* effective_limit: a page is cut to what is left of the turn's items.
EffectiveLimit == IF Requested <= RemainingItems THEN Requested ELSE RemainingItems

\* consume_result, after the query has run: nothing is consumed when it refuses.
Consumed(items, n) ==
    IF shared.bytes + n > MaxSharedSerialized \/ shared.items + items > MaxSharedItems
    THEN Failed("BUDGET_EXHAUSTED", Begun)
    ELSE Returned(n, 0, [Begun EXCEPT !.items = @ + items, !.bytes = @ + n])

\* A facade query: a page of a Snapshot, or a whole comparison of two.
StewardRuns(tool) ==
    IF tool = "page" /\ EffectiveLimit < 1 THEN {Failed("BUDGET_EXHAUSTED", shared)}
    ELSE IF shared.calls >= MaxSharedCalls THEN {Failed("BUDGET_EXHAUSTED", shared)}
    ELSE {Failed(code, Begun) : code \in {"TOOL_ARGUMENT_INVALID", "STEWARD_TOOL_FAILED"}}
         \cup {Consumed(items, n) :
                    items \in 0 .. (IF tool = "page" THEN EffectiveLimit ELSE Requested),
                    n \in 1 .. 2}

\* The MCP client's error codes, and results of one or two units.
DirectoryRuns ==
    {Failed(code, shared) : code \in {"TOOL_ARGUMENT_INVALID", "FILESYSTEM_MCP_UNAVAILABLE",
                                      "FILESYSTEM_TOOL_FAILED"}}
    \cup {Returned(n, 0, shared) : n \in 1 .. 2}

\* A bounded read observes its unit, or publishes no content (too large, unavailable).
ContentRuns ==
    {Failed("FILESYSTEM_TOOL_FAILED", shared)}
    \cup {Returned(1, o, shared) : o \in 0 .. 1}

SyntheticRuns == {Returned(1, 0, shared), Failed("INTERNAL_INVARIANT_FAILED", shared)}

Runs(c) ==
    CASE ToolOf[c] \in Steward -> StewardRuns(ToolOf[c])
      [] ToolOf[c] = "directory" -> DirectoryRuns
      [] ToolOf[c] = "content" -> ContentRuns
      [] ToolOf[c] = "synthetic" -> SyntheticRuns

----------------------------------------------------------------------------
(* The serial loop over the batch.                                         *)

Current == batch[Len(results) + 1]

\* admit_tool_call
CallAdmitted ==
    /\ usage.tools < MaxToolCalls
    /\ IsFilesystem(Current) => usage.filesystem < MaxFilesystemCalls
Admitted ==
    [usage EXCEPT !.tools = @ + 1,
                  !.filesystem = @ + (IF IsFilesystem(Current) THEN 1 ELSE 0)]

\* record_result
Recorded(run) ==
    IF run.code # "none" THEN run.code
    ELSE IF usage.bytes + run.bytes > MaxSerialized THEN "BUDGET_EXHAUSTED"
    ELSE IF usage.observed + run.observed > usage.reserved THEN "INTERNAL_INVARIANT_FAILED"
    ELSE "none"

Result(c, disposition) == [call |-> c, disposition |-> disposition]
Tail2 == [i \in 1 .. Len(batch) - Len(results) - 1 |->
            Result(batch[Len(results) + 1 + i], "NOT_EXECUTED")]

\* The batch is given back when every call has its result.
GiveBack(rs) ==
    IF Len(rs) = Len(batch)
    THEN /\ messages' = Append(messages, [calls |-> batch, results |-> rs])
         /\ pc' = "MODEL"
         /\ batch' = <<>> /\ results' = <<>>
    ELSE /\ results' = rs
         /\ UNCHANGED <<messages, pc, batch>>

Ran(c) == [call |-> c, ran |-> TRUE]

DispatchSucceeds ==
    /\ pc = "DISPATCH"
    /\ CallAdmitted
    /\ \E run \in Runs(Current) :
        /\ Recorded(run) = "none"
        /\ usage' = [Admitted EXCEPT !.bytes = @ + run.bytes, !.observed = @ + run.observed]
        /\ shared' = run.shared
        /\ traces' = Append(traces, Ran(Current))
    /\ signatures' = signatures \cup {Current}
    /\ GiveBack(Append(results, Result(Current, "SUCCESS")))
    /\ UNCHANGED outcome

\* deviation: the calls after the failed one are answered as if they had failed too
FailedBatchUnanswered ==
    Append(results, Result(Current, "ERROR"))
        \o [i \in DOMAIN Tail2 |-> Result(Tail2[i].call, "ERROR")]

\* The failed call is answered with an error and the calls after it as not executed.
FailedBatch == Append(results, Result(Current, "ERROR")) \o Tail2

DispatchFails ==
    /\ pc = "DISPATCH"
    /\ CallAdmitted
    /\ \E run \in Runs(Current) :
        /\ Recorded(run) # "none"
        /\ usage' = Admitted
        /\ shared' = run.shared
        /\ traces' = Append(traces, Ran(Current))
        /\ IF Recorded(run) \in Recoverable
           THEN GiveBack(FailedBatch) /\ UNCHANGED outcome
           ELSE End(Recorded(run)) /\ UNCHANGED <<messages, batch, results>>
    /\ signatures' = signatures \cup {Current}

\* deviation: a turn at its model limit is left as it is
TurnNextUnlimited ==
    \/ ModelEnds \/ ModelAsks
    \/ PreflightAdmits \/ PreflightRefuses \/ PreflightRaises
    \/ DispatchSucceeds \/ DispatchFails

\* The refusal admit_tool_call also has is never reached (AdmittedBatchFits).
TurnNext ==
    \/ ModelRefused \/ ModelEnds \/ ModelAsks
    \/ PreflightAdmits \/ PreflightRefuses \/ PreflightRaises
    \/ DispatchSucceeds \/ DispatchFails

TurnSpec == TurnInit /\ [][TurnNext]_turnVars
TurnFairSpec == TurnSpec /\ WF_turnVars(TurnNext)

----------------------------------------------------------------------------
(* Properties.                                                             *)

\* The loop stays in its states and within every budget of the turn and of the
\* facade; content observed never exceeds what was reserved for it.
TurnTypeOK ==
    /\ pc \in {"MODEL", "PREFLIGHT", "DISPATCH", "DONE", "RAISED"}
    /\ usage.models <= MaxModelCalls /\ usage.tools <= MaxToolCalls
    /\ usage.filesystem <= MaxFilesystemCalls /\ usage.bytes <= MaxSerialized
    /\ usage.observed <= usage.reserved /\ usage.reserved <= MaxContent
    /\ shared.calls <= MaxSharedCalls /\ shared.items <= MaxSharedItems
    /\ shared.bytes <= MaxSharedSerialized

\* No call is executed twice in a turn, whatever the model repeats after failures;
\* and a call that was answered as not executed has not run.
ExecutedOnce ==
    /\ \A i, j \in DOMAIN traces :
            traces[i].ran /\ traces[j].ran /\ i # j => traces[i].call # traces[j].call
    /\ usage.tools = Count(traces, LAMBDA t : t.ran)

\* A batch that was admitted is never cut short by the call limits: what is left of
\* it always fits.
AdmittedBatchFits ==
    pc = "DISPATCH" =>
        /\ usage.tools + Len(batch) - Len(results) <= MaxToolCalls
        /\ usage.filesystem + Count(SubSeq(batch, Len(results) + 1, Len(batch)), IsFilesystem)
              <= MaxFilesystemCalls

\* Every batch the model sees again has one result for each of its calls, in order;
\* after an error nothing is claimed to have run, and what is claimed to have run has.
AnsweredInFull ==
    \A k \in DOMAIN messages :
        LET m == messages[k]
        IN /\ Len(m.results) = Len(m.calls)
           /\ \A i \in DOMAIN m.calls :
                /\ m.results[i].call = m.calls[i]
                /\ m.results[i].disposition # "NOT_EXECUTED" =>
                    \E t \in DOMAIN traces : traces[t].ran /\ traces[t].call = m.calls[i]
                /\ \A j \in 1 .. i - 1 : m.results[j].disposition # "SUCCESS" =>
                    m.results[i].disposition = "NOT_EXECUTED"

\* What a turn owes the model: each call once, within the limits, and answered.
CallsAreSound == ExecutedOnce /\ AdmittedBatchFits /\ AnsweredInFull

IsOver == pc = "DONE" /\ outcome # "none"

\* Every turn ends, with an answer or a failure code.
TurnEnds == <>IsOver

\* Every turn ends in a classified way (RuntimeFailure: one safe, turn-local
\* classification); none raises out of run.
TurnIsClassified == pc # "RAISED"
=============================================================================
