--------------------------- MODULE McpDispatcher ---------------------------
(***************************************************************************)
(* The read-only tool server of mcp_server/adapter.py.  A call takes one   *)
(* of MaxConcurrent places before it is handed to a worker thread; the     *)
(* place is given back by the thread, when its operation ends.  The client *)
(* may cancel a call, and its deadline may pass, at any of its awaits: a   *)
(* call left before a worker took it keeps its place for ever (Lost).      *)
(***************************************************************************)
EXTENDS Naturals, FiniteSets, TLC

CONSTANTS Call,           \* calls of the clients
          MaxConcurrent   \* places for calls in progress

MaxIsPositive == MaxConcurrent \in Nat \ {0}

VARIABLES phase,    \* call -> where its coroutine is
          thread,   \* call -> where its worker thread is
          outcome,  \* call -> what its operation returned or raised
          answer,   \* call -> what the client was told
          active    \* _active_calls

vars == <<phase, thread, outcome, answer, active>>

Answers == {"none", "OK", "TOOL_NOT_FOUND", "ARGUMENT_INVALID", "BUSY", "TIMEOUT",
            "RESOURCE_LIMIT", "SOURCE_UNAVAILABLE", "UNAVAILABLE", "CONTEXT_ERROR"}

Placed == {c \in Call : phase[c] = "counted" \/ thread[c] \in {"queued", "running"}}

McpTypeOK ==
    /\ phase \in [Call -> {"new", "counted", "submitted", "answered", "cancelled"}]
    /\ thread \in [Call -> {"none", "queued", "running", "ended", "dropped"}]
    /\ outcome \in [Call -> {"none", "result", "AgentContextError", "AgentToolError",
                             "ConfigurationError", "Exception"}]
    /\ answer \in [Call -> Answers]
    /\ active \in 0..MaxConcurrent
    /\ \A c \in Call : phase[c] = "answered" <=> answer[c] # "none"

Init ==
    /\ phase = [c \in Call |-> "new"]
    /\ thread = [c \in Call |-> "none"]
    /\ outcome = [c \in Call |-> "none"]
    /\ answer = [c \in Call |-> "none"]
    /\ active = 0

Answered(c, a) ==
    /\ phase' = [phase EXCEPT ![c] = "answered"]
    /\ answer' = [answer EXCEPT ![c] = a]

-----------------------------------------------------------------------------
UncheckedPlace == active < 2 * MaxConcurrent  \* deviation: the limit is not kept

PlaceLeft == active < MaxConcurrent

(* dispatch: arguments first, then a place, which is counted before the     *)
(* first await.                                                             *)
Admit(c) ==
    /\ phase[c] = "new"
    /\ \/ /\ \E a \in {"TOOL_NOT_FOUND", "ARGUMENT_INVALID", "UNAVAILABLE"} : Answered(c, a)
          /\ UNCHANGED active
       \/ /\ ~PlaceLeft
          /\ Answered(c, "BUSY")
          /\ UNCHANGED active
       \/ /\ PlaceLeft
          /\ active' = active + 1
          /\ phase' = [phase EXCEPT ![c] = "counted"]
          /\ UNCHANGED answer
    /\ UNCHANGED <<thread, outcome>>

(* anyio.to_thread.run_sync: a checkpoint, then a worker is given the call; *)
(* a worker drops a call whose future was cancelled in the meantime.        *)
Submit(c) ==
    /\ phase[c] = "counted"
    /\ phase' = [phase EXCEPT ![c] = "submitted"]
    /\ thread' = [thread EXCEPT ![c] = "queued"]
    /\ UNCHANGED <<outcome, answer, active>>

PickUp(c) ==
    /\ thread[c] = "queued"
    /\ thread' = [thread EXCEPT ![c] = IF phase[c] = "submitted" THEN "running" ELSE "dropped"]
    /\ UNCHANGED <<phase, outcome, answer, active>>

(* counted_operation: the place is given back however the operation ends.   *)
LeftOnError(c, o) == IF o = "result" THEN active - 1 ELSE active  \* deviation: no finally

Left(c, o) == active - 1

Operate(c) ==
    /\ thread[c] = "running"
    /\ thread' = [thread EXCEPT ![c] = "ended"]
    /\ \E o \in {"result", "AgentContextError", "AgentToolError", "ConfigurationError", "Exception"} :
          /\ outcome' = [outcome EXCEPT ![c] = o]
          /\ active' = Left(c, o)
    /\ UNCHANGED <<phase, answer>>

(* dispatch's handlers and _success, which may find the result too large or *)
(* not of its schema.                                                       *)
Told(o) ==
    CASE o = "result" -> {"OK", "RESOURCE_LIMIT", "UNAVAILABLE"}
      [] o = "ConfigurationError" -> {"SOURCE_UNAVAILABLE"}
      [] o = "Exception" -> {"UNAVAILABLE"}
      [] OTHER -> {"CONTEXT_ERROR"}

Answer(c) ==
    /\ phase[c] = "submitted"
    /\ thread[c] = "ended"
    /\ \E a \in Told(outcome[c]) : Answered(c, a)
    /\ UNCHANGED <<thread, outcome, active>>

LeaveEarly(c, p, a) ==  \* deviation: the coroutine gives the place back
    /\ phase[c] \in {"counted", "submitted"}
    /\ phase' = [phase EXCEPT ![c] = p]
    /\ answer' = [answer EXCEPT ![c] = a]
    /\ active' = IF thread[c] = "ended" THEN active ELSE active - 1
    /\ UNCHANGED <<thread, outcome>>

Leave(c, p, a) ==
    /\ phase[c] \in {"counted", "submitted"}
    /\ phase' = [phase EXCEPT ![c] = p]
    /\ answer' = [answer EXCEPT ![c] = a]
    /\ UNCHANGED <<thread, outcome, active>>

SilentTimeout(c) == Leave(c, "answered", "none")  \* deviation: no typed failure

Timeout(c) == Leave(c, "answered", "TIMEOUT")

Cancel(c) == Leave(c, "cancelled", "none")

Next ==
    \E c \in Call : \/ Admit(c) \/ Submit(c) \/ PickUp(c) \/ Operate(c)
                    \/ Answer(c) \/ Timeout(c) \/ Cancel(c)

Spec ==
    /\ Init
    /\ [][Next]_vars
    /\ \A c \in Call : /\ WF_vars(Submit(c)) /\ WF_vars(PickUp(c))
                       /\ WF_vars(Operate(c)) /\ WF_vars(Answer(c))

-----------------------------------------------------------------------------
(* "Execute at most four independent read-only operations": also counting   *)
(* the threads of calls whose caller has gone (McpDispatcher).              *)
AtMostMaxOperations == Cardinality({c \in Call : thread[c] = "running"}) <= MaxConcurrent

(* The places nobody gives back: of calls whose caller left before a worker *)
(* thread took them, so that counted_operation never ran.                   *)
Lost == {c \in Call : \/ thread[c] = "dropped"
                      \/ thread[c] = "none" /\ (phase[c] = "cancelled" \/ answer[c] = "TIMEOUT")}

(* The counter is exact: every call that ran has given its place back, once *)
(* and however it ended, also when its caller had gone; the counter stands  *)
(* for the calls that hold a place and, as the code has it, for the lost    *)
(* ones (BusyIsTrue is what that breaks).                                   *)
PlacesAccounted == active = Cardinality(Placed) + Cardinality(Lost)

(* The bound on operations is never exceeded, and a call that ran never     *)
(* keeps a place.                                                           *)
CallsAreSound == AtMostMaxOperations /\ PlacesAccounted

(* "The STEWARD MCP server is at its concurrent-call limit": only while     *)
(* that many calls have an operation running or about to run.  Lost places  *)
(* make it say so of an idle server.                                        *)
BusyIsTrue ==
    [][\A c \in Call : answer'[c] = "BUSY" /\ answer[c] = "none" =>
          Cardinality(Placed) >= MaxConcurrent]_vars
=============================================================================
