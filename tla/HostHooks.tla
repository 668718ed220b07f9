----------------------------- MODULE HostHooks -----------------------------
(***************************************************************************)
(* The Codex hook observer (codex_hooks.py): one short process per hook    *)
(* event, all of them sharing the signing key, the state file of a turn    *)
(* and the hand-off file of a workspace.  A tool runs between its          *)
(* PreToolUse and PostToolUse hooks; tools of a turn may run in parallel,  *)
(* and turns of several sessions may share a workspace.  A hook that fails *)
(* is ignored (the observer fails open).                                   *)
(***************************************************************************)
EXTENDS Naturals, FiniteSets, Sequences, SequencesExt

CONSTANTS Turn,      \* turns, each of a session of its own
          Tool,      \* tool uses of a turn
          State,     \* what the workspace may look like
          Clean,     \* what it looks like at first
          KeyAtStart,\* whether the signing key exists already
          MaxEvents, \* MAX_EVENTS
          MaxMisses  \* bound: hook processes that die or cannot observe

HooksAssumption ==
    Clean \in State /\ MaxEvents \in Nat \ {0} /\ MaxMisses \in Nat /\ KeyAtStart \in BOOLEAN

VARIABLES key,     \* the key file: "none", "empty" (created, not written) or "ready"
          repo,    \* the workspace
          hook,    \* per turn and tool: where its hooks and the tool are, what they saw
          stop,    \* per turn: the Stop hook
          turn,    \* per turn: its state file, None if there is none
          handoff, \* the hand-off file: what the workspace looked like, and when it was seen
          clock,   \* how often the workspace was seen by a Stop hook
          receipts,\* per turn: the receipts
          blocks,  \* per turn: how often Stop asked for a continuation
          before,  \* history: what the workspace looked like before a tool of the turn ran
          misses

vars == <<key, repo, hook, stop, turn, handoff, clock, receipts, blocks, before, misses>>

None == [file |-> FALSE]
Event == [tool: Tool, status: {"PENDING", "DONE"}, pre: BOOLEAN]
Stages == {"todo", "run", "done"} \cup
          {h \o s : h \in {"pre ", "post "}, s \in {"key", "write", "observe", "save"}}

HookTypeOK ==
    /\ key \in {"none", "empty", "ready"} /\ repo \in State
    /\ hook \in [Turn -> [Tool -> [at: Stages, seen: State]]]
    /\ stop \in [Turn -> {"none", "key", "write", "read", "publish", "end", "over"}]
    /\ \A u \in Turn :
         turn[u] # None =>
            /\ turn[u].baseline \in State /\ turn[u].injected \in BOOLEAN
            /\ Len(turn[u].events) <= MaxEvents
            /\ \A i \in DOMAIN turn[u].events : turn[u].events[i] \in Event
    /\ blocks \in [Turn -> Nat] /\ misses \in 0..MaxMisses

At(u, t) == hook[u][t].at
Moved(u, t, stage) == hook' = [hook EXCEPT ![u][t].at = stage]
AfterHook(stage) == IF stage \in {"pre key", "pre write", "pre observe", "pre save"}
                    THEN "run" ELSE "done"
Same(stage, s) == (IF AfterHook(stage) = "run" THEN "pre " ELSE "post ") \o s
Locked(u) == stop[u] \in {"publish", "end"}

Init ==
    /\ key = IF KeyAtStart THEN "ready" ELSE "none"
    /\ repo = Clean /\ handoff = None /\ clock = 0 /\ misses = 0
    /\ hook = [u \in Turn |-> [t \in Tool |-> [at |-> "todo", seen |-> Clean]]]
    /\ stop = [u \in Turn |-> "none"] /\ turn = [u \in Turn |-> None]
    /\ receipts = [u \in Turn |-> {}] /\ blocks = [u \in Turn |-> 0]
    /\ before = [u \in Turn |-> {Clean}]

-----------------------------------------------------------------------------
(* Tool use.  The host starts no tool while it runs the Stop hook.         *)

StartTool(u, t) ==
    /\ At(u, t) = "todo" /\ stop[u] = "none" /\ Moved(u, t, "pre key")
    /\ UNCHANGED <<key, repo, stop, turn, handoff, clock, receipts, blocks, before, misses>>

Untouched(u) == \A t \in Tool : At(u, t) \notin {"post key", "post write", "post observe",
                                                 "post save", "done"}

\* The tool itself: it may change the workspace.
RunTool(u, t) ==
    /\ At(u, t) = "run"
    /\ \E s \in State :
         /\ repo' = s
         /\ before' = [v \in Turn |-> IF v # u /\ Untouched(v) THEN before[v] \cup {s}
                                      ELSE before[v]]
    /\ Moved(u, t, "post key")
    /\ UNCHANGED <<key, stop, turn, handoff, clock, receipts, blocks, misses>>

\* _load_or_create_key: a key that is not yet written is an error.
LoadKey(u, t) ==
    /\ At(u, t) \in {"pre key", "post key"}
    /\ Moved(u, t, CASE key = "ready" -> Same(At(u, t), "observe")
                     [] key = "none" -> Same(At(u, t), "write")
                     [] OTHER -> AfterHook(At(u, t)))
    /\ key' = IF key = "none" THEN "empty" ELSE key
    /\ UNCHANGED <<repo, stop, turn, handoff, clock, receipts, blocks, before, misses>>

WriteKey(u, t) ==
    /\ At(u, t) \in {"pre write", "post write"}
    /\ key' = "ready" /\ Moved(u, t, Same(At(u, t), "observe"))
    /\ UNCHANGED <<repo, stop, turn, handoff, clock, receipts, blocks, before, misses>>

\* _observe_workspace, before the turn's lock is taken
Observe(u, t) ==
    /\ At(u, t) \in {"pre observe", "post observe"}
    /\ hook' = [hook EXCEPT ![u][t] = [at |-> Same(At(u, t), "save"), seen |-> repo]]
    /\ UNCHANGED <<key, repo, stop, turn, handoff, clock, receipts, blocks, before, misses>>

\* The hook dies, or git does not answer in time.
Miss(u, t) ==
    /\ At(u, t) \notin {"todo", "run", "done"} /\ misses < MaxMisses
    /\ misses' = misses + 1 /\ Moved(u, t, AfterHook(At(u, t)))
    /\ UNCHANGED <<key, repo, stop, turn, handoff, clock, receipts, blocks, before>>

-----------------------------------------------------------------------------
(* The state file of a turn, read, changed and replaced under its lock     *)

\* Deviation: each observation becomes the baseline.
RebasedTurn(u, seen) ==
    IF turn[u] = None
    THEN [file |-> TRUE, baseline |-> seen, events |-> <<>>, injected |-> FALSE]
    ELSE [turn[u] EXCEPT !.baseline = seen]

\* _load_turn_state and _workspace_record
Loaded(u, seen) ==
    IF turn[u] = None
    THEN [file |-> TRUE, baseline |-> seen, events |-> <<>>, injected |-> FALSE]
    ELSE turn[u]

Known(events, t) == \E i \in DOMAIN events : events[i].tool = t

\* Deviation: the bound on events is not applied.
Untrimmed(events) == events

Newest(events) == SubSeq(events, Len(events) - MaxEvents + 1, Len(events))
Trimmed(events) == IF Len(events) > MaxEvents THEN Newest(events) ELSE events

PreEvents(events, t) ==
    IF Known(events, t) THEN events
    ELSE Trimmed(Append(events, [tool |-> t, status |-> "PENDING", pre |-> TRUE]))

\* Deviation: a result is always a new event.
AppendedEvents(events, t) == Trimmed(Append(events, [tool |-> t, status |-> "DONE", pre |-> FALSE]))

PostEvents(events, t) ==
    IF Known(events, t)
    THEN [i \in DOMAIN events |-> IF events[i].tool = t THEN [events[i] EXCEPT !.status = "DONE"]
                                  ELSE events[i]]
    ELSE Trimmed(Append(events, [tool |-> t, status |-> "DONE", pre |-> FALSE]))

Save(u, t) ==
    /\ At(u, t) \in {"pre save", "post save"} /\ ~Locked(u)
    /\ LET old == Loaded(u, hook[u][t].seen)
           events == IF At(u, t) = "pre save" THEN PreEvents(old.events, t)
                     ELSE PostEvents(old.events, t)
       IN  turn' = [turn EXCEPT ![u] = [old EXCEPT !.events = events]]
    /\ Moved(u, t, AfterHook(At(u, t)))
    /\ UNCHANGED <<key, repo, stop, handoff, clock, receipts, blocks, before, misses>>

-----------------------------------------------------------------------------
(* Stop: the host calls it when no tool of the turn is under way           *)

Quiescent(u) == \A t \in Tool : At(u, t) \in {"todo", "done"}
StopAt(u, stage) == stop' = [stop EXCEPT ![u] = stage]

StopStart(u) ==
    /\ stop[u] = "none" /\ Quiescent(u) /\ \E t \in Tool : At(u, t) = "done"
    /\ StopAt(u, "key")
    /\ UNCHANGED <<key, repo, hook, turn, handoff, clock, receipts, blocks, before, misses>>

StopKey(u) ==
    /\ \/ stop[u] = "key" /\ key # "none" /\ StopAt(u, IF key = "ready" THEN "read" ELSE "over")
          /\ UNCHANGED key
       \/ stop[u] = "key" /\ key = "none" /\ StopAt(u, "write") /\ key' = "empty"
       \/ stop[u] = "write" /\ StopAt(u, "read") /\ key' = "ready"
    /\ UNCHANGED <<repo, hook, turn, handoff, clock, receipts, blocks, before, misses>>

\* The workspace is observed once more; a receipt compares it with the baseline.
Receipt(u) == [before |-> turn[u].baseline, after |-> repo, events |-> turn[u].events,
               seen |-> clock + 1]

\* Under the lock of the turn.
StopRead(u) ==
    /\ stop[u] = "read"
    /\ IF turn[u] = None
       THEN StopAt(u, "over") /\ UNCHANGED <<receipts, clock>>
       ELSE /\ receipts' = [receipts EXCEPT ![u] = @ \cup {Receipt(u)}]
            /\ clock' = clock + 1
            /\ StopAt(u, "publish")
    /\ UNCHANGED <<key, repo, hook, turn, handoff, blocks, before, misses>>

Newer(u) == CHOOSE r \in receipts[u] : \A q \in receipts[u] : q.seen <= r.seen
Changed(r) == r.before # r.after
HandoffOf(r) == [file |-> TRUE, after |-> r.after, seen |-> r.seen]

\* The hand-off of a workspace is replaced; its lock is that of the turn.
StopPublish(u) ==
    /\ stop[u] = "publish" /\ StopAt(u, "end")
    /\ handoff' = IF Changed(Newer(u))
                  THEN HandoffOf(Newer(u)) ELSE handoff
    /\ UNCHANGED <<key, repo, hook, turn, clock, receipts, blocks, before, misses>>

\* Deviation: that the receipt was delivered is not remembered.
MayDeliverAgain(u, active) == Changed(Newer(u)) /\ ~active

MayDeliver(u, active) == Changed(Newer(u)) /\ ~active /\ ~turn[u].injected

\* A continuation is asked for once; otherwise the turn is over.  A host
\* sets stop_hook_active, if at all, only after a continuation.
StopEnd(u, active) ==
    /\ stop[u] = "end" /\ (active => blocks[u] > 0)
    /\ IF MayDeliver(u, active)
       THEN /\ turn' = [turn EXCEPT ![u].injected = TRUE]
            /\ blocks' = [blocks EXCEPT ![u] = @ + 1]
            /\ StopAt(u, "none")
       ELSE turn' = [turn EXCEPT ![u] = None] /\ UNCHANGED blocks /\ StopAt(u, "over")
    /\ UNCHANGED <<key, repo, hook, handoff, clock, receipts, before, misses>>

Next ==
    \E u \in Turn :
        \/ \E t \in Tool : \/ StartTool(u, t) \/ RunTool(u, t) \/ LoadKey(u, t) \/ WriteKey(u, t)
                           \/ Observe(u, t) \/ Miss(u, t) \/ Save(u, t)
        \/ StopStart(u) \/ StopKey(u) \/ StopRead(u) \/ StopPublish(u)
        \/ \E active \in BOOLEAN : StopEnd(u, active)

Spec == Init /\ [][Next]_vars

-----------------------------------------------------------------------------
(* Properties *)

\* What a receipt calls the state before the turn is a state the workspace had
\* before any tool of the turn ran, though hooks observe it before they queue
\* for the lock (_pre_tool_use, _workspace_record).
ReceiptTruthful == \A u \in Turn : \A r \in receipts[u] : r.before \in before[u]

\* A receipt names every tool use of the turn once, with its result, up to the
\* bound on events (_pre_tool_use, _post_tool_use).
Finished(u) == {t \in Tool : At(u, t) = "done"}
ReceiptComplete ==
    \A u \in Turn : stop[u] = "publish" =>
        LET events == Newer(u).events
        IN  /\ \A i, j \in DOMAIN events : events[i].tool = events[j].tool => i = j
            /\ \A i \in DOMAIN events : events[i].status = "DONE"
            /\ \/ Len(events) = MaxEvents
               \/ {events[i].tool : i \in DOMAIN events} = Finished(u)

\* A turn asks for one continuation at most, whatever the host reports.
OneDelivery == \A u \in Turn : blocks[u] <= 1

\* When no Stop hook is under way the hand-off is the newest of all
\* receipts with a change ("Latest handoff receipt", _session_start).
LatestHandoff ==
    (\A u \in Turn : stop[u] \in {"none", "over"}) =>
        \A u \in Turn : \A r \in receipts[u] : Changed(r) => handoff.seen >= r.seen

\* An empty key file is one some hook is about to write.
KeyNeverStuck ==
    key = "empty" =>
        \E u \in Turn : stop[u] = "write" \/ \E t \in Tool : At(u, t) \in {"pre write", "post write"}
=============================================================================
