-------------------------- MODULE NativeDispatcher --------------------------
(***************************************************************************)
(* The tool server of native_mcp_server/adapter.py: each call is validated,*)
(* its operation is handed to a worker thread that takes one lock around   *)
(* it, and the call is answered when the thread reports or when its        *)
(* deadline has passed.  The thread is abandoned, not stopped: it still    *)
(* runs its operation to the end.  An acquisition is shown as two steps,   *)
(* between which its Run is being written; afterwards the Run is VERIFIED, *)
(* closed as failed, or incomplete, to be recovered.                       *)
(***************************************************************************)
EXTENDS Naturals, FiniteSets, TLC

CONSTANTS Call,      \* calls of the client
          Run,       \* Runs an acquisition may create
          Endless    \* may an operation never return?

EndlessIsBoolean == Endless \in BOOLEAN

VARIABLES tool,      \* call -> the tool it asks for
          target,    \* call -> the Run it recovers or has created
          phase,     \* call -> where its coroutine is
          thread,    \* call -> where its worker thread is
          outcome,   \* call -> what its operation returned or raised
          answer,    \* call -> what the client was told
          lock,      \* the thread inside the operation lock
          store,     \* Run -> what the Evidence root shows of it
          seen       \* call -> the Runs a history operation has read

vars == <<tool, target, phase, thread, outcome, answer, lock, store, seen>>

NoCall == "no call"
NoRun == "no run"

(* The two names that stand for nobody and nothing are nobody's.            *)
NamesAreFree == NoCall \notin Call /\ NoRun \notin Run

Tools == {"HISTORY", "DOCUMENT", "UPDATE", "RECOVERY"}
Outcomes == {"none", "result", "STEWARD_ERROR", "VALUE_ERROR", "EXCEPTION"}
Closed == {"verified", "failed"}
Statuses == {"writing", "incomplete"} \cup Closed
Answers == {"none", "OK", "TOOL_NOT_FOUND", "ARGUMENT_INVALID", "TIMEOUT",
            "REJECTED", "RESOURCE_LIMIT", "UNAVAILABLE"}

NativeTypeOK ==
    /\ tool \in [Call -> Tools \cup {"none"}]
    /\ target \in [Call -> Run \cup {NoRun}]
    /\ phase \in [Call -> {"new", "submitted", "answered"}]
    /\ thread \in [Call -> {"none", "queued", "waiting", "running", "ended"}]
    /\ outcome \in [Call -> Outcomes]
    /\ answer \in [Call -> Answers]
    /\ lock \in Call \cup {NoCall}
    /\ store \in [Run -> Statuses \cup {"absent"}]
    /\ seen \in [Call -> SUBSET (Run \X Statuses)]
    /\ \A c \in Call : /\ phase[c] = "answered" <=> answer[c] # "none"
                       /\ outcome[c] # "none" => thread[c] = "ended"

Init ==
    /\ tool = [c \in Call |-> "none"]
    /\ target = [c \in Call |-> NoRun]
    /\ phase = [c \in Call |-> "new"]
    /\ thread = [c \in Call |-> "none"]
    /\ outcome = [c \in Call |-> "none"]
    /\ answer = [c \in Call |-> "none"]
    /\ lock = NoCall
    /\ store = [r \in Run |-> "absent"]
    /\ seen = [c \in Call |-> {}]

Answered(c, a) ==
    /\ phase' = [phase EXCEPT ![c] = "answered"]
    /\ answer' = [answer EXCEPT ![c] = a]

-----------------------------------------------------------------------------
(* dispatch: the tool and the arguments are checked before anything starts. *)
Refuse(c) ==
    /\ phase[c] = "new"
    /\ \E a \in {"TOOL_NOT_FOUND", "ARGUMENT_INVALID"} : Answered(c, a)
    /\ UNCHANGED <<tool, target, thread, outcome, lock, store, seen>>

Submit(c) ==
    /\ phase[c] = "new"
    /\ \E t \in Tools, r \in Run \cup {NoRun} :
          /\ (t = "RECOVERY") <=> (r # NoRun)
          /\ tool' = [tool EXCEPT ![c] = t]
          /\ target' = [target EXCEPT ![c] = r]
    /\ phase' = [phase EXCEPT ![c] = "submitted"]
    /\ thread' = [thread EXCEPT ![c] = "queued"]
    /\ UNCHANGED <<outcome, answer, lock, store, seen>>

(* A worker takes the call off its queue; anyio drops one whose caller has  *)
(* already given up.                                                        *)
PickUp(c) ==
    /\ thread[c] = "queued"
    /\ thread' = [thread EXCEPT ![c] = IF phase[c] = "submitted" THEN "waiting"
                                                                 ELSE "ended"]
    /\ UNCHANGED <<tool, target, phase, outcome, answer, lock, store, seen>>

(* _locked: the operation runs inside the lock, whoever still waits for it; *)
(* an acquisition may fail before it has a Run.                             *)
NoLock(c) == TRUE  \* deviation: no operation lock

MayEnter(c) == lock = NoCall

Enter(c) ==
    /\ thread[c] = "waiting"
    /\ MayEnter(c)
    /\ lock' = c
    /\ thread' = [thread EXCEPT ![c] = "running"]
    /\ \/ UNCHANGED <<target, store>>
       \/ \E r \in Run : /\ tool[c] = "UPDATE" /\ store[r] = "absent"
                         /\ target' = [target EXCEPT ![c] = r]
                         /\ store' = [store EXCEPT ![r] = "writing"]
    /\ UNCHANGED <<tool, phase, outcome, answer, seen>>

KeptLock(c, o) ==  \* deviation: the lock is not released when the operation raises
    /\ thread' = [thread EXCEPT ![c] = "ended"]
    /\ outcome' = [outcome EXCEPT ![c] = o]
    /\ lock' = IF lock = c /\ o # "EXCEPTION" THEN NoCall ELSE lock
    /\ UNCHANGED <<tool, target, phase, answer>>

KeptThread(c, o) ==  \* deviation: the outcome is published before the thread ends
    /\ outcome' = [outcome EXCEPT ![c] = o]
    /\ lock' = IF lock = c THEN NoCall ELSE lock
    /\ UNCHANGED <<tool, target, phase, answer, thread>>

Ends(c, o) ==
    /\ thread' = [thread EXCEPT ![c] = "ended"]
    /\ outcome' = [outcome EXCEPT ![c] = o]
    /\ lock' = IF lock = c THEN NoCall ELSE lock
    /\ UNCHANGED <<tool, target, phase, answer>>

Fails(c) == \E o \in {"STEWARD_ERROR", "EXCEPTION"} : Ends(c, o)

(* _update: an acquisition that fails leaves its Run behind in any state,   *)
(* VERIFIED too: it may raise after its last commit.                        *)
Update(c) ==
    /\ thread[c] = "running"
    /\ tool[c] = "UPDATE"
    /\ IF target[c] = NoRun
       THEN store' = store /\ Fails(c)
       ELSE \/ /\ store' = [store EXCEPT ![target[c]] = "verified"]
               /\ Ends(c, "result")
            \/ /\ \E s \in Closed \cup {"incomplete"} : store' = [store EXCEPT ![target[c]] = s]
               /\ Fails(c)
    /\ UNCHANGED seen

(* _recovery: a Run that nobody knows is refused; an incomplete one is      *)
(* closed or the recovery fails before or after that; a closed one stays    *)
(* and is verified again.  The ledger is read before the lease is asked     *)
(* for, and the lease of a Run still being written is not to be had.        *)
Recovered(status) == IF status = "incomplete" THEN Closed \cup {"incomplete"} ELSE {status}

Recover(c) ==
    /\ thread[c] = "running"
    /\ tool[c] = "RECOVERY"
    /\ IF store[target[c]] = "absent"
       THEN UNCHANGED <<store, seen>> /\ Fails(c)
       ELSE /\ seen' = [seen EXCEPT ![c] = {<<target[c], store[target[c]]>>}]
            /\ \E s \in Recovered(store[target[c]]) :
                 /\ store' = [store EXCEPT ![target[c]] = s]
                 /\ \/ s \in Closed /\ Ends(c, "result")
                    \/ Fails(c)

(* _history and _document only read.                                        *)
Read(c) ==
    /\ thread[c] = "running"
    /\ tool[c] \in {"HISTORY", "DOCUMENT"}
    /\ \/ /\ seen' = [seen EXCEPT ![c] =
                IF tool[c] = "HISTORY"
                THEN {<<r, store[r]>> : r \in {q \in Run : store[q] # "absent"}}
                ELSE {}]
          /\ Ends(c, "result")
       \/ seen' = seen /\ \E o \in {"STEWARD_ERROR", "VALUE_ERROR", "EXCEPTION"} : Ends(c, o)
    /\ UNCHANGED store

-----------------------------------------------------------------------------
(* dispatch's handlers: what each outcome becomes; a result may prove too   *)
(* large or fail its schema only after the operation has had its effect.    *)
Told(o) ==
    CASE o = "result"        -> {"OK", "RESOURCE_LIMIT", "UNAVAILABLE"}
      [] o = "STEWARD_ERROR" -> {"REJECTED", "ARGUMENT_INVALID", "RESOURCE_LIMIT"}
      [] o = "VALUE_ERROR"   -> {"ARGUMENT_INVALID"}
      [] OTHER               -> {"UNAVAILABLE"}

AnswerEarly(c) ==  \* deviation: the answer does not wait for the thread
    /\ phase[c] = "submitted"
    /\ thread[c] \in {"running", "ended"}
    /\ \E a \in Told(IF outcome[c] = "none" THEN "result" ELSE outcome[c]) : Answered(c, a)
    /\ UNCHANGED <<tool, target, thread, outcome, lock, store, seen>>

Answer(c) ==
    /\ phase[c] = "submitted"
    /\ thread[c] = "ended"
    /\ \E a \in Told(outcome[c]) : Answered(c, a)
    /\ UNCHANGED <<tool, target, thread, outcome, lock, store, seen>>

TimeoutOnlyOutside(c) ==  \* deviation: abandon_on_cancel = False
    /\ phase[c] = "submitted"
    /\ lock = NoCall
    /\ Answered(c, "TIMEOUT")
    /\ UNCHANGED <<tool, target, thread, outcome, lock, store, seen>>

(* fail_after: the deadline passes, wherever the thread is.                 *)
Timeout(c) ==
    /\ phase[c] = "submitted"
    /\ Answered(c, "TIMEOUT")
    /\ UNCHANGED <<tool, target, thread, outcome, lock, store, seen>>

Operate(c) == Update(c) \/ Recover(c) \/ Read(c)

Next ==
    \E c \in Call :    \/ Refuse(c) \/ Submit(c) \/ PickUp(c) \/ Enter(c)
                       \/ Update(c) \/ Recover(c) \/ Read(c)
                       \/ Answer(c) \/ Timeout(c)

(* Worker threads are scheduled and the event loop runs its timers; an      *)
(* operation comes to an end unless Endless says it may hang.               *)
Spec ==
    /\ Init
    /\ [][Next]_vars
    /\ \A c \in Call : /\ WF_vars(PickUp(c))
                       /\ WF_vars(Timeout(c))
                       /\ SF_vars(Enter(c))
                       /\ ~Endless => WF_vars(Operate(c))
                       /\ WF_vars(Answer(c))

-----------------------------------------------------------------------------
(* No operation of this server, abandoned or not, ever meets a Run that     *)
(* another of its threads is still writing: a recovery requested after a    *)
(* timed-out acquisition waits for that acquisition to end, and a history   *)
(* read reports no half-written Run (_locked).                              *)
RunsSettled ==
    \A c \in Call, r \in Run : <<r, "writing">> \notin seen[c]

(* A client told OK for an acquisition finds its Run VERIFIED then and ever *)
(* after, one told OK for a recovery finds its Run closed, and no two calls *)
(* are told of the same acquisition (_update's created_identity).           *)
OkIsDurable ==
    \A c \in Call :
        answer[c] = "OK" /\ tool[c] \in {"UPDATE", "RECOVERY"} =>
            /\ target[c] # NoRun /\ store[target[c]] \in Closed
            /\ tool[c] = "UPDATE" =>
                 /\ store[target[c]] = "verified"
                 /\ \A d \in Call \ {c} : tool[d] = "UPDATE" => target[d] # target[c]

(* What the server owes its clients, whether or not they wait for it.       *)
CallsAreSound == RunsSettled /\ OkIsDurable

IsSubmitted(c) == phase[c] = "submitted"
IsAnswered(c) == phase[c] = "answered"
IsWaiting(c) == thread[c] = "waiting"
HasEnded(c) == thread[c] = "ended"

(* Every submitted call is answered, also while another call's operation    *)
(* hangs inside the lock (fail_after with abandon_on_cancel).               *)
EveryCallAnswered == \A c \in Call : IsSubmitted(c) ~> IsAnswered(c)

(* An abandoned operation is not lost: a thread that has been picked up     *)
(* runs its operation to the end although nobody waits for it.              *)
AbandonedStillRuns == \A c \in Call : IsWaiting(c) ~> HasEnded(c)

=============================================================================
