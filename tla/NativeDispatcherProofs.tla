----------------------- MODULE NativeDispatcherProofs -----------------------
(***************************************************************************)
(* Theorems of NativeDispatcher, for any number of calls and Runs.         *)
(*                                                                         *)
(* CallsAreSound is not inductive.  That nobody meets a half-written Run   *)
(* follows from the lock: what is being written is written by the one      *)
(* thread inside it (Exclusive, WritersAreInside).  That an OK is durable  *)
(* follows from what an operation knew when it ended (ResultsStand): its   *)
(* Run was closed, a closed Run stays as it is, and an acquisition writes  *)
(* its own Run once (TargetsAreOwn).                                       *)
(***************************************************************************)
EXTENDS NativeDispatcher, TLAPS

\* The one lock around every operation.
Exclusive == \A c \in Call : thread[c] = "running" => lock = c

\* What a call asks for is fixed before its thread starts.
AskedFirst ==
  \A c \in Call :
    /\ phase[c] = "new" => thread[c] = "none"
    /\ thread[c] = "none" <=> tool[c] = "none"
    /\ tool[c] = "RECOVERY" => target[c] # NoRun
    /\ target[c] # NoRun => tool[c] \in {"UPDATE", "RECOVERY"}
    /\ tool[c] = "UPDATE" /\ target[c] # NoRun => thread[c] \in {"running", "ended"}

\* Every acquisition has a Run of its own, which exists.
TargetsAreOwn ==
  \A c \in Call :
    tool[c] = "UPDATE" /\ target[c] # NoRun =>
      /\ store[target[c]] # "absent"
      /\ \A d \in Call \ {c} : tool[d] = "UPDATE" => target[d] # target[c]

\* A Run is being written exactly while its acquisition is inside the lock.
WritersAreInside ==
  /\ \A c \in Call : thread[c] = "running" /\ tool[c] = "UPDATE" /\ target[c] # NoRun =>
       store[target[c]] = "writing"
  /\ \A r \in Run : store[r] = "writing" =>
       \E c \in Call : thread[c] = "running" /\ tool[c] = "UPDATE" /\ target[c] = r

\* An operation that returned a result left its Run closed, an acquisition
\* left it verified, and only such an operation is answered with OK.
ResultsStand ==
  \A c \in Call :
    /\ outcome[c] = "result" /\ tool[c] \in {"UPDATE", "RECOVERY"} =>
         target[c] # NoRun /\ store[target[c]] \in Closed
    /\ outcome[c] = "result" /\ tool[c] = "UPDATE" => store[target[c]] = "verified"
    /\ answer[c] = "OK" => outcome[c] = "result"

\* The inductive invariant.
NativeInvariant ==
  /\ NativeTypeOK
  /\ Exclusive
  /\ AskedFirst
  /\ TargetsAreOwn
  /\ WritersAreInside
  /\ ResultsStand
  /\ RunsSettled

-----------------------------------------------------------------------------
LEMMA InitNative == Init => NativeInvariant
BY DEF Init, NativeInvariant, NativeTypeOK, Exclusive, AskedFirst, TargetsAreOwn,
       WritersAreInside, ResultsStand, RunsSettled, Tools, Outcomes, Answers

LEMMA OkIsDurableFollows == NativeInvariant => OkIsDurable
BY DEF NativeInvariant, ResultsStand, TargetsAreOwn, OkIsDurable

\* A step that changes phases and answers only, of one call: a refusal, an
\* answer or a timeout.
LEMMA AnswerKeeps ==
  ASSUME NativeInvariant, NEW c \in Call, NEW a \in Answers \ {"none"},
         Answered(c, a), a = "OK" => outcome[c] = "result",
         UNCHANGED <<tool, target, thread, outcome, lock, store, seen>>
  PROVE  NativeInvariant'
<1>1. NativeTypeOK'
  BY DEF NativeInvariant, NativeTypeOK, Answered
<1>2. Exclusive' /\ TargetsAreOwn' /\ WritersAreInside' /\ RunsSettled'
  BY DEF NativeInvariant, Exclusive, TargetsAreOwn, WritersAreInside, RunsSettled
<1>3. AskedFirst'
  BY DEF NativeInvariant, NativeTypeOK, AskedFirst, Answered
<1>4. ResultsStand'
  BY DEF NativeInvariant, NativeTypeOK, ResultsStand, Answered
<1> QED
  BY <1>1, <1>2, <1>3, <1>4 DEF NativeInvariant

LEMMA RefuseKeeps ==
  ASSUME NativeInvariant, NEW c \in Call, Refuse(c)
  PROVE  NativeInvariant'
BY AnswerKeeps DEF Refuse, Answers

LEMMA ToldFacts ==
  ASSUME NEW o \in Outcomes
  PROVE  Told(o) \subseteq Answers \ {"none"} /\ ("OK" \in Told(o) => o = "result")
BY DEF Told, Answers, Outcomes

LEMMA AnswerStepKeeps ==
  ASSUME NativeInvariant, NEW c \in Call, Answer(c)
  PROVE  NativeInvariant'
<1>1. outcome[c] \in Outcomes
  BY DEF NativeInvariant, NativeTypeOK
<1>2. PICK a \in Told(outcome[c]) : Answered(c, a)
  BY DEF Answer
<1> QED
  BY <1>1, <1>2, ToldFacts, AnswerKeeps DEF Answer

LEMMA TimeoutKeeps ==
  ASSUME NativeInvariant, NEW c \in Call, Timeout(c)
  PROVE  NativeInvariant'
BY AnswerKeeps DEF Timeout, Answers

LEMMA SubmitKeeps ==
  ASSUME NativeInvariant, NamesAreFree, NEW c \in Call, Submit(c)
  PROVE  NativeInvariant'
<1>1. PICK t \in Tools, r \in Run \cup {NoRun} :
        /\ (t = "RECOVERY") <=> (r # NoRun)
        /\ tool' = [tool EXCEPT ![c] = t]
        /\ target' = [target EXCEPT ![c] = r]
  BY DEF Submit
<1>2. /\ phase[c] = "new" /\ thread[c] = "none" /\ tool[c] = "none"
      /\ phase' = [phase EXCEPT ![c] = "submitted"]
      /\ thread' = [thread EXCEPT ![c] = "queued"]
      /\ UNCHANGED <<outcome, answer, lock, store, seen>>
      /\ outcome[c] = "none" /\ answer[c] = "none"
  BY DEF Submit, NativeInvariant, AskedFirst, NativeTypeOK
<1>3. NativeTypeOK'
  BY <1>1, <1>2 DEF NativeInvariant, NativeTypeOK
<1>4. \A d \in Call : d # c => /\ tool'[d] = tool[d] /\ target'[d] = target[d]
                              /\ thread'[d] = thread[d] /\ phase'[d] = phase[d]
  BY <1>1, <1>2 DEF NativeInvariant, NativeTypeOK
<1>5. tool'[c] = t /\ target'[c] = r /\ thread'[c] = "queued" /\ phase'[c] = "submitted"
  BY <1>1, <1>2 DEF NativeInvariant, NativeTypeOK
<1>6. Exclusive' /\ RunsSettled'
  BY <1>2, <1>4, <1>5 DEF NativeInvariant, Exclusive, RunsSettled
<1>7. AskedFirst'
  BY <1>1, <1>4, <1>5 DEF NativeInvariant, AskedFirst, Tools
<1>8. TargetsAreOwn' /\ WritersAreInside'
  <2>1. TargetsAreOwn'
    BY <1>1, <1>2, <1>4, <1>5 DEF NativeInvariant, TargetsAreOwn, Tools
  <2>2. WritersAreInside'
    BY <1>1, <1>2, <1>4, <1>5 DEF NativeInvariant, WritersAreInside
  <2> QED
    BY <2>1, <2>2
<1>9. ResultsStand'
  BY <1>1, <1>2, <1>4, <1>5 DEF NativeInvariant, ResultsStand
<1> QED
  BY <1>3, <1>6, <1>7, <1>8, <1>9 DEF NativeInvariant

LEMMA PickUpKeeps ==
  ASSUME NativeInvariant, NEW c \in Call, PickUp(c)
  PROVE  NativeInvariant'
<1>1. /\ thread[c] = "queued" /\ outcome[c] = "none"
      /\ UNCHANGED <<tool, target, phase, outcome, answer, lock, store, seen>>
      /\ thread'[c] \in {"waiting", "ended"}
      /\ \A d \in Call : d # c => thread'[d] = thread[d]
      /\ thread' \in [Call -> {"none", "queued", "waiting", "running", "ended"}]
  BY DEF PickUp, NativeInvariant, NativeTypeOK
<1>2. NativeTypeOK'
  BY <1>1 DEF NativeInvariant, NativeTypeOK
<1>3. Exclusive' /\ AskedFirst'
  BY <1>1 DEF NativeInvariant, NativeTypeOK, Exclusive, AskedFirst
<1>4. TargetsAreOwn' /\ ResultsStand' /\ RunsSettled'
  BY <1>1 DEF NativeInvariant, TargetsAreOwn, ResultsStand, RunsSettled
<1>5. WritersAreInside'
  BY <1>1 DEF NativeInvariant, WritersAreInside
<1> QED
  BY <1>2, <1>3, <1>4, <1>5 DEF NativeInvariant

\* Whoever enters is alone inside, and the Run it creates nobody else has.
LEMMA EnterKeeps ==
  ASSUME NativeInvariant, NamesAreFree, NEW c \in Call, Enter(c)
  PROVE  NativeInvariant'
<1>1. /\ thread[c] = "waiting" /\ lock = NoCall /\ lock' = c /\ outcome[c] = "none"
      /\ \A d \in Call : thread[d] # "running"
      /\ UNCHANGED <<tool, phase, outcome, answer, seen>>
      /\ thread'[c] = "running"
      /\ \A d \in Call : d # c => thread'[d] = thread[d]
      /\ thread' \in [Call -> {"none", "queued", "waiting", "running", "ended"}]
      /\ tool[c] = "UPDATE" => target[c] = NoRun
      /\ \A r \in Run : store[r] # "writing"
  BY DEF Enter, MayEnter, NamesAreFree, NativeInvariant, NativeTypeOK, Exclusive,
         AskedFirst, WritersAreInside
<1>2. CASE UNCHANGED <<target, store>>
  <2>1. NativeTypeOK' /\ Exclusive'
    BY <1>1, <1>2 DEF NativeInvariant, NativeTypeOK, Exclusive
  <2>2. AskedFirst'
    BY <1>1, <1>2 DEF NativeInvariant, NativeTypeOK, AskedFirst
  <2>3. TargetsAreOwn' /\ ResultsStand' /\ RunsSettled'
    BY <1>1, <1>2 DEF NativeInvariant, TargetsAreOwn, ResultsStand, RunsSettled
  <2>4. WritersAreInside'
    BY <1>1, <1>2 DEF NativeInvariant, WritersAreInside
  <2> QED
    BY <2>1, <2>2, <2>3, <2>4 DEF NativeInvariant
<1>3. CASE /\ tool[c] = "UPDATE"
           /\ \E r \in Run : /\ store[r] = "absent"
                             /\ target' = [target EXCEPT ![c] = r]
                             /\ store' = [store EXCEPT ![r] = "writing"]
  <2>1. PICK r \in Run : /\ store[r] = "absent"
                         /\ target' = [target EXCEPT ![c] = r]
                         /\ store' = [store EXCEPT ![r] = "writing"]
    BY <1>3
  <2>2. /\ target'[c] = r /\ store'[r] = "writing" /\ r # NoRun
        /\ \A d \in Call : d # c => target'[d] = target[d]
        /\ \A q \in Run : q # r => store'[q] = store[q]
    BY <2>1 DEF NamesAreFree, NativeInvariant, NativeTypeOK
  <2>3. NativeTypeOK' /\ Exclusive'
    BY <1>1, <2>1 DEF NativeInvariant, NativeTypeOK, Exclusive, Statuses
  <2>4. AskedFirst'
    BY <1>1, <1>3, <2>2 DEF NativeInvariant, NativeTypeOK, AskedFirst
  <2>5. \A d \in Call : target[d] = NoRun \/ target[d] \in Run
    BY DEF NativeInvariant, NativeTypeOK
  <2>6. TargetsAreOwn'
    BY <1>1, <2>1, <2>2, <2>5 DEF NativeInvariant, TargetsAreOwn
  <2>7. WritersAreInside'
    BY <1>1, <1>3, <2>1, <2>2 DEF NativeInvariant, WritersAreInside
  <2>8. ResultsStand'
    BY <1>1, <2>1, <2>2, <2>5 DEF NativeInvariant, ResultsStand, Closed
  <2>9. RunsSettled'
    BY <1>1 DEF NativeInvariant, RunsSettled
  <2> QED
    BY <2>3, <2>4, <2>6, <2>7, <2>8, <2>9 DEF NativeInvariant
<1> QED
  BY <1>1, <1>2, <1>3 DEF Enter

\* An operation ends: it leaves the lock, and what it was writing, if
\* anything, is written.
LEMMA EndFacts ==
  ASSUME NativeInvariant, NEW c \in Call, NEW o \in Outcomes,
         thread[c] = "running", Ends(c, o)
  PROVE  /\ lock = c /\ lock' = NoCall /\ outcome[c] = "none"
         /\ \A d \in Call : d # c => thread[d] # "running"
         /\ UNCHANGED <<tool, target, phase, answer>>
         /\ thread'[c] = "ended" /\ outcome'[c] = o
         /\ \A d \in Call : d # c => thread'[d] = thread[d] /\ outcome'[d] = outcome[d]
         /\ thread' \in [Call -> {"none", "queued", "waiting", "running", "ended"}]
         /\ outcome' \in [Call -> Outcomes]
         /\ answer[c] # "OK"
BY DEF NativeInvariant, NativeTypeOK, Exclusive, Ends, ResultsStand

\* After an operation that changed at most one Run, and changed it from
\* being written or incomplete.
LEMMA EndKeeps ==
  ASSUME NativeInvariant, NamesAreFree, NEW c \in Call, NEW o \in Outcomes,
         thread[c] = "running", Ends(c, o),
         store' \in [Run -> Statuses \cup {"absent"}],
         seen' \in [Call -> SUBSET (Run \X Statuses)],
         \A r \in Run : store'[r] # store[r] =>
           store[r] \in {"writing", "incomplete"} /\ store'[r] \in Closed \cup {"incomplete"},
         tool[c] = "UPDATE" /\ target[c] # NoRun => store'[target[c]] # "writing",
         o = "result" /\ tool[c] \in {"UPDATE", "RECOVERY"} =>
           target[c] # NoRun /\ store'[target[c]] \in Closed,
         o = "result" /\ tool[c] = "UPDATE" => store'[target[c]] = "verified",
         RunsSettled'
  PROVE  NativeInvariant'
<1>1. /\ lock = c /\ lock' = NoCall /\ outcome[c] = "none"
      /\ \A d \in Call : d # c => thread[d] # "running"
      /\ UNCHANGED <<tool, target, phase, answer>>
      /\ thread'[c] = "ended" /\ outcome'[c] = o
      /\ \A d \in Call : d # c => thread'[d] = thread[d] /\ outcome'[d] = outcome[d]
      /\ thread' \in [Call -> {"none", "queued", "waiting", "running", "ended"}]
      /\ outcome' \in [Call -> Outcomes]
      /\ answer[c] # "OK"
  BY EndFacts
<1>2. \A d \in Call : target[d] # NoRun => target[d] \in Run
  BY DEF NativeInvariant, NativeTypeOK
<1>3. NativeTypeOK'
  BY <1>1 DEF NativeInvariant, NativeTypeOK
<1>4. Exclusive'
  BY <1>1 DEF Exclusive
<1>5. AskedFirst'
  BY <1>1 DEF NativeInvariant, NativeTypeOK, AskedFirst
<1>6. TargetsAreOwn'
  BY <1>1, <1>2 DEF NativeInvariant, TargetsAreOwn, Closed
<1>7. WritersAreInside'
  <2>1. \A d \in Call : thread'[d] # "running"
    BY <1>1
  <2>2. ASSUME NEW r \in Run, store'[r] = "writing"
        PROVE  FALSE
    <3>1. store[r] = "writing"
      BY <2>2 DEF Closed
    <3>2. tool[c] = "UPDATE" /\ target[c] = r
      BY <1>1, <3>1 DEF NativeInvariant, WritersAreInside
    <3> QED
      BY <2>2, <3>2 DEF NamesAreFree
  <2> QED
    BY <2>1, <2>2 DEF WritersAreInside
<1>8. ResultsStand'
  BY <1>1, <1>2 DEF NativeInvariant, ResultsStand, Closed
<1> QED
  BY <1>3, <1>4, <1>5, <1>6, <1>7, <1>8 DEF NativeInvariant

LEMMA UpdateKeeps ==
  ASSUME NativeInvariant, NamesAreFree, NEW c \in Call, Update(c)
  PROVE  NativeInvariant'
<1>1. /\ thread[c] = "running" /\ tool[c] = "UPDATE" /\ seen' = seen
      /\ target[c] \in Run \cup {NoRun}
      /\ target[c] # NoRun => store[target[c]] = "writing"
      /\ store \in [Run -> Statuses \cup {"absent"}]
      /\ seen \in [Call -> SUBSET (Run \X Statuses)]
  BY DEF Update, NativeInvariant, NativeTypeOK, WritersAreInside
<1>2. RunsSettled'
  BY <1>1 DEF NativeInvariant, RunsSettled
<1>3. CASE target[c] = NoRun
  <2>1. PICK o \in {"STEWARD_ERROR", "EXCEPTION"} : store' = store /\ Ends(c, o)
    BY <1>3 DEF Update, Fails
  <2>2. o \in Outcomes /\ o # "result"
    BY DEF Outcomes
  <2> QED
    BY <1>1, <1>2, <1>3, <2>1, <2>2, EndKeeps
<1>4. CASE /\ target[c] # NoRun
           /\ store' = [store EXCEPT ![target[c]] = "verified"]
           /\ Ends(c, "result")
  <2>1. "result" \in Outcomes
    BY DEF Outcomes
  <2> QED
    BY <1>1, <1>2, <1>4, <2>1, EndKeeps DEF Closed, Statuses
<1>5. CASE /\ target[c] # NoRun
           /\ \E s \in Closed \cup {"incomplete"} : store' = [store EXCEPT ![target[c]] = s]
           /\ Fails(c)
  <2>1. PICK o \in {"STEWARD_ERROR", "EXCEPTION"} : Ends(c, o)
    BY <1>5 DEF Fails
  <2>2. o \in Outcomes /\ o # "result"
    BY DEF Outcomes
  <2> QED
    BY <1>1, <1>2, <1>5, <2>1, <2>2, EndKeeps DEF Closed, Statuses
<1> QED
  BY <1>3, <1>4, <1>5 DEF Update

\* A recovery is inside the lock, so what it finds being written would be
\* written by itself; and a closed Run is left as it was found.
LEMMA RecoverKeeps ==
  ASSUME NativeInvariant, NamesAreFree, NEW c \in Call, Recover(c)
  PROVE  NativeInvariant'
<1>1. /\ thread[c] = "running" /\ tool[c] = "RECOVERY"
      /\ target[c] \in Run
      /\ store \in [Run -> Statuses \cup {"absent"}]
      /\ seen \in [Call -> SUBSET (Run \X Statuses)]
      /\ \A d \in Call : thread[d] = "running" => d = c
  BY DEF Recover, NativeInvariant, NativeTypeOK, AskedFirst, Exclusive
<1>2. store[target[c]] # "writing"
  BY <1>1 DEF NativeInvariant, WritersAreInside
<1>3. CASE store[target[c]] # "absent"
  <2>1. /\ store[target[c]] \in Statuses
        /\ seen' = [seen EXCEPT ![c] = {<<target[c], store[target[c]]>>}]
    BY <1>1, <1>3 DEF Recover
  <2>2. RunsSettled'
    BY <1>1, <1>2, <2>1 DEF NativeInvariant, RunsSettled
  <2>3. seen' \in [Call -> SUBSET (Run \X Statuses)]
    BY <1>1, <2>1
  <2>4. PICK s \in Recovered(store[target[c]]) :
          /\ store' = [store EXCEPT ![target[c]] = s]
          /\ \/ s \in Closed /\ Ends(c, "result")
             \/ Fails(c)
    BY <1>3 DEF Recover
  <2>5. /\ s \in Statuses
        /\ s # store[target[c]] => store[target[c]] = "incomplete" /\ s \in Closed \cup {"incomplete"}
    BY <2>1, <2>4 DEF Recovered, Statuses
  <2>6. PICK o \in Outcomes : Ends(c, o) /\ (o = "result" => s \in Closed)
    BY <2>4 DEF Fails, Outcomes
  <2>7. /\ store' \in [Run -> Statuses \cup {"absent"}]
        /\ store'[target[c]] = s
        /\ \A r \in Run : store'[r] # store[r] =>
             store[r] \in {"writing", "incomplete"} /\ store'[r] \in Closed \cup {"incomplete"}
    BY <1>1, <2>4, <2>5
  <2> QED
    BY <1>1, <2>2, <2>3, <2>6, <2>7, EndKeeps DEF NamesAreFree
<1>4. CASE store[target[c]] = "absent"
  <2>1. PICK o \in {"STEWARD_ERROR", "EXCEPTION"} : UNCHANGED <<store, seen>> /\ Ends(c, o)
    BY <1>4 DEF Recover, Fails
  <2>2. RunsSettled'
    BY <2>1 DEF NativeInvariant, RunsSettled
  <2>3. o \in Outcomes /\ o # "result"
    BY DEF Outcomes
  <2> QED
    BY <1>1, <2>1, <2>2, <2>3, EndKeeps
<1> QED
  BY <1>3, <1>4

LEMMA ReadKeeps ==
  ASSUME NativeInvariant, NamesAreFree, NEW c \in Call, Read(c)
  PROVE  NativeInvariant'
<1>1. /\ thread[c] = "running" /\ tool[c] \in {"HISTORY", "DOCUMENT"} /\ store' = store
      /\ store \in [Run -> Statuses \cup {"absent"}]
      /\ seen \in [Call -> SUBSET (Run \X Statuses)]
      /\ \A d \in Call : thread[d] = "running" => d = c
  BY DEF Read, NativeInvariant, NativeTypeOK, Exclusive
<1>2. \A r \in Run : store[r] # "writing"
  BY <1>1 DEF NativeInvariant, WritersAreInside
<1> DEFINE present == {<<r, store[r]>> : r \in {q \in Run : store[q] # "absent"}}
<1>3. present \subseteq Run \X (Statuses \ {"writing"})
  BY <1>1, <1>2
<1>4. PICK o \in Outcomes : Ends(c, o)
  BY DEF Read, Outcomes
<1>5. \/ seen' = seen
      \/ seen' = [seen EXCEPT ![c] = present]
      \/ seen' = [seen EXCEPT ![c] = {}]
  BY DEF Read
<1>6. /\ seen' \in [Call -> SUBSET (Run \X Statuses)]
      /\ RunsSettled'
  BY <1>1, <1>3, <1>5 DEF NativeInvariant, RunsSettled
<1> QED
  BY <1>1, <1>4, <1>6, EndKeeps

-----------------------------------------------------------------------------
LEMMA NextKeeps ==
  ASSUME NativeInvariant, NamesAreFree, [Next]_vars
  PROVE  NativeInvariant'
<1>1. CASE UNCHANGED vars
  BY <1>1 DEF vars, NativeInvariant, NativeTypeOK, Exclusive, AskedFirst, TargetsAreOwn,
              WritersAreInside, ResultsStand, RunsSettled
<1>2. ASSUME NEW c \in Call,
             \/ Refuse(c) \/ Submit(c) \/ PickUp(c) \/ Enter(c)
             \/ Update(c) \/ Recover(c) \/ Read(c)
             \/ Answer(c) \/ Timeout(c)
      PROVE  NativeInvariant'
  BY <1>2, RefuseKeeps, SubmitKeeps, PickUpKeeps, EnterKeeps, UpdateKeeps, RecoverKeeps,
     ReadKeeps, AnswerStepKeeps, TimeoutKeeps
<1> QED
  BY <1>1, <1>2 DEF Next

\* The invariant holds of every behaviour: the fairness that Spec adds only
\* leaves some out.
THEOREM NativeAlways ==
  ASSUME NamesAreFree
  PROVE  Spec => []NativeInvariant
<1>1. Init => NativeInvariant
  BY InitNative
<1>2. NativeInvariant /\ [Next]_vars => NativeInvariant'
  BY NextKeeps
<1> QED
  BY <1>1, <1>2, PTL DEF Spec

\* The variables of the server keep their types (NativeStewardDispatcher).
THEOREM NativeTypesHold ==
  ASSUME NamesAreFree
  PROVE  Spec => []NativeTypeOK
<1>1. NativeInvariant => NativeTypeOK
  BY DEF NativeInvariant
<1> QED
  BY <1>1, NativeAlways, PTL

\* No operation, abandoned or not, meets a Run that another thread of the
\* server is still writing, and what a client is told OK of stays
\* (NativeStewardDispatcher._locked, _update, _recovery, _history).
THEOREM NativeCallsAreSound ==
  ASSUME NamesAreFree
  PROVE  Spec => []CallsAreSound
<1>1. NativeInvariant => CallsAreSound
  BY OkIsDurableFollows DEF NativeInvariant, CallsAreSound
<1> QED
  BY <1>1, NativeAlways, PTL

=============================================================================
