------------------------ MODULE McpDispatcherProofs ------------------------
(***************************************************************************)
(* Theorems of McpDispatcher, for any set of calls (an unbounded one       *)
(* included) and any number of places.                                     *)
(*                                                                         *)
(* _active_calls bounds the threads only because it counts them: it is the *)
(* number of the calls that hold a place and of those whose place is lost  *)
(* (PlacesAccounted), and every running thread holds one.  Each step that   *)
(* moves a call between these sets moves the counter with it.              *)
(***************************************************************************)
EXTENDS McpDispatcher, FiniteSetTheorems, TLAPS

\* A thread exists only of a call that was submitted, and a call that still
\* waits for its thread has not been dropped.
ThreadsAreSubmitted ==
  \A c \in Call :
    /\ phase[c] \in {"new", "counted"} => thread[c] = "none"
    /\ phase[c] = "submitted" => thread[c] \in {"queued", "running", "ended"}

\* The inductive invariant.
McpInvariant ==
  /\ McpTypeOK
  /\ ThreadsAreSubmitted
  /\ IsFiniteSet(Placed) /\ IsFiniteSet(Lost)
  /\ PlacesAccounted

-----------------------------------------------------------------------------
(* The sets that the counter counts, when one call has moved.              *)

\* What the counter says and bounds is preserved when nothing is taken from
\* or given to either set.
LEMMA SetsStay ==
  ASSUME McpInvariant, McpTypeOK', ThreadsAreSubmitted',
         Placed' = Placed, Lost' = Lost, active' = active
  PROVE  McpInvariant'
BY DEF McpInvariant, PlacesAccounted

\* A call that has a place gives it back, with the counter.
LEMMA PlaceGivenBack ==
  ASSUME McpInvariant, MaxIsPositive, McpTypeOK', ThreadsAreSubmitted', NEW c \in Placed,
         Placed' = Placed \ {c}, Lost' = Lost, active' = active - 1
  PROVE  McpInvariant'
<1>1. /\ IsFiniteSet(Placed) /\ IsFiniteSet(Lost) /\ active \in Nat
      /\ active = Cardinality(Placed) + Cardinality(Lost) /\ active <= MaxConcurrent
  BY DEF McpInvariant, McpTypeOK, PlacesAccounted
<1>2. IsFiniteSet(Placed') /\ Cardinality(Placed') = Cardinality(Placed) - 1
  BY <1>1, FS_RemoveElement
<1>3. Cardinality(Placed) \in Nat /\ Cardinality(Lost) \in Nat
  BY <1>1, FS_CardinalityType
<1>4. active' = Cardinality(Placed') + Cardinality(Lost')
  BY <1>1, <1>2, <1>3
<1> QED
  BY <1>1, <1>2, <1>4 DEF McpInvariant, PlacesAccounted, MaxIsPositive

\* A call that has a place loses it: nobody gives it back.
LEMMA PlaceLost ==
  ASSUME McpInvariant, McpTypeOK', ThreadsAreSubmitted', NEW c \in Placed, c \notin Lost,
         Placed' = Placed \ {c}, Lost' = Lost \cup {c}, active' = active
  PROVE  McpInvariant'
<1>1. /\ IsFiniteSet(Placed) /\ IsFiniteSet(Lost) /\ active \in Nat
      /\ active = Cardinality(Placed) + Cardinality(Lost) /\ active <= MaxConcurrent
  BY DEF McpInvariant, McpTypeOK, PlacesAccounted
<1>2. IsFiniteSet(Placed') /\ Cardinality(Placed') = Cardinality(Placed) - 1
  BY <1>1, FS_RemoveElement
<1>3. IsFiniteSet(Lost') /\ Cardinality(Lost') = Cardinality(Lost) + 1
  BY <1>1, FS_AddElement
<1>4. Cardinality(Placed) \in Nat /\ Cardinality(Lost) \in Nat
  BY <1>1, FS_CardinalityType
<1>5. active' = Cardinality(Placed') + Cardinality(Lost')
  BY <1>1, <1>2, <1>3, <1>4
<1> QED
  BY <1>1, <1>2, <1>3, <1>5 DEF McpInvariant, PlacesAccounted

\* A call takes a place that is left.
LEMMA PlaceTaken ==
  ASSUME McpInvariant, MaxIsPositive, PlaceLeft, McpTypeOK', ThreadsAreSubmitted',
         NEW c, c \notin Placed,
         Placed' = Placed \cup {c}, Lost' = Lost, active' = active + 1
  PROVE  McpInvariant'
<1>1. /\ IsFiniteSet(Placed) /\ IsFiniteSet(Lost) /\ active \in Nat
      /\ active = Cardinality(Placed) + Cardinality(Lost) /\ active < MaxConcurrent
  BY DEF McpInvariant, McpTypeOK, PlacesAccounted, PlaceLeft
<1>2. IsFiniteSet(Placed') /\ Cardinality(Placed') = Cardinality(Placed) + 1
  BY <1>1, FS_AddElement
<1>3. Cardinality(Placed) \in Nat /\ Cardinality(Lost) \in Nat
  BY <1>1, FS_CardinalityType
<1>4. active' = Cardinality(Placed') + Cardinality(Lost')
  BY <1>1, <1>2, <1>3
<1>5. active' <= MaxConcurrent
  BY <1>1 DEF MaxIsPositive
<1> QED
  BY <1>1, <1>2, <1>4, <1>5 DEF McpInvariant, PlacesAccounted

-----------------------------------------------------------------------------
LEMMA InitMcp == MaxIsPositive /\ Init => McpInvariant
<1> SUFFICES ASSUME MaxIsPositive, Init PROVE McpInvariant
  OBVIOUS
<1>1. McpTypeOK /\ ThreadsAreSubmitted
  BY DEF Init, McpTypeOK, ThreadsAreSubmitted, Answers, MaxIsPositive
<1>2. Placed = {} /\ Lost = {}
  BY DEF Init, Placed, Lost
<1>3. IsFiniteSet(Placed) /\ Cardinality(Placed) = 0
  BY <1>2, FS_EmptySet
<1>4. IsFiniteSet(Lost) /\ Cardinality(Lost) = 0
  BY <1>2, FS_EmptySet
<1>5. active = 0
  BY DEF Init
<1> QED
  BY <1>1, <1>3, <1>4, <1>5 DEF McpInvariant, PlacesAccounted, MaxIsPositive

\* A call refused before it had a place changes neither set.
LEMMA RefusedAtOnce ==
  ASSUME McpInvariant, NEW c \in Call, NEW a \in Answers \ {"none", "TIMEOUT"},
         phase[c] = "new", Answered(c, a), UNCHANGED <<thread, outcome, active>>
  PROVE  McpInvariant'
<1>1. thread[c] = "none" /\ answer[c] = "none"
  BY DEF McpInvariant, McpTypeOK, ThreadsAreSubmitted
<1>2. McpTypeOK' /\ ThreadsAreSubmitted'
  BY DEF McpInvariant, McpTypeOK, ThreadsAreSubmitted, Answered
<1>3. Placed' = Placed /\ Lost' = Lost
  BY <1>1 DEF McpInvariant, McpTypeOK, Answered, Placed, Lost
<1> QED
  BY <1>2, <1>3, SetsStay

LEMMA AdmitKeeps ==
  ASSUME McpInvariant, MaxIsPositive, NEW c \in Call, Admit(c)
  PROVE  McpInvariant'
<1>1. phase[c] = "new" /\ thread[c] = "none" /\ answer[c] = "none"
      /\ UNCHANGED <<thread, outcome>>
  BY DEF Admit, McpInvariant, McpTypeOK, ThreadsAreSubmitted
<1>2. CASE \E a \in {"TOOL_NOT_FOUND", "ARGUMENT_INVALID", "UNAVAILABLE", "BUSY"} :
             Answered(c, a) /\ UNCHANGED active
  BY <1>1, <1>2, RefusedAtOnce DEF Answers
<1>3. CASE /\ PlaceLeft
           /\ active' = active + 1
           /\ phase' = [phase EXCEPT ![c] = "counted"]
           /\ UNCHANGED answer
  <2>1. McpTypeOK' /\ ThreadsAreSubmitted'
    BY <1>1, <1>3, MaxIsPositive DEF McpInvariant, McpTypeOK, ThreadsAreSubmitted, PlaceLeft, MaxIsPositive
  <2>2. c \notin Placed /\ Placed' = Placed \cup {c} /\ Lost' = Lost
    BY <1>1, <1>3 DEF McpInvariant, McpTypeOK, Placed, Lost
  <2> QED
    BY <1>3, <2>1, <2>2, PlaceTaken
<1> QED
  BY <1>2, <1>3 DEF Admit

LEMMA SubmitKeeps ==
  ASSUME McpInvariant, NEW c \in Call, Submit(c)
  PROVE  McpInvariant'
<1>1. thread[c] = "none" /\ answer[c] = "none"
  BY DEF Submit, McpInvariant, McpTypeOK, ThreadsAreSubmitted
<1>2. McpTypeOK' /\ ThreadsAreSubmitted'
  BY DEF Submit, McpInvariant, McpTypeOK, ThreadsAreSubmitted
<1>3. Placed' = Placed /\ Lost' = Lost
  BY <1>1 DEF Submit, McpInvariant, McpTypeOK, Placed, Lost
<1> QED
  BY <1>2, <1>3, SetsStay DEF Submit

LEMMA PickUpKeeps ==
  ASSUME McpInvariant, NEW c \in Call, PickUp(c)
  PROVE  McpInvariant'
<1>1. phase[c] # "counted" /\ thread[c] = "queued" /\ UNCHANGED <<phase, outcome, answer, active>>
  BY DEF PickUp, McpInvariant, ThreadsAreSubmitted
<1>2. McpTypeOK' /\ ThreadsAreSubmitted'
  BY DEF PickUp, McpInvariant, McpTypeOK, ThreadsAreSubmitted
<1>3. CASE phase[c] = "submitted"
  <2>1. Placed' = Placed /\ Lost' = Lost
    BY <1>1, <1>3 DEF PickUp, McpInvariant, McpTypeOK, Placed, Lost
  <2> QED
    BY <1>1, <1>2, <2>1, SetsStay
<1>4. CASE phase[c] # "submitted"
  <2>1. /\ c \in Placed /\ c \notin Lost
        /\ Placed' = Placed \ {c} /\ Lost' = Lost \cup {c}
    BY <1>1, <1>4 DEF PickUp, McpInvariant, McpTypeOK, Placed, Lost
  <2> QED
    BY <1>1, <1>2, <2>1, PlaceLost
<1> QED
  BY <1>3, <1>4

LEMMA OperateKeeps ==
  ASSUME McpInvariant, MaxIsPositive, NEW c \in Call, Operate(c)
  PROVE  McpInvariant'
<1>1. /\ phase[c] # "counted" /\ thread[c] = "running" /\ UNCHANGED <<phase, answer>>
      /\ thread' = [thread EXCEPT ![c] = "ended"] /\ active' = active - 1
  BY DEF Operate, Left, McpInvariant, ThreadsAreSubmitted
<1>2. /\ c \in Placed /\ Placed' = Placed \ {c} /\ Lost' = Lost
  BY <1>1 DEF McpInvariant, McpTypeOK, Placed, Lost
<1>3. active - 1 \in 0..MaxConcurrent
  <2>1. IsFiniteSet(Placed) /\ IsFiniteSet(Lost)
    BY DEF McpInvariant
  <2>2. Cardinality(Placed) \in Nat /\ Cardinality(Lost) \in Nat
    BY <2>1, FS_CardinalityType
  <2>3. Cardinality(Placed) # 0
    BY <1>2, <2>1, FS_EmptySet
  <2> QED
    BY <2>2, <2>3 DEF McpInvariant, McpTypeOK, PlacesAccounted, MaxIsPositive
<1>4. McpTypeOK' /\ ThreadsAreSubmitted'
  BY <1>1, <1>3 DEF Operate, McpInvariant, McpTypeOK, ThreadsAreSubmitted
<1> QED
  BY <1>1, <1>2, <1>4, PlaceGivenBack

LEMMA ToldFacts ==
  ASSUME NEW o
  PROVE  Told(o) \subseteq Answers \ {"none", "TIMEOUT"}
BY DEF Told, Answers

LEMMA AnswerKeeps ==
  ASSUME McpInvariant, NEW c \in Call, Answer(c)
  PROVE  McpInvariant'
<1>1. PICK a \in Answers \ {"none", "TIMEOUT"} : Answered(c, a)
  BY ToldFacts DEF Answer
<1>2. /\ phase[c] = "submitted" /\ thread[c] = "ended" /\ UNCHANGED <<thread, outcome, active>>
  BY DEF Answer
<1>3. McpTypeOK' /\ ThreadsAreSubmitted'
  BY <1>1, <1>2 DEF McpInvariant, McpTypeOK, ThreadsAreSubmitted, Answered
<1>4. Placed' = Placed /\ Lost' = Lost
  BY <1>1, <1>2 DEF McpInvariant, McpTypeOK, Answered, Placed, Lost
<1> QED
  BY <1>2, <1>3, <1>4, SetsStay

\* A caller who leaves before its call was submitted takes the place with it;
\* one who leaves later leaves it to the thread.
LEMMA LeaveKeeps ==
  ASSUME McpInvariant, NEW c \in Call, Timeout(c) \/ Cancel(c)
  PROVE  McpInvariant'
<1>1. /\ phase[c] \in {"counted", "submitted"} /\ UNCHANGED <<thread, outcome, active>>
      /\ \/ /\ phase' = [phase EXCEPT ![c] = "answered"]
            /\ answer' = [answer EXCEPT ![c] = "TIMEOUT"]
         \/ /\ phase' = [phase EXCEPT ![c] = "cancelled"]
            /\ answer' = [answer EXCEPT ![c] = "none"]
  BY DEF Timeout, Cancel, Leave
<1>2. McpTypeOK' /\ ThreadsAreSubmitted'
  BY <1>1 DEF McpInvariant, McpTypeOK, ThreadsAreSubmitted, Answers
<1>3. CASE phase[c] = "counted"
  <2>1. thread[c] = "none"
    BY <1>3 DEF McpInvariant, ThreadsAreSubmitted
  <2>2. c \in Placed /\ c \notin Lost
    BY <1>3, <2>1 DEF McpInvariant, McpTypeOK, Placed, Lost
  <2>3. Placed' = Placed \ {c} /\ Lost' = Lost \cup {c}
    BY <1>1, <2>1 DEF McpInvariant, McpTypeOK, Placed, Lost
  <2> QED
    BY <1>1, <1>2, <2>2, <2>3, PlaceLost
<1>4. CASE phase[c] = "submitted"
  <2>1. thread[c] \notin {"none", "dropped"}
    BY <1>4 DEF McpInvariant, ThreadsAreSubmitted
  <2>2. Placed' = Placed /\ Lost' = Lost
    BY <1>1, <1>4, <2>1 DEF McpInvariant, McpTypeOK, Placed, Lost
  <2> QED
    BY <1>1, <1>2, <2>2, SetsStay
<1> QED
  BY <1>1, <1>3, <1>4

-----------------------------------------------------------------------------
LEMMA NextKeeps ==
  ASSUME McpInvariant, MaxIsPositive, [Next]_vars
  PROVE  McpInvariant'
<1>1. CASE UNCHANGED vars
  <2>1. McpTypeOK' /\ ThreadsAreSubmitted'
    BY <1>1 DEF vars, McpInvariant, McpTypeOK, ThreadsAreSubmitted
  <2>2. Placed' = Placed /\ Lost' = Lost /\ active' = active
    BY <1>1 DEF vars, Placed, Lost
  <2> QED
    BY <2>1, <2>2, SetsStay
<1>2. ASSUME NEW c \in Call,
             \/ Admit(c) \/ Submit(c) \/ PickUp(c) \/ Operate(c)
             \/ Answer(c) \/ Timeout(c) \/ Cancel(c)
      PROVE  McpInvariant'
  BY <1>2, AdmitKeeps, SubmitKeeps, PickUpKeeps, OperateKeeps, AnswerKeeps, LeaveKeeps
<1> QED
  BY <1>1, <1>2 DEF Next

THEOREM McpAlways ==
  ASSUME MaxIsPositive
  PROVE  Spec => []McpInvariant
<1>1. Init => McpInvariant
  BY InitMcp
<1>2. McpInvariant /\ [Next]_vars => McpInvariant'
  BY NextKeeps
<1> QED
  BY <1>1, <1>2, PTL DEF Spec

\* Every running thread holds a place, so there are no more of them than
\* places.
LEMMA RunningHold ==
  ASSUME MaxIsPositive, McpInvariant
  PROVE  AtMostMaxOperations
<1> DEFINE running == {c \in Call : thread[c] = "running"}
<1>1. running \subseteq Placed /\ IsFiniteSet(Placed) /\ IsFiniteSet(Lost)
  BY DEF Placed, McpInvariant
<1>2. IsFiniteSet(running) /\ Cardinality(running) <= Cardinality(Placed)
  BY <1>1, FS_Subset
<1>3. /\ Cardinality(running) \in Nat /\ Cardinality(Placed) \in Nat
      /\ Cardinality(Lost) \in Nat
  BY <1>1, <1>2, FS_CardinalityType
<1>4. Cardinality(running) <= MaxConcurrent
  BY <1>2, <1>3 DEF McpInvariant, McpTypeOK, PlacesAccounted, MaxIsPositive
<1> QED
  BY <1>4 DEF AtMostMaxOperations

\* The variables of the server keep their types (StewardMcpDispatcher); the
\* counter of active calls is never below zero nor above the number of places,
\* whoever gives a place back, whenever.
THEOREM McpTypesHold ==
  ASSUME MaxIsPositive
  PROVE  Spec => []McpTypeOK
<1>1. McpInvariant => McpTypeOK
  BY DEF McpInvariant
<1> QED
  BY <1>1, McpAlways, PTL

\* However calls are cancelled and time out, no more operations run at once
\* than there are places, and the counter is that of the places held by calls
\* and of those lost by calls that no worker ran (_active_calls,
\* counted_operation).
THEOREM McpCallsAreSound ==
  ASSUME MaxIsPositive
  PROVE  Spec => []CallsAreSound
<1>1. McpInvariant => CallsAreSound
  BY RunningHold DEF McpInvariant, CallsAreSound
<1> QED
  BY <1>1, McpAlways, PTL

=============================================================================
