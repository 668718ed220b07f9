---------------------------- MODULE ParserWorker ----------------------------
(***************************************************************************)
(* One parse in a subprocess (structured_documents.py, _worker_entry and   *)
(* IsolatedParserWorker.run): the child parses, sends one message through  *)
(* a pipe and exits; the parent polls the child, the pipe, the clock and   *)
(* the child's memory in a loop.  A message larger than the pipe is only   *)
(* written while the parent reads it, and a parent that has begun to read  *)
(* waits for the rest, because it holds a writing end of the pipe itself.  *)
(***************************************************************************)
EXTENDS Naturals

CONSTANT KilledInMessage   \* may the child be killed while it sends?

KilledInMessageIsBoolean == KilledInMessage \in BOOLEAN

VARIABLES child,    \* where the child is
          report,   \* the status in the child's message
          pipe,     \* what of the message is in the pipe
          large,    \* is the message larger than the pipe?
          heavy,    \* is the child above its memory bound?
          late,     \* is the deadline past?
          parent,   \* where the parent is
          message,  \* the status the parent has read
          result    \* what run returned

vars == <<child, report, pipe, large, heavy, late, parent, message, result>>

Reports == {"COMPLETE", "RESOURCE_LIMIT", "UNAVAILABLE", "MALFORMED", "PARSER_FAILED"}
Results == Reports \cup {"TIMEOUT", "MEMORY_LIMIT", "NO_RESULT"}
Alive == child \in {"parsing", "sending", "sent"}

WorkerTypeOK ==
    /\ child \in {"parsing", "sending", "sent", "dead"}
    /\ report \in Reports \cup {"none"}
    /\ pipe \in {"empty", "part", "whole"}
    /\ large \in BOOLEAN /\ heavy \in BOOLEAN /\ late \in BOOLEAN
    /\ parent \in {"loop", "poll", "receive", "deadline", "memory", "join",
                   "collect", "receive last", "returned"}
    /\ message \in Reports \cup {"none"}
    /\ result \in Results \cup {"none"}
    /\ parent = "returned" <=> result # "none"

Init ==
    /\ child = "parsing" /\ report = "none" /\ pipe = "empty"
    /\ large = FALSE /\ heavy = FALSE /\ late = FALSE
    /\ parent = "loop" /\ message = "none" /\ result = "none"

(***************************************************************************)
(* The child.                                                              *)
(***************************************************************************)

(* The target returns or raises, and the message of it is queued. *)
Parsed ==
    /\ child = "parsing"
    /\ child' = "sending"
    /\ report' \in Reports
    /\ large' \in BOOLEAN
    /\ UNCHANGED <<pipe, heavy, late, parent, message, result>>

Receiving == parent \in {"receive", "receive last"}

(* The queue's thread writes the beginning of the message, then the rest. *)
SendFirst ==
    /\ child = "sending" /\ pipe = "empty"
    /\ pipe' = "part"
    /\ UNCHANGED <<child, report, large, heavy, late, parent, message, result>>

SendRest ==
    /\ child = "sending" /\ pipe = "part"
    /\ large => Receiving
    /\ pipe' = "whole" /\ child' = "sent"
    /\ UNCHANGED <<report, large, heavy, late, parent, message, result>>

Exit ==
    /\ child = "sent"
    /\ child' = "dead" /\ heavy' = FALSE
    /\ UNCHANGED <<report, pipe, large, late, parent, message, result>>

(* The child ends without a message, or is killed from outside. *)
Die ==
    /\ Alive
    /\ child = "sending" => KilledInMessage
    /\ child' = "dead" /\ heavy' = FALSE
    /\ UNCHANGED <<report, pipe, large, late, parent, message, result>>

Grow ==
    /\ child = "parsing" /\ ~heavy
    /\ heavy' = TRUE
    /\ UNCHANGED <<child, report, pipe, large, late, parent, message, result>>

DeadlinePasses ==
    /\ ~late
    /\ late' = TRUE
    /\ UNCHANGED <<child, report, pipe, large, heavy, parent, message, result>>

(***************************************************************************)
(* The parent.                                                             *)
(***************************************************************************)
Loop ==
    /\ parent = "loop"
    /\ parent' = IF Alive THEN "poll" ELSE "collect"
    /\ UNCHANGED <<child, report, pipe, large, heavy, late, message, result>>

(* get_nowait looks whether anything is in the pipe, then reads a message. *)
Poll ==
    /\ parent = "poll"
    /\ parent' = IF message = "none" /\ pipe # "empty" THEN "receive" ELSE "deadline"
    /\ UNCHANGED <<child, report, pipe, large, heavy, late, message, result>>

Receive ==
    /\ Receiving /\ pipe = "whole"
    /\ message' = report /\ pipe' = "empty"
    /\ parent' = IF parent = "receive" THEN "deadline" ELSE "collect"
    /\ UNCHANGED <<child, report, large, heavy, late, result>>

Return(status) == parent' = "returned" /\ result' = status

\* deviation: the parent leaves a late child running
DeadlineAbandons ==
    /\ parent = "deadline"
    /\ IF late THEN Return("TIMEOUT") ELSE parent' = "memory" /\ UNCHANGED result
    /\ UNCHANGED <<child, report, pipe, large, heavy, late, message>>

\* deviation: the deadline is not looked at
DeadlineIgnored ==
    /\ parent = "deadline"
    /\ parent' = "memory"
    /\ UNCHANGED <<child, report, pipe, large, heavy, late, message, result>>

Deadline ==
    /\ parent = "deadline"
    /\ IF late THEN child' = "dead" /\ heavy' = FALSE /\ Return("TIMEOUT")
               ELSE parent' = "memory" /\ UNCHANGED <<child, heavy, result>>
    /\ UNCHANGED <<report, pipe, large, late, message>>

\* deviation: the loop goes on after the memory bound was found exceeded
MemoryWithoutBreak ==
    /\ parent = "memory"
    /\ parent' = "join"
    /\ IF heavy THEN child' = "dead" /\ heavy' = FALSE /\ result' = "MEMORY_LIMIT"
                ELSE UNCHANGED <<child, heavy, result>>
    /\ UNCHANGED <<report, pipe, large, late, message>>

Memory ==
    /\ parent = "memory"
    /\ IF heavy THEN child' = "dead" /\ heavy' = FALSE /\ Return("MEMORY_LIMIT")
                ELSE parent' = "join" /\ UNCHANGED <<child, heavy, result>>
    /\ UNCHANGED <<report, pipe, large, late, message>>

Join ==
    /\ parent = "join"
    /\ parent' = "loop"
    /\ UNCHANGED <<child, report, pipe, large, heavy, late, message, result>>

\* deviation: the pipe is not read once more after the child has ended
CollectWithoutLastRead ==
    /\ parent = "collect"
    /\ Return(IF message = "none" THEN "NO_RESULT" ELSE message)
    /\ UNCHANGED <<child, report, pipe, large, heavy, late, message>>

(* The child has ended: what is in the pipe is read once more. *)
Collect ==
    /\ parent = "collect"
    /\ IF message = "none" /\ pipe # "empty"
       THEN parent' = "receive last" /\ UNCHANGED result
       ELSE Return(IF message = "none" THEN "NO_RESULT" ELSE message)
    /\ UNCHANGED <<child, report, pipe, large, heavy, late, message>>

Parent == Loop \/ Poll \/ Receive \/ Deadline \/ Memory \/ Join \/ Collect
Child == Parsed \/ SendFirst \/ SendRest \/ Exit \/ Die \/ Grow
Next == Parent \/ Child \/ DeadlinePasses

(* Nothing makes a parse end; only the parent, the pipe and the clock go on. *)
Spec == Init /\ [][Next]_vars
FairSpec == Spec /\ WF_vars(Parent) /\ WF_vars(DeadlinePasses)
                 /\ WF_vars(SendFirst) /\ WF_vars(SendRest) /\ WF_vars(Exit)

(***************************************************************************)
(* Properties.                                                             *)
(***************************************************************************)

(* run never returns while its subprocess lives, whatever ended the wait:  *)
(* no abandoned parser keeps the memory and time it was bounded to.        *)
NoChildOutlivesRun == parent = "returned" => ~Alive

(* "no result" is only said of a child that ended before its message was   *)
(* whole: a parse that was finished in time is never lost to the race      *)
(* between the child's exit and the reading of the pipe.                   *)
FinishedParseIsCollected ==
    result = "NO_RESULT" => report = "none" \/ (child = "dead" /\ pipe # "whole")

(* Nothing of a parse is left behind: neither its child nor its result.     *)
ParsesAreCollected == NoChildOutlivesRun /\ FinishedParseIsCollected

HasReturned == parent = "returned"

(* Every parse is over in the end, whatever its child does (the class      *)
(* calls itself a subprocess invocation with an enforced deadline).        *)
DeadlineEnforced == <>HasReturned
=============================================================================
