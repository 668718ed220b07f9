-------------------------- MODULE TemporalRelation --------------------------
(***************************************************************************)
(* compare_historical_current: one Entry of a verified Snapshot beside the *)
(* file its path names now (TemporalEvidenceRelationService.compare), with *)
(* other programs changing that file.  The current side is observed as     *)
(* stat, link target, stat; with a payload comparison a bounded read and a *)
(* second such observation follow.                                         *)
(*                                                                         *)
(* A file state is an inode's type, content (the number of the write that  *)
(* made it), size and times; a change of an inode has a change time of its *)
(* own.  Directories may be renamed, which changes no inode below them.    *)
(***************************************************************************)
EXTENDS Naturals, FiniteSets

CONSTANTS
    MaxWrites,      \* bound: changes made by other programs
    Swaps           \* whether a parent directory may be renamed to and fro

RelationAssumption == MaxWrites \in Nat /\ Swaps \in BOOLEAN

VARIABLES
    slot,           \* the inode in each of two directories, or None
    active,         \* the directory the path leads through
    readable,       \* whether the directory may be entered
    inodes,         \* type, content, size, mtime, ctime
    clock,
    pc,             \* where compare is
    include,        \* include_payload_comparison
    historical,     \* the historical Entry
    second,         \* whether the second observation is being made
    dir,            \* the directory the observation has opened
    before,         \* the first stat of an observation, then with its link target
    current,        \* the first observation
    content,        \* the bounded read: its descriptor, state and result
    relation,       \* the published relation
    during          \* what the path has named since the call began (history)

relationVars == <<slot, active, readable, inodes, clock, pc, include, historical, second,
                  dir, before, current, content, relation, during>>
fileVars == <<slot, active, readable, inodes, clock, during>>
callVars == <<pc, include, historical, second, dir, before, current, content, relation>>

None == 0
MaxRead == 1        \* MAX_CONTENT_BYTES_PER_READ
MaxSize == 2        \* a file of more is too large

Here == slot[active]
NoInode == [type |-> "NONE", content |-> 0, size |-> 0, mtime |-> 0, ctime |-> 0]
State == IF Here # None THEN inodes[Here] ELSE NoInode
Obstructed == [NoInode EXCEPT !.type = "OBSTRUCTED"]
Named == {State} \cup (IF readable THEN {} ELSE {Obstructed})

----------------------------------------------------------------------------
(* The other programs.                                                     *)

Changed(d, s, r, f) ==
    /\ slot' = s /\ active' = d /\ readable' = r /\ inodes' = f
    /\ clock' = clock + 1
    /\ during' = during \cup Named'
    /\ UNCHANGED callVars

\* A write in place, with the modification time perhaps set back.
Overwrite ==
    /\ clock < MaxWrites
    /\ Here # None
    /\ inodes[Here].type = "FILE"
    /\ \E n \in 1 .. MaxSize, kept \in BOOLEAN :
        Changed(active, slot, readable,
            [inodes EXCEPT ![Here] =
                [type |-> "FILE", content |-> clock + 1, size |-> n,
                 mtime |-> IF kept THEN @.mtime ELSE clock + 1, ctime |-> clock + 1]])

\* A new file or link renamed over the path.
Replace ==
    /\ clock < MaxWrites
    /\ \E t \in {"FILE", "LINK"}, n \in 1 .. MaxSize :
        Changed(active, [slot EXCEPT ![active] = clock + 1], readable,
            [i \in DOMAIN inodes \cup {clock + 1} |->
                IF i = clock + 1
                THEN [type |-> t, content |-> i, size |-> n, mtime |-> i, ctime |-> i]
                ELSE inodes[i]])

Remove ==
    /\ clock < MaxWrites
    /\ Here # None
    /\ Changed(active, [slot EXCEPT ![active] = None], readable, inodes)

Permit == clock < MaxWrites /\ Changed(active, slot, ~readable, inodes)

\* Another directory takes the name of the parent: no inode below it changes.
SwapDirectory ==
    /\ Swaps
    /\ clock < MaxWrites
    /\ Changed(IF active = "a" THEN "b" ELSE "a", slot, readable, inodes)

----------------------------------------------------------------------------
(* The call.                                                               *)

\* The Entries a verified Snapshot may hold: seen as a file or a link, or not
\* observed; with a digest, one of another algorithm, or none.
Entries ==
    [observed : BOOLEAN, type : {"FILE", "LINK"}, digest : {"none", "same", "foreign"}]

\* The Entry was observed when the file had its first content.
EntryState == [content |-> 1, size |-> 1, mtime |-> 1, ctime |-> 1]

\* The shared budget and the resolution of the Entry may end the call.
Begin ==
    /\ pc = "IDLE"
    /\ include' \in BOOLEAN
    /\ \/ pc' = "REFUSED" /\ UNCHANGED historical
       \/ pc' = "OPEN" /\ historical' \in Entries
    /\ during' = Named
    /\ UNCHANGED <<slot, active, readable, inodes, clock, second, dir, before, current,
                   content, relation>>

Seen(i) == [state |-> "PRESENT", ino |-> i, type |-> inodes[i].type,
            size |-> inodes[i].size, mtime |-> inodes[i].mtime,
            ctime |-> inodes[i].ctime, link |-> 0]
Failure(s) == [state |-> s]

\* deviation: the change time is no part of the token
TokenWithoutChange(o) == <<o.type, o.ino, o.size, o.mtime>>

\* _state_token
Token(o) == <<o.type, o.ino, o.size, o.mtime, o.ctime>>

\* deviation: the second observation is held against the Entry
SameAsEntry(o) == o.state = "PRESENT" /\ o.mtime = EntryState.mtime

\* The second observation stands for the same file in the same state.
SameAgain(o) == o.state = "PRESENT" /\ Token(o) = Token(current)

\* What the bounded read came to, against the size the metadata told.
SizesAgree == content.status = "COMPLETE" => content.size = current.size

Compared(outcome, digest, o) == [outcome |-> outcome, digest |-> digest, current |-> o]

\* _compare_payload, after the read and the second observation.
PayloadRelation(o) ==
    IF ~SameAgain(o) \/ ~SizesAgree
    THEN Compared("UNKNOWN", 0, Failure("CHANGED"))
    ELSE IF content.status # "COMPLETE" THEN Compared("UNKNOWN", 0, o)
    ELSE Compared(IF content.data = EntryState.content THEN "SAME" ELSE "DIFFERENT",
                  content.data, o)

\* The payload is read only of a present file within the bound, beside a digest
\* of the same kind.
PayloadReadable(o) ==
    /\ include
    /\ historical.digest = "same" /\ historical.observed /\ historical.type = "FILE"
    /\ o.state = "PRESENT" /\ o.type = "FILE" /\ o.size <= MaxRead

Unread ==
    IF include /\ historical.digest = "foreign" /\ historical.observed
        /\ historical.type = "FILE"
    THEN "NOT_COMPARABLE" ELSE "UNKNOWN"

\* An observation is over.
Concluded(o) ==
    IF second
    THEN relation' = PayloadRelation(o) /\ pc' = "DONE" /\ UNCHANGED <<current, second>>
    ELSE /\ current' = o
         /\ IF PayloadReadable(o)
            THEN pc' = "READ" /\ second' = TRUE /\ UNCHANGED relation
            ELSE pc' = "DONE" /\ relation' = Compared(Unread, 0, o) /\ UNCHANGED second

\* The parent directory is opened, without following links, and kept.
OpenParent ==
    /\ pc = "OPEN"
    /\ IF readable
       THEN pc' = "STAT" /\ dir' = active /\ UNCHANGED <<current, second, relation>>
       ELSE Concluded(Failure("UNAVAILABLE")) /\ UNCHANGED dir
    /\ UNCHANGED <<fileVars, include, historical, before, content>>

Stat ==
    /\ pc = "STAT"
    /\ IF slot[dir] # None
       THEN /\ before' = Seen(slot[dir])
            /\ pc' = IF Seen(slot[dir]).type = "LINK" THEN "LINK" ELSE "STAT_AGAIN"
            /\ UNCHANGED <<current, second, relation>>
       ELSE Concluded(Failure("ABSENT")) /\ UNCHANGED before
    /\ UNCHANGED <<fileVars, include, historical, dir, content>>

\* readlink of the name, which may not be that link any more.
ReadLink ==
    /\ pc = "LINK"
    /\ IF slot[dir] = None THEN Concluded(Failure("ABSENT")) /\ UNCHANGED before
       ELSE IF inodes[slot[dir]].type # "LINK"
            THEN Concluded(Failure("UNAVAILABLE")) /\ UNCHANGED before
       ELSE /\ before' = [before EXCEPT !.link = inodes[slot[dir]].content]
            /\ pc' = "STAT_AGAIN"
            /\ UNCHANGED <<current, second, relation>>
    /\ UNCHANGED <<fileVars, include, historical, dir, content>>

StatAgain ==
    /\ pc = "STAT_AGAIN"
    /\ Concluded(IF slot[dir] = None THEN Failure("ABSENT")
                 ELSE IF Token(Seen(slot[dir])) = Token(before) THEN before
                 ELSE Failure("CHANGED"))
    /\ UNCHANGED <<fileVars, include, historical, dir, before, content>>

\* The bounded read resolves the path on its own.
Unreadable == [status |-> "UNAVAILABLE", ino |-> None, size |-> 0, mtime |-> 0, data |-> 0]

OpenContent ==
    /\ pc = "READ"
    /\ IF readable /\ State.type = "FILE" /\ State.size <= MaxRead
       THEN /\ content' = [status |-> "OPEN", ino |-> Here, size |-> State.size,
                           mtime |-> State.mtime, data |-> 0]
            /\ pc' = "DATA"
       ELSE content' = Unreadable /\ pc' = "OPEN"
    /\ UNCHANGED <<fileVars, include, historical, second, dir, before, current, relation>>

\* deviation: the bounded read takes what it can get
ReadWithoutBound ==
    /\ pc = "DATA"
    /\ content' = [content EXCEPT !.data = inodes[content.ino].content,
                                  !.size = inodes[content.ino].size]
    /\ pc' = "DATA_END"
    /\ UNCHANGED <<fileVars, include, historical, second, dir, before, current, relation>>

\* One read of the bound and a byte: more than the bound is no content.
ReadContent ==
    /\ pc = "DATA"
    /\ LET f == inodes[content.ino]
       IN IF f.size <= MaxRead
          THEN content' = [content EXCEPT !.data = f.content] /\ pc' = "DATA_END"
          ELSE content' = Unreadable /\ pc' = "OPEN"
    /\ UNCHANGED <<fileVars, include, historical, second, dir, before, current, relation>>

CloseContent ==
    /\ pc = "DATA_END"
    /\ LET f == inodes[content.ino]
       IN content' = IF f.size = content.size /\ f.mtime = content.mtime
                     THEN [content EXCEPT !.status = "COMPLETE"] ELSE Unreadable
    /\ pc' = "OPEN"
    /\ UNCHANGED <<fileVars, include, historical, second, dir, before, current, relation>>

\* The shared budget may still refuse the finished relation.
Withhold ==
    /\ pc = "DONE"
    /\ pc' = "REFUSED"
    /\ UNCHANGED <<fileVars, include, historical, second, dir, before, current, content,
                   relation>>

RelationInit ==
    /\ slot = [d \in {"a", "b"} |-> IF d = "a" THEN 1 ELSE IF Swaps THEN 2 ELSE None]
    /\ active = "a"
    /\ readable = TRUE
    /\ inodes = [i \in 1 .. (IF Swaps THEN 2 ELSE 1) |->
                    [type |-> "FILE", content |-> i, size |-> 1, mtime |-> i, ctime |-> i]]
    /\ clock = IF Swaps THEN 2 ELSE 1
    /\ pc = "IDLE"
    /\ include = FALSE
    /\ historical = [observed |-> FALSE, type |-> "FILE", digest |-> "none"]
    /\ second = FALSE
    /\ dir = "a"
    /\ before = Failure("NONE") /\ current = Failure("NONE")
    /\ content = Unreadable
    /\ relation = Compared("NONE", 0, Failure("NONE"))
    /\ during = {}

RelationNext ==
    \/ Overwrite \/ Replace \/ Remove \/ Permit \/ SwapDirectory
    \/ Begin \/ OpenParent \/ Stat \/ ReadLink \/ StatAgain
    \/ OpenContent \/ ReadContent \/ CloseContent \/ Withhold

RelationSpec == RelationInit /\ [][RelationNext]_relationVars

----------------------------------------------------------------------------
(* The comparison of the fields (_field_comparisons).                      *)

Unknown == [state |-> "UNKNOWN"]
Inapplicable == [state |-> "NOT_APPLICABLE"]
Value(v) == [state |-> "OBSERVED", value |-> v]
Fields == {"type", "size", "mtime", "link"}

HistoricalValue(f) ==
    IF ~historical.observed THEN Unknown
    ELSE CASE f = "type" -> Value(historical.type)
           [] f = "size" -> IF historical.type = "FILE" THEN Value(EntryState.size) ELSE Inapplicable
           [] f = "mtime" -> Value(EntryState.mtime)
           [] f = "link" -> IF historical.type = "LINK" THEN Value(EntryState.content) ELSE Inapplicable

CurrentValue(o, f) ==
    IF o.state = "ABSENT" THEN Inapplicable
    ELSE IF o.state # "PRESENT" THEN Unknown
    ELSE CASE f = "type" -> Value(o.type)
           [] f = "size" -> IF o.type = "FILE" THEN Value(o.size) ELSE Inapplicable
           [] f = "mtime" -> Value(o.mtime)
           [] f = "link" -> IF o.type = "LINK" THEN Value(o.link) ELSE Inapplicable

\* deviation: a field of a missing file that was never observed is unknown
OutcomeUnknownFirst(o, f) ==
    LET h == HistoricalValue(f) c == CurrentValue(o, f)
    IN IF Unknown \in {h, c} THEN "UNKNOWN"
       ELSE IF h.state = c.state /\ h = c THEN "SAME"
       ELSE "DIFFERENT"

Outcome(o, f) ==
    LET h == HistoricalValue(f) c == CurrentValue(o, f)
    IN IF o.state = "ABSENT" THEN "NOT_COMPARABLE"
       ELSE IF Unknown \in {h, c} THEN "UNKNOWN"
       ELSE IF Inapplicable \in {h, c} THEN "NOT_COMPARABLE"
       ELSE IF h = c THEN "SAME" ELSE "DIFFERENT"

----------------------------------------------------------------------------
(* Properties.                                                             *)

Published == pc = "DONE"
Present == relation.current.state = "PRESENT"

\* The call stays in its states.
RelationTypeOK ==
    /\ pc \in {"IDLE", "OPEN", "STAT", "LINK", "STAT_AGAIN", "READ", "DATA", "DATA_END",
              "DONE", "REFUSED"}
    /\ relation.outcome \in {"NONE", "SAME", "DIFFERENT", "UNKNOWN", "NOT_COMPARABLE"}
    /\ content.status = "COMPLETE" => content.size <= MaxRead

\* Everything the relation says of the current side, the fields, the link target and
\* the digest, is of one state the path had during the call (the service calls itself
\* an atomic orchestration).
RelationOfOneState ==
    Published /\ Present =>
        \E s \in during :
            /\ s.type = relation.current.type /\ s.size = relation.current.size
            /\ s.mtime = relation.current.mtime /\ s.ctime = relation.current.ctime
            /\ s.type = "LINK" => s.content = relation.current.link
            /\ relation.digest # 0 => s.content = relation.digest

\* A file is reported as changed, missing or out of reach only when it was.
FailureIsReal ==
    Published =>
        /\ relation.current.state = "ABSENT" => NoInode \in during
        /\ relation.current.state \in {"CHANGED", "UNAVAILABLE"} =>
                Cardinality(during) > 1

\* An outcome SAME of a field or of the payload is true of some state during the
\* call, and so is DIFFERENT; nothing is claimed of what was not observed.
ClaimsAreTrue ==
    Published =>
        /\ \A f \in Fields :
            /\ Outcome(relation.current, f) \in {"SAME", "DIFFERENT"} =>
                    Present /\ historical.observed
            /\ Outcome(relation.current, f) = "SAME" /\ f \in {"size", "link"} =>
                    relation.current.type = historical.type
        /\ relation.outcome = "SAME" =>
                \E s \in during : s.type = "FILE" /\ s.content = EntryState.content
        /\ relation.outcome = "DIFFERENT" =>
                \E s \in during : s.type = "FILE" /\ s.content # EntryState.content
=============================================================================
