--------------------------- MODULE CodeExecution ---------------------------
(***************************************************************************)
(* Repository packets around code execution (code_execution.py): the state *)
(* of a Git work tree is observed before a piece of work, the observation  *)
(* is handed to the caller, and a second one is compared with it.  Each is *)
(* made of several commands and file reads, and the work goes on beside    *)
(* them.  What `git status` lists is external and modelled from its format.*)
(***************************************************************************)
EXTENDS Integers, FiniteSets

CONSTANTS Path,
          Original,     \* path -> its version at the first commit, 0 if absent
          Target,       \* paths in the scope of the work
          Protected,    \* paths in a protected area
          Ignored,      \* paths Git is told to ignore
          Large,        \* paths whose content is not hashed for its size
          HighRisk,     \* paths whose categories make a change high risk
          Version,      \* contents a file can have; 0 is no file
          Size,         \* version -> size
          Operations,   \* what the work may do
          CommitsInside, \* may it commit while an observation runs?
          MaxRecords,   \* bound of the code: records of one status
          MaxEdits      \* bound: steps of the work

VARIABLES head, index, work,    \* path -> version: last commit, index, files
          commit, detached, sidecar, edits,
          pc, phase,
          made,                 \* the observation under way
          unread,               \* paths whose content it has still to read
          baseline,             \* what the caller holds
          packet,               \* the postflight packet
          before, after         \* path -> its values during pre- and postflight

vars == <<head, index, work, commit, detached, sidecar, edits, pc, phase, made, unread,
          baseline, packet, before, after>>

Repository == <<head, index, work, commit, detached, sidecar, edits>>

Nothing == [commit |-> 0, records |-> {}, diff |-> {}, staged |-> {},
            content |-> [p \in {} |-> 0], sidecar |-> FALSE]
NoPacket == [status |-> "NONE", changed |-> {}, unknown |-> FALSE, review |-> "NONE"]
None == [p \in Path |-> {}]

CodeTypeOK ==
    /\ head \in [Path -> Version] /\ index \in [Path -> Version] /\ work \in [Path -> Version]
    /\ pc \in {"idle", "identity", "status", "diff", "staged", "read", "judge"}
    /\ phase \in {"PREFLIGHT", "POSTFLIGHT", "CLOSED"}
    /\ unread \subseteq {r.path : r \in made.records}
    /\ DOMAIN made.content \cap unread = {}
    /\ Cardinality(made.records) <= MaxRecords
    /\ packet.changed \subseteq Path

CodeInit ==
    /\ head = Original /\ index = Original /\ work = Original
    /\ commit = 1 /\ detached = FALSE /\ sidecar = FALSE /\ edits = 0
    /\ pc = "idle" /\ phase = "PREFLIGHT" /\ made = Nothing /\ unread = {}
    /\ baseline = Nothing /\ packet = NoPacket /\ before = None /\ after = None

(***************************************************************************)
(* The work.  While an observation runs, what each path goes through is    *)
(* remembered.                                                             *)
(***************************************************************************)
Value(p) == <<head[p], index[p], work[p]>>

Remember ==
    IF pc = "idle" THEN UNCHANGED <<before, after>>
    ELSE IF phase = "PREFLIGHT"
         THEN before' = [p \in Path |-> before[p] \cup {Value(p)'}] /\ UNCHANGED after
         ELSE after' = [p \in Path |-> after[p] \cup {Value(p)'}] /\ UNCHANGED before

Write(p) ==
    /\ \E v \in Version \ {work[p]} : work' = [work EXCEPT ![p] = v]
    /\ UNCHANGED <<head, index, commit, detached, sidecar>>

Add(p) ==
    /\ index[p] # work[p] /\ (p \in Ignored => index[p] # 0)
    /\ index' = [index EXCEPT ![p] = work[p]]
    /\ UNCHANGED <<head, work, commit, detached, sidecar>>

Move(p, q) ==
    /\ index[p] # 0 /\ work[p] # 0 /\ index[q] = 0 /\ work[q] = 0
    /\ work' = [work EXCEPT ![q] = work[p], ![p] = 0]
    /\ index' = [index EXCEPT ![q] = index[p], ![p] = 0]
    /\ UNCHANGED <<head, commit, detached, sidecar>>

(* Without commits inside, an observation sees one commit only. *)
Commit ==
    /\ pc # "idle" => CommitsInside
    /\ head # index /\ head' = index /\ commit' = commit + 1
    /\ UNCHANGED <<index, work, detached, sidecar>>

Detach == ~detached /\ detached' = TRUE /\ UNCHANGED <<head, index, work, commit, sidecar>>

Sidecar == sidecar' = ~sidecar /\ UNCHANGED <<head, index, work, commit, detached>>

Work ==
    /\ phase # "CLOSED" /\ edits < MaxEdits /\ edits' = edits + 1
    /\ \/ "write" \in Operations /\ \E p \in Path : Write(p)
       \/ "add" \in Operations /\ \E p \in Path : Add(p)
       \/ "move" \in Operations /\ \E p, q \in Path : Move(p, q)
       \/ "commit" \in Operations /\ Commit
       \/ "detach" \in Operations /\ Detach
       \/ "sidecar" \in Operations /\ Sidecar
    /\ Remember
    /\ UNCHANGED <<pc, phase, made, unread, baseline, packet>>

(***************************************************************************)
(* git status --porcelain=v1 -z --untracked-files=all --ignored=matching.  *)
(***************************************************************************)
Renamed(p, q) ==
    /\ head[p] # 0 /\ index[p] = 0 /\ head[q] = 0 /\ index[q] = head[p]
    /\ q = CHOOSE r \in Path : head[r] = 0 /\ index[r] = head[p]

(* The destination comes first in a rename record, then the origin, and    *)
(* _parse_status keeps the second.                                         *)
RenameRecord(p, q) ==
    [path |-> p, status |-> <<"R", IF work[q] = index[q] THEN " " ELSE "M">>]

Renamings == {pair \in Path \X Path : Renamed(pair[1], pair[2])}

Changed(p) ==
    /\ \A pair \in Renamings : p # pair[1] /\ p # pair[2]
    /\ index[p] # head[p] \/ (index[p] # 0 /\ work[p] # index[p])

Untracked(p) == index[p] = 0 /\ work[p] # 0

Letters(p) ==
    <<IF index[p] = head[p] THEN " " ELSE IF head[p] = 0 THEN "A" ELSE IF index[p] = 0 THEN "D" ELSE "M",
      IF index[p] = 0 \/ work[p] = index[p] THEN " " ELSE IF work[p] = 0 THEN "D" ELSE "M">>

\* deviation: untracked files are not asked for
RecordsOfTracked ==
    {RenameRecord(pair[1], pair[2]) : pair \in Renamings}
    \cup {[path |-> p, status |-> Letters(p)] : p \in {p \in Path : Changed(p)}}

Records ==
    {RenameRecord(pair[1], pair[2]) : pair \in Renamings}
    \cup {[path |-> p, status |-> Letters(p)] : p \in {p \in Path : Changed(p)}}
    \cup {[path |-> p, status |-> IF p \in Ignored THEN <<"!", "!">> ELSE <<"?", "?">>] :
              p \in {p \in Path : Untracked(p)}}

(***************************************************************************)
(* _observe_state: three commands for the identity, one for the status,    *)
(* two for the differences, then the files one by one.                     *)
(***************************************************************************)
Begin ==
    /\ pc = "idle" /\ phase # "CLOSED" /\ pc' = "identity"
    /\ IF phase = "PREFLIGHT"
       THEN before' = [p \in Path |-> {Value(p)}] /\ UNCHANGED after
       ELSE after' = [p \in Path |-> {Value(p)}] /\ UNCHANGED before
    /\ UNCHANGED <<Repository, phase, made, unread, baseline, packet>>

(* A command that fails or says too much ends the call with an error. *)
Refuse == pc' = "idle" /\ made' = Nothing /\ unread' = {}

Identity ==
    /\ pc = "identity"
    /\ IF detached THEN Refuse
       ELSE pc' = "status" /\ made' = [Nothing EXCEPT !.commit = commit] /\ UNCHANGED unread
    /\ UNCHANGED <<Repository, phase, baseline, packet, before, after>>

\* deviation: the records of a status are not counted
StatusUncounted ==
    /\ pc = "status" /\ pc' = "diff" /\ made' = [made EXCEPT !.records = Records]
    /\ UNCHANGED <<Repository, phase, unread, baseline, packet, before, after>>

Status ==
    /\ pc = "status"
    /\ IF Cardinality(Records) > MaxRecords THEN Refuse
       ELSE pc' = "diff" /\ made' = [made EXCEPT !.records = Records] /\ UNCHANGED unread
    /\ UNCHANGED <<Repository, phase, baseline, packet, before, after>>

Diff ==
    /\ pc = "diff" /\ pc' = "staged"
    /\ made' = [made EXCEPT !.diff =
           {<<p, index[p], work[p]>> : p \in {p \in Path : index[p] # 0 /\ work[p] # index[p]}}]
    /\ UNCHANGED <<Repository, phase, unread, baseline, packet, before, after>>

Staged ==
    /\ pc = "staged" /\ pc' = "read"
    /\ made' = [made EXCEPT !.staged =
           {<<p, head[p], index[p]>> : p \in {p \in Path : head[p] # index[p]}}]
    /\ unread' = {r.path : r \in made.records}
    /\ UNCHANGED <<Repository, phase, baseline, packet, before, after>>

Content(p) ==
    IF work[p] = 0 THEN [type |-> "missing", size |-> 0, digest |-> 0]
    ELSE [type |-> IF p \in Protected THEN "protected" ELSE "regular_file",
          size |-> Size[work[p]],
          digest |-> IF p \in Protected \cup Large THEN 0 ELSE work[p]]

Read ==
    /\ pc = "read" /\ unread # {}
    /\ LET p == CHOOSE p \in unread : TRUE IN
       /\ unread' = unread \ {p}
       /\ made' = [made EXCEPT !.content =
              [q \in DOMAIN made.content \cup {p} |->
                  IF q = p THEN Content(p) ELSE made.content[q]]]
    /\ UNCHANGED <<Repository, pc, phase, baseline, packet, before, after>>

Observed ==
    /\ pc = "read" /\ unread = {} /\ pc' = "judge"
    /\ made' = [made EXCEPT !.sidecar = sidecar]
    /\ UNCHANGED <<Repository, phase, unread, baseline, packet, before, after>>

(***************************************************************************)
(* The two observations are compared, path by path.                        *)
(***************************************************************************)
NoRecord == [status |-> <<" ", " ">>, content |-> [type |-> "", size |-> 0, digest |-> 0]]

(* Records are sorted and kept by path, so a tracked record of a path      *)
(* takes the place of an untracked one.                                    *)
RecordOf(state, p) ==
    LET statuses == {r.status : r \in {r \in state.records : r.path = p}}
        tracked == statuses \ {<<"?", "?">>, <<"!", "!">>}
    IN IF statuses = {} THEN NoRecord
       ELSE [status |-> CHOOSE s \in IF tracked = {} THEN statuses ELSE tracked : TRUE,
             content |-> state.content[p]]

ChangedPaths(old, new) == {p \in Path : RecordOf(old, p) # RecordOf(new, p)}

\* deviation: drift is looked for only among files Git tracks
UnexpectedTracked(changed) ==
    {p \in changed \ Target : RecordOf(made, p).status \notin {<<"?", "?">>, <<"!", "!">>}}

Unexpected(changed) == changed \ Target

ProtectedChanges(changed) ==
    (changed \cap Protected) \cup (IF baseline.sidecar # made.sidecar THEN {"sidecar"} ELSE {})

\* deviation: drift out of scope is looked for before protected paths
StatusDriftFirst(changed) ==
    IF baseline.commit # made.commit THEN "IDENTITY_DRIFT"
    ELSE IF Unexpected(changed) # {} THEN "SCOPE_DRIFT"
    ELSE IF ProtectedChanges(changed) # {} THEN "PROTECTED_CHANGE"
    ELSE IF changed # {} \/ baseline # made THEN "CHANGED"
    ELSE "NO_NET_CHANGE"

PacketStatus(changed) ==
    IF baseline.commit # made.commit THEN "IDENTITY_DRIFT"
    ELSE IF ProtectedChanges(changed) # {} THEN "PROTECTED_CHANGE"
    ELSE IF Unexpected(changed) # {} THEN "SCOPE_DRIFT"
    ELSE IF changed # {} \/ baseline # made THEN "CHANGED"
    ELSE "NO_NET_CHANGE"

Unknown == \E r \in made.records : made.content[r.path].digest = 0

\* deviation: a path that is gone has no categories
ReviewOfPresent(changed) ==
    IF changed = {} /\ ProtectedChanges(changed) = {} THEN "NOT_APPLICABLE"
    ELSE IF {p \in changed : RecordOf(made, p) # NoRecord} \cap HighRisk # {}
            \/ ProtectedChanges(changed) # {} THEN "REVIEW_REQUIRED"
    ELSE "OBSERVED"

Review(changed) ==
    IF changed = {} /\ ProtectedChanges(changed) = {} THEN "NOT_APPLICABLE"
    ELSE IF changed \cap HighRisk # {} \/ ProtectedChanges(changed) # {} THEN "REVIEW_REQUIRED"
    ELSE "OBSERVED"

Preflight ==
    /\ pc = "judge" /\ phase = "PREFLIGHT" /\ pc' = "idle" /\ phase' = "POSTFLIGHT"
    /\ baseline' = made /\ made' = Nothing
    /\ UNCHANGED <<Repository, unread, packet, before, after>>

Postflight ==
    /\ pc = "judge" /\ phase = "POSTFLIGHT" /\ pc' = "idle" /\ phase' = "CLOSED"
    /\ LET changed == ChangedPaths(baseline, made) IN
       packet' = [status |-> PacketStatus(changed), changed |-> changed,
                  unknown |-> Unknown, review |-> Review(changed)]
    /\ UNCHANGED <<Repository, made, unread, baseline, before, after>>

CodeNext ==
    \/ Work \/ Begin \/ Identity \/ Status \/ Diff \/ Staged \/ Read \/ Observed
    \/ Preflight \/ Postflight

CodeSpec == CodeInit /\ [][CodeNext]_vars

(***************************************************************************)
(* Properties.  A path has changed for certain when nothing it was during  *)
(* the first observation is something it was during the second.            *)
(***************************************************************************)
SurelyChanged == {p \in Path : before[p] \cap after[p] = {}}
Untouched == {p \in Path : Cardinality(before[p] \cup after[p]) = 1}
Closed == phase = "CLOSED"

(* NO_NET_CHANGE without an unknown is said only of a work tree in which   *)
(* no path surely changed, whatever happened during the observations       *)
(* (_postflight_changes).                                                  *)
NoNetChangeIsTrue ==
    Closed /\ packet.status = "NO_NET_CHANGE" /\ ~packet.unknown => SurelyChanged = {}

(* A path outside the targets that surely changed is never taken for       *)
(* ordinary change within them (_target_contains, SCOPE_DRIFT).            *)
DriftIsReported ==
    Closed /\ SurelyChanged \ Target # {} =>
        packet.status \in {"SCOPE_DRIFT", "PROTECTED_CHANGE", "IDENTITY_DRIFT"}

(* A protected path that surely changed is reported as such.               *)
ProtectedIsReported ==
    Closed /\ SurelyChanged \cap Protected # {} =>
        packet.status \in {"PROTECTED_CHANGE", "IDENTITY_DRIFT"}

(* A high risk path that surely changed asks for a review, unless the      *)
(* work was committed (_change_review).                                    *)
RiskIsReviewed ==
    Closed /\ SurelyChanged \cap HighRisk # {} /\ packet.status # "IDENTITY_DRIFT" =>
        packet.review = "REVIEW_REQUIRED"

(* A work tree without a branch can be observed (_git_identity).           *)
DetachedIsObserved ==
    [][pc = "identity" => pc' # "idle"]_pc
=============================================================================
