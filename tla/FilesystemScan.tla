--------------------------- MODULE FilesystemScan ---------------------------
(***************************************************************************)
(* The metadata scan (filesystem.py, scan), the Scopes a configuration may *)
(* hold (scopes.py, validate_scopes) and what a review says of two scans   *)
(* (snapshot_diff.py, change_semantics.py).  The user's objects appear and *)
(* vanish between any two system calls of a scan.  An object is a node of  *)
(* a fixed tree: its name, whether it is a directory and its device never  *)
(* change, it is only there or not.  A Scope is the directory it is rooted *)
(* at, and Scopes are visited in the order of their nodes; links are not   *)
(* followed and behave like files.                                         *)
(***************************************************************************)
EXTENDS Naturals, FiniteSets, SequencesExt

CONSTANTS Nodes,           \* a set of numbers
          Parent,          \* node -> the directory it is in; the top is its own
          Directories,     \* the nodes that are directories
          Mounted,         \* directories on a device of their own
          Internal,        \* data, cache, Evidence and quarantine directories
          Configurations,  \* node -> role, as the configuration may be written
          Budgets,         \* ScanBudget values scans may have
          MaxScans,        \* bound: scans, one after the other
          MaxChanges       \* bound: appearances and disappearances

TreeAssumption ==
    /\ Parent \in [Nodes -> Directories] /\ Directories \subseteq Nodes
    /\ Budgets \subseteq [entries : Nat \ {0}, depth : Nat, bytes : Nat]

VARIABLES roles,    \* the configuration: node -> role of the Scope at it
          present,  \* the nodes that are there
          changes,  \* appearances and disappearances so far
          scans     \* the scans, in order

vars == <<roles, present, changes, scans>>

Scans == 1..MaxScans
Statuses == {"observed", "not_found", "permission_denied", "io_error"}

(* A node with the directories above it.                                    *)
Above[n \in Nodes] == IF Parent[n] = n THEN {n} ELSE {n} \cup Above[Parent[n]]
Holds(parent, child) == parent \in Above[child]
Overlaps(a, b) == Holds(a, b) \/ Holds(b, a)
Depth(scope, n) == Cardinality(Above[n]) - Cardinality(Above[scope])
Device(n) == Above[n] \cap Mounted

Actionable(cfg) == {n \in Nodes : cfg[n] \in {"managed", "reference"}}
Excluded(cfg) == {n \in Nodes : cfg[n] = "excluded"}

-----------------------------------------------------------------------------
(* The configuration.                                                       *)
\* deviation: only the Scope listed first is asked whether it contains the other
ContainedOnly(cfg) ==
    /\ \A s \in Actionable(cfg), n \in Internal : ~ Overlaps(s, n)
    /\ \A s, t \in Actionable(cfg) : s < t => ~ Holds(t, s)
    /\ \A x \in Excluded(cfg), s \in Actionable(cfg) : ~ Holds(x, s)

ValidScopes(cfg) ==
    /\ \A s \in Actionable(cfg), n \in Internal : ~ Overlaps(s, n)
    /\ \A s, t \in Actionable(cfg) : s # t => ~ Overlaps(s, t)
    /\ \A x \in Excluded(cfg), s \in Actionable(cfg) : ~ Holds(x, s)

\* deviation: a requested Scope may have any role
SelectAny(cfg) == SUBSET (Actionable(cfg) \cup Excluded(cfg)) \ {{}}

SelectScopes(cfg) ==
    (SUBSET Actionable(cfg) \ {{}}) \cup ({{n \in Nodes : cfg[n] = "managed"}} \ {{}})

Idle == [state |-> "none", budget |-> CHOOSE b \in Budgets : TRUE, selected |-> {}, scopes |-> {},
         root |-> 0, entries |-> {}, count |-> 0, partial |-> FALSE, bytes |-> 0, stack |-> <<>>,
         listing |-> {}, stayed |-> {}, appeared |-> {}]

ScanTypeOK ==
    /\ ValidScopes(roles)
    /\ present \subseteq Nodes /\ changes \in 0..MaxChanges
    /\ \A i \in Scans : LET s == scans[i] IN
         /\ s.state \in {"none", "scanning", "done"}
         /\ s.scopes \subseteq s.selected /\ s.selected \subseteq Actionable(roles)
         /\ \A e \in s.entries : e.scope \in s.selected /\ e.path \in Nodes /\ e.status \in Statuses
         /\ s.count >= Cardinality(s.entries)
         /\ Range(s.stack) \cup s.listing \subseteq Nodes
         /\ s.stayed \subseteq s.appeared
         /\ s.state = "done" => s.listing = {} /\ s.scopes = {}

Init ==
    /\ roles \in {cfg \in Configurations : ValidScopes(cfg)}
    /\ present = Nodes
    /\ changes = 0
    /\ scans = [i \in Scans |-> Idle]

-----------------------------------------------------------------------------
(* The user.  A directory is removed with everything in it.                 *)
Witness(now) ==
    scans' = [i \in Scans |-> IF scans[i].state # "scanning" THEN scans[i]
                              ELSE [scans[i] EXCEPT !.stayed = @ \cap now, !.appeared = @ \cup now]]

Vanish(n) ==
    /\ changes < MaxChanges /\ n \in present /\ Parent[n] # n
    /\ present' = {m \in present : ~ Holds(n, m)}
    /\ changes' = changes + 1
    /\ Witness(present')
    /\ UNCHANGED roles

Appear(n) ==
    /\ changes < MaxChanges /\ n \notin present /\ Parent[n] \in present
    /\ present' = present \cup {n}
    /\ changes' = changes + 1
    /\ Witness(present')
    /\ UNCHANGED roles

-----------------------------------------------------------------------------
(* A scan.                                                                  *)
Set(i, s) == scans' = [scans EXCEPT ![i] = s] /\ UNCHANGED <<roles, present, changes>>

BeginScan(i) ==
    /\ scans[i].state = "none" /\ \A j \in 1..(i - 1) : scans[j].state = "done"
    /\ \E selected \in SelectScopes(roles), budget \in Budgets :
         Set(i, [Idle EXCEPT !.state = "scanning", !.budget = budget, !.selected = selected,
                             !.scopes = selected, !.stayed = present, !.appeared = present])

Between(s) == s.state = "scanning" /\ s.listing = {} /\ (s.stack = <<>> \/ s.partial)
Record(s, n, status) ==
    [s EXCEPT !.entries = @ \cup {[scope |-> s.root, path |-> n, status |-> status]},
              !.count = @ + 1, !.partial = @ \/ status # "observed"]

(* The next root: a directory that lstat can fail on after is_dir saw it.    *)
BeginScope(i) ==
    LET s == scans[i]
        root == Min(s.scopes)
        at == [s EXCEPT !.scopes = @ \ {root}, !.root = root, !.stack = <<root>>]
    IN /\ Between(s) /\ s.scopes # {}
       /\ \/ root \notin present /\ Set(i, [at EXCEPT !.partial = TRUE])
          \/ root \in present /\ Set(i, Record(at, root, "observed"))
          \/ root \in present /\ \E why \in {"permission_denied", "io_error"} :
               Set(i, Record(at, root, why))

(* os.scandir of the directory on the top of the stack, in any order.       *)
\* deviation: a directory that cannot be read is left out without a word
UnreadSilently(s, d) ==
    IF d \notin present THEN {[s EXCEPT !.partial = TRUE]}
    ELSE {s, [s EXCEPT !.listing = {n \in present \ {d} : Parent[n] = d}]}

Scandir(s, d) ==
    IF d \notin present THEN {[s EXCEPT !.partial = TRUE]}
    ELSE {[s EXCEPT !.partial = TRUE], [s EXCEPT !.listing = {n \in present \ {d} : Parent[n] = d}]}

OpenDirectory(i) ==
    LET s == scans[i]
        d == Last(s.stack)
        popped == [s EXCEPT !.stack = Front(@)]
    IN /\ s.state = "scanning" /\ s.listing = {} /\ ~ s.partial /\ s.stack # <<>>
       /\ \/ Depth(s.root, d) >= s.budget.depth /\ Set(i, popped)
          \/ Depth(s.root, d) < s.budget.depth /\ \E t \in Scandir(popped, d) : Set(i, t)

Skipped(n) == \E x \in Excluded(roles) \cup Internal : Holds(x, n)
Descends(s, n) == n \in Directories /\ Device(n) = Device(s.root)

Exhausted(s) == s.count >= s.budget.entries

(* What the record of a child that was stat'ed does.  A link counts no bytes *)
(* in the code; here every file that is no directory has one.                *)
Observed(s, n) ==
    LET r == Record([s EXCEPT !.listing = @ \ {n}], n, "observed")
        size == [r EXCEPT !.bytes = @ + 1]
    IN CASE Skipped(n) -> r
         [] ~ Skipped(n) /\ n \notin Directories ->
              IF size.bytes > s.budget.bytes THEN [size EXCEPT !.partial = TRUE, !.listing = {}] ELSE size
         [] OTHER -> IF Descends(s, n) THEN [r EXCEPT !.stack = Append(@, n)] ELSE r

VisitChild(i) ==
    LET s == scans[i] IN
    /\ s.state = "scanning"
    /\ \E n \in s.listing :
         \/ Exhausted(s) /\ Set(i, [s EXCEPT !.partial = TRUE, !.listing = {}])
         \/ ~ Exhausted(s) /\ n \notin present
            /\ Set(i, Record([s EXCEPT !.listing = @ \ {n}], n, "not_found"))
         \/ ~ Exhausted(s) /\ n \in present /\ \E why \in {"permission_denied", "io_error"} :
              Set(i, Record([s EXCEPT !.listing = @ \ {n}], n, why))
         \/ ~ Exhausted(s) /\ n \in present /\ Set(i, Observed(s, n))

(* max_duration_seconds, looked at before every child.                      *)
TimeIsUp(i) ==
    /\ scans[i].state = "scanning" /\ scans[i].listing # {}
    /\ Set(i, [scans[i] EXCEPT !.partial = TRUE, !.listing = {}])

EndScan(i) ==
    /\ Between(scans[i]) /\ scans[i].scopes = {}
    /\ Set(i, [scans[i] EXCEPT !.state = "done", !.stack = <<>>])

Next ==
    \/ \E n \in Nodes : Vanish(n) \/ Appear(n)
    \/ \E i \in Scans : BeginScan(i) \/ BeginScope(i) \/ OpenDirectory(i) \/ VisitChild(i)
                        \/ TimeIsUp(i) \/ EndScan(i)

Spec == Init /\ [][Next]_vars

-----------------------------------------------------------------------------
(* What a reader takes a finished scan for.                                 *)
Whole(i) == scans[i].state = "done" /\ ~ scans[i].partial
Recorded(i) == {e.path : e \in scans[i].entries}

(* The part of the tree a scan is to look at.                               *)
InReach(s, n) ==
    \E root \in s.selected :
        /\ Holds(root, n) /\ Depth(root, n) <= s.budget.depth
        /\ \A d \in Above[n] \ {n} : Holds(root, d) => ~ Skipped(d) /\ Device(d) = Device(root)

(* A COMPLETE scan saw every object that was there from its first to its    *)
(* last system call, within its depth, device and exclusions: everything    *)
(* that could hide an object (an error, a removed directory, a budget) has  *)
(* made it PARTIAL.  filesystem.py, scan.                                   *)
CompleteIsWhole ==
    \A i \in Scans : Whole(i) =>
        /\ {n \in scans[i].stayed : InReach(scans[i], n)} \subseteq Recorded(i)
        /\ Recorded(i) \subseteq {n \in scans[i].appeared : InReach(scans[i], n)}

(* No object is recorded under two Scopes of one scan, whatever the         *)
(* configuration nests: what validate_scopes is for.                        *)
EachObjectOnce ==
    \A i \in Scans : \A e, f \in scans[i].entries : e.path = f.path => e = f

(* snapshot_diff.py and change_semantics.py over two COMPLETE scans of the  *)
(* same Scopes.                                                             *)
Deleted(i, j) == Recorded(i) \ Recorded(j)
Created(i, j) == Recorded(j) \ Recorded(i)
Reviewable(i, j) == Whole(i) /\ Whole(j) /\ i < j /\ scans[i].selected = scans[j].selected

(* Under one budget a review is true: what it calls deleted was not there   *)
(* for all of the second scan, what it calls created not for all of the     *)
(* first, and what was there for all of one and none of the other is said.  *)
ReviewIsTrue ==
    \A i, j \in Scans : Reviewable(i, j) /\ scans[i].budget = scans[j].budget =>
        /\ Deleted(i, j) \cap scans[j].stayed = {}
        /\ Created(i, j) \cap scans[i].stayed = {}
        /\ {n \in scans[i].stayed \ scans[j].appeared : InReach(scans[i], n)} \subseteq Deleted(i, j)
        /\ {n \in scans[j].stayed \ scans[i].appeared : InReach(scans[j], n)} \subseteq Created(i, j)

(* snapshot_refresh.py: a review is "derived only from two compatible       *)
(* verified Snapshots"; it compares Scope and binding and not the budgets,  *)
(* so a smaller max_depth reads as a deletion.                              *)
DeletedWasGone ==
    \A i, j \in Scans : Reviewable(i, j) => Deleted(i, j) \cap scans[j].stayed = {}
=============================================================================
