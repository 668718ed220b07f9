-------------------------- MODULE SnapshotRelations --------------------------
(***************************************************************************)
(* What two verified Snapshots say of each other (snapshot_relations.py)   *)
(* and one of its payloads (duplicate_analysis.py), held against what the  *)
(* user's files really were.  Other programs create, write, rename, link   *)
(* and unlink files between any two visits of a scan, and the number of an *)
(* object that is gone is given to the next one.                           *)
(*                                                                         *)
(* An object's birth identifies it; a scan records its number, times and   *)
(* link count, its birth only where the filesystem tells it, and its       *)
(* content when the payload could be hashed.  A content's number is its    *)
(* size; equal digests are equal contents.                                 *)
(***************************************************************************)
EXTENDS Naturals, FiniteSets, FiniteSetsExt

CONSTANTS
    Scopes,         \* the Scopes
    Paths,          \* numbers, in the order a scan visits them
    ScopeOf,        \* path -> its Scope
    Contents,       \* numbers
    BirthKnown,     \* whether the filesystem tells birth times
    Hashes,         \* whether a payload may be hashed, or fail to be: a set of BOOLEAN
    MaxScans,       \* bound: Snapshots
    MaxChanges,     \* bound: changes by other programs
    MaxDamages      \* bound: Snapshots that no longer verify

RelationsAssumption ==
    /\ ScopeOf \in [Paths -> Scopes] /\ Paths \subseteq Nat /\ Contents \subseteq Nat \ {0}
    /\ BirthKnown \in BOOLEAN /\ Hashes \subseteq BOOLEAN /\ MaxDamages \in Nat
    /\ MaxScans \in Nat /\ MaxChanges \in Nat

VARIABLES
    names,          \* path -> the number of its object, or 0
    objects,        \* number -> the object with that number
    clock,
    scans,          \* the Snapshots: [entries, valid]
    visited         \* the paths the running scan has visited, and its entries

relationsVars == <<names, objects, clock, scans, visited>>

Numbers == 1 .. Cardinality(Paths)
Free == [birth |-> 0, content |-> 0, mtime |-> 0, ctime |-> 0]
Links(n) == Cardinality({p \in Paths : names[p] = n})
Idle == [running |-> FALSE, at |-> {}, entries |-> {}]

----------------------------------------------------------------------------
(* The user's files.                                                       *)

Change == clock < MaxChanges /\ clock' = clock + 1 /\ UNCHANGED <<scans, visited>>

Create(p, c) ==
    /\ Change /\ names[p] = 0
    /\ LET n == Min({i \in Numbers : objects[i] = Free})
       IN /\ names' = [names EXCEPT ![p] = n]
          /\ objects' = [objects EXCEPT ![n] =
                [birth |-> clock', content |-> c, mtime |-> clock', ctime |-> clock']]

\* A write, whose modification time may be set back.
Write(p, c, kept) ==
    /\ Change /\ names[p] # 0
    /\ objects' = [objects EXCEPT ![names[p]] =
            [@ EXCEPT !.content = c, !.ctime = clock',
                      !.mtime = IF kept THEN @ ELSE clock']]
    /\ UNCHANGED names

\* A rename may replace what is there.
Drop(f, p) ==
    IF names[p] = 0 THEN f
    ELSE [f EXCEPT ![names[p]] =
            IF Links(names[p]) = 1 THEN Free ELSE [@ EXCEPT !.ctime = clock']]

Rename(p, q) ==
    /\ Change /\ names[p] # 0 /\ names[q] # names[p]
    /\ names' = [names EXCEPT ![q] = names[p], ![p] = 0]
    /\ objects' = Drop(objects, q)

Link(p, q) ==
    /\ Change /\ names[p] # 0 /\ names[q] = 0
    /\ names' = [names EXCEPT ![q] = names[p]]
    /\ objects' = [objects EXCEPT ![names[p]].ctime = clock']

Unlink(p) ==
    /\ Change /\ names[p] # 0
    /\ names' = [names EXCEPT ![p] = 0]
    /\ objects' = Drop(objects, p)

----------------------------------------------------------------------------
(* The scans.                                                              *)

Entry(p, hashed) ==
    LET o == objects[names[p]]
    IN [path |-> p, number |-> names[p], birth |-> o.birth, size |-> o.content,
        mtime |-> o.mtime, ctime |-> o.ctime, links |-> Links(names[p]),
        digest |-> IF hashed THEN o.content ELSE 0]

BeginScan ==
    /\ ~visited.running /\ Cardinality(DOMAIN scans) < MaxScans
    /\ visited' = [Idle EXCEPT !.running = TRUE]
    /\ UNCHANGED <<names, objects, clock, scans>>

\* deviation: a path may be visited again before the next one
VisitAgain ==
    /\ visited.running
    /\ \E p \in Paths \ visited.at, again \in BOOLEAN :
        /\ \A q \in Paths \ visited.at : p <= q
        /\ visited' = [visited EXCEPT !.at = IF again THEN @ ELSE @ \cup {p},
                        !.entries = @ \cup (IF names[p] = 0 THEN {} ELSE {Entry(p, TRUE)})]
    /\ UNCHANGED <<names, objects, clock, scans>>

Visit ==
    /\ visited.running
    /\ \E p \in Paths \ visited.at :
        /\ \A q \in Paths \ visited.at : p <= q
        /\ visited' \in {[visited EXCEPT !.at = @ \cup {p},
                            !.entries = @ \cup (IF names[p] = 0 THEN {} ELSE {Entry(p, h)})] :
                         h \in IF names[p] = 0 THEN {TRUE} ELSE Hashes}
    /\ UNCHANGED <<names, objects, clock, scans>>

EndScan ==
    /\ visited.running /\ visited.at = Paths
    /\ scans' = [i \in 1 .. Cardinality(DOMAIN scans) + 1 |->
                    IF i \in DOMAIN scans THEN scans[i]
                    ELSE [entries |-> visited.entries, valid |-> TRUE]]
    /\ visited' = Idle
    /\ UNCHANGED <<names, objects, clock>>

Damages == Cardinality({i \in DOMAIN scans : ~scans[i].valid})
Damage ==
    /\ Damages < MaxDamages
    /\ \E i \in DOMAIN scans :
        scans[i].valid /\ scans' = [scans EXCEPT ![i].valid = FALSE]
    /\ UNCHANGED <<names, objects, clock, visited>>

RelationsInit ==
    /\ names = [p \in Paths |-> 0]
    /\ objects = [n \in Numbers |-> Free]
    /\ clock = 0
    /\ scans = <<>>
    /\ visited = Idle

RelationsNext ==
    \/ \E p \in Paths, c \in Contents : Create(p, c)
    \/ \E p \in Paths, c \in Contents, kept \in BOOLEAN : Write(p, c, kept)
    \/ \E p, q \in Paths : Rename(p, q) \/ Link(p, q)
    \/ \E p \in Paths : Unlink(p)
    \/ BeginScan \/ Visit \/ EndScan \/ Damage

RelationsSpec == RelationsInit /\ [][RelationsNext]_relationsVars

----------------------------------------------------------------------------
(* snapshot_relations.py.                                                  *)

Told(e) == IF BirthKnown THEN e.birth ELSE 0

\* _object_hint_equal
SameHint(b, t) == b.number = t.number /\ Told(b) = Told(t)

\* deviation: the change time is not compared
ChangedButForChangeTime(b, t) ==
    \/ b.size # t.size \/ b.mtime # t.mtime \/ b.links # t.links

\* _metadata_changed
MetadataChanged(b, t) ==
    b.size # t.size \/ b.mtime # t.mtime \/ b.ctime # t.ctime \/ b.links # t.links

SameLocation(b, t) ==
    IF ~SameHint(b, t) THEN "OBJECT_HINT_CHANGED"
    ELSE IF 0 \in {b.digest, t.digest} THEN "CONTENT_UNKNOWN"
    ELSE IF b.digest # t.digest THEN "CONTENT_CHANGED"
    ELSE IF MetadataChanged(b, t) THEN "METADATA_CHANGED"
    ELSE "CONTINUITY"

Locations(i) == {e.path : e \in scans[i].entries}
At(i, p) == CHOOSE e \in scans[i].entries : e.path = p
Valid(i) == scans[i].valid

\* deviation: the next Snapshot, valid or not, is the adjacent one
NextInOrder(i, j) == j = i + 1

\* _are_adjacent_valid_snapshots
Adjacent(i, j) == \A k \in DOMAIN scans : i < k /\ k < j => ~Valid(k)

\* Locations only one of the two has, by number and birth; without a birth an Entry
\* is not eligible.
Removed(i, j) == {e \in scans[i].entries : BirthKnown /\ e.path \notin Locations(j)}
Added(i, j) == {e \in scans[j].entries : BirthKnown /\ e.path \notin Locations(i)}
Keys(es) == {<<e.number, e.birth>> : e \in es}
Keyed(es, k) == {e \in es : <<e.number, e.birth>> = k}
Aliases(i, n) == {e \in scans[i].entries : e.number = n}

\* deviation: only the Entries that are on one side count as aliases
AliasedAmong(i, j, k) ==
    Cardinality(Keyed(Removed(i, j), k)) > 1 \/ Cardinality(Keyed(Added(i, j), k)) > 1

Aliased(i, j, k) ==
    Cardinality(Aliases(i, k[1])) > 1 \/ Cardinality(Aliases(j, k[1])) > 1

\* _transition_relations: what a removed and an added location have to do with each
\* other.
Transitions(i, j) ==
    {<<k, Keyed(Removed(i, j), k), Keyed(Added(i, j), k)>> :
        k \in {x \in Keys(Removed(i, j)) \cap Keys(Added(i, j)) :
                 0 \notin {e.digest : e \in Keyed(Removed(i, j) \cup Added(i, j), x)}}}

\* deviation: the change times are to agree as well
AmbiguousByTime(i, j, x) ==
    Aliased(i, j, x[1]) \/ Cardinality({<<e.digest, e.ctime>> : e \in x[2] \cup x[3]}) # 1

Ambiguous(i, j, x) ==
    Aliased(i, j, x[1]) \/ Cardinality({e.digest : e \in x[2] \cup x[3]}) # 1

\* deviation: the numbers of objects alone make a candidate
CandidatesByNumber(i, j) ==
    {<<b, t>> \in Removed(i, j) \X Added(i, j) :
        b.number = t.number /\ b.digest = t.digest /\ b.digest # 0
        /\ Cardinality(Aliases(i, b.number)) = 1 /\ Cardinality(Aliases(j, b.number)) = 1}

Candidates(i, j) ==
    IF ~Adjacent(i, j) THEN {}
    ELSE UNION {x[2] \X x[3] : x \in {y \in Transitions(i, j) : ~Ambiguous(i, j, y)}}

CandidateKind(c) ==
    IF ScopeOf[c[1].path] = ScopeOf[c[2].path] THEN "RENAME" ELSE "CROSS_SCOPE_TRANSITION"

----------------------------------------------------------------------------
(* duplicate_analysis.py, of one Snapshot.                                 *)

Hints(i) == {e.number : e \in scans[i].entries}

\* Names of one object that disagree about it.
Conflicted(i, n) ==
    LET es == Aliases(i, n)
    IN /\ Cardinality(es) >= 2
       /\ \/ Cardinality({e.digest : e \in es} \ {0}) > 1
          \/ Cardinality({e.size : e \in es}) > 1
          \/ \E e \in es : e.links < Cardinality(es)

Group(i, d) == {e \in scans[i].entries : e.digest = d}
Groups(i) == {d \in Contents : Cardinality(Group(i, d)) >= 2}

\* deviation: a name is a storage unit
UnitsByName(i, d) == {e.path : e \in {x \in Group(i, d) : ~Conflicted(i, x.number)}}

Units(i, d) == {e.number : e \in {x \in Group(i, d) : ~Conflicted(i, x.number)}}

IsExactDuplicate(i, d) == Cardinality(Units(i, d)) >= 2

\* logical_redundant_bytes, where they are told.
RedundancyTold(i, d) ==
    IsExactDuplicate(i, d) /\ \A e \in Group(i, d) : ~Conflicted(i, e.number)
RedundantBytes(i, d) == d * (Cardinality(Units(i, d)) - 1)

\* deviation: the allocation of every name counts
AllocatedByName(i) == MapThenSumSet(LAMBDA e : e.size, scans[i].entries)

\* allocated_size_bytes_known_sum
AllocatedBytes(i) ==
    MapThenSumSet(LAMBDA n : (CHOOSE e \in Aliases(i, n) : TRUE).size,
                  {n \in Hints(i) : ~Conflicted(i, n)})

----------------------------------------------------------------------------
(* Properties.                                                             *)

Pairs == {<<i, j>> \in (DOMAIN scans) \X (DOMAIN scans) : i < j /\ Valid(i) /\ Valid(j)}

\* A Snapshot names a path once, and every name has an object.
RelationsTypeOK ==
    /\ \A p \in Paths : names[p] # 0 => objects[names[p]] # Free
    /\ \A n \in Numbers : Links(n) = 0 => objects[n] = Free
    /\ \A i \in DOMAIN scans : Cardinality(scans[i].entries) = Cardinality(Locations(i))

\* A transition candidate is one object, with one content, that two Snapshots saw
\* under different names, though its number is given to others later
\* (_transition_relations).
CandidatesAreOneObject ==
    \A x \in Pairs : \A c \in Candidates(x[1], x[2]) :
        /\ c[1].birth = c[2].birth /\ c[1].size = c[2].size
        /\ c[1].path # c[2].path

\* An object that both Snapshots saw once, with one link, under names only one of them
\* has, and did not see change, is reported as moved: moved files are not lost
\* (_transition_relations).
MovesAreFound ==
    \A x \in Pairs :
        \A b \in scans[x[1]].entries, t \in scans[x[2]].entries :
            /\ BirthKnown /\ b.birth = t.birth /\ b.path # t.path
            /\ b.path \notin Locations(x[2]) /\ t.path \notin Locations(x[1])
            /\ b.digest # 0 /\ b.digest = t.digest
            /\ \A k \in DOMAIN scans : x[1] < k /\ k < x[2] => ~Valid(k)
            /\ \A e \in scans[x[1]].entries \ {b} : e.number # b.number
            /\ \A e \in scans[x[2]].entries \ {t} : e.number # t.number
            => <<b, t>> \in Candidates(x[1], x[2])

\* SAME_LOCATION_CONTINUITY, reported as a fact, is one: the same object, which
\* nobody wrote in between, also where birth times are not known and its number was
\* reused (_same_location_relation).
ContinuityIsFact ==
    \A x \in Pairs : \A p \in Locations(x[1]) \cap Locations(x[2]) :
        LET b == At(x[1], p) t == At(x[2], p)
        IN SameLocation(b, t) = "CONTINUITY" => b.birth = t.birth /\ b.ctime = t.ctime

\* A move is never guessed from a file with more names than one in either Snapshot
\* (a hard link is not a rename).
LinksAreNotMoves ==
    \A x \in Pairs : \A c \in Candidates(x[1], x[2]) : \A i \in {x[1], x[2]} :
        \A e \in scans[i].entries : e.birth = c[1].birth => e \in {c[1], c[2]}

\* Redundant bytes and allocated bytes are never overstated, however the files moved
\* during the scan: there are as many different objects with that content, and every
\* object is counted once (compute_snapshot_duplicate_analysis).
NothingOverstated ==
    \A i \in DOMAIN scans :
        /\ \A d \in Groups(i) : RedundancyTold(i, d) =>
            RedundantBytes(i, d) =< d * (Cardinality({e.birth : e \in Group(i, d)}) - 1)
        /\ AllocatedBytes(i) =<
            MapThenSumSet(LAMBDA b : Max({e.size : e \in {x \in scans[i].entries : x.birth = b}}),
                          {e.birth : e \in scans[i].entries})
=============================================================================
