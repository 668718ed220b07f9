---------------------------- MODULE StorageViews ----------------------------
(***************************************************************************)
(* The structure of one verified Snapshot (storage_structure.py), the      *)
(* growth from one to the next (storage_growth.py) and the pages of both   *)
(* that queries give (storage_query.py).                                   *)
(*                                                                         *)
(* A location is a number, in the order of Scope and path; a Snapshot maps *)
(* every location to its Entry, or to none.  Identifiers of Snapshots and  *)
(* nodes, and digests of results, are left out: they are functions of what *)
(* is kept.                                                                *)
(***************************************************************************)
EXTENDS Integers, FiniteSets, FiniteSetsExt, SequencesExt

CONSTANTS
    Locations,      \* numbers
    Roots,          \* one location for every Scope
    Parent,         \* location -> the directory it is in; a root is its own
    Sizes,          \* sizes of files
    Others,         \* further kinds of Entry there may be
    MaxChanges,     \* bound: locations that differ between the two Snapshots
    Limits          \* page limits of queries; none: no queries are made

ViewsAssumption ==
    /\ Locations \subseteq Nat \ {0} /\ Roots \subseteq Locations
    /\ Parent \in [Locations -> Locations]
    /\ \A n \in Locations : (Parent[n] = n) = (n \in Roots)
    /\ Sizes \subseteq Nat /\ Limits \subseteq Nat \ {0} /\ MaxChanges \in Nat
    /\ Others \subseteq {"LINK", "SOCKET", "UNOBSERVED", "EXCLUDED", "EXCLUDED_DIRECTORY"}

VARIABLES
    base, target,   \* the two Snapshots
    changed,        \* the locations that may differ
    result,         \* the structures and the growth computed of them
    query,          \* the query being made, or none
    pages           \* the nodes its pages have given

viewsVars == <<base, target, changed, result, query, pages>>

Children(n) == {c \in Locations \ {n} : Parent[c] = n}
Above[n \in Locations] == IF n \in Roots THEN {n} ELSE {n} \cup Above[Parent[n]]
Level(n) == Cardinality(Above[n])

Absent == [kind |-> "ABSENT", size |-> 0]
Entries ==
    {Absent, [kind |-> "DIRECTORY", size |-> 0]}
    \cup [kind : {"FILE"}, size : Sizes] \cup [kind : Others, size : {0}]

\* Only a directory that was entered has Entries below it.
ScanMakes(s) ==
    \A n \in Locations :
        IF n \in Roots THEN s[n].kind = "DIRECTORY"
        ELSE s[n] # Absent => s[Parent[n]].kind = "DIRECTORY"

----------------------------------------------------------------------------
(* storage_structure.py.                                                   *)

Excluded(e) == e.kind \in {"EXCLUDED", "EXCLUDED_DIRECTORY"}
Active(s) == {n \in Locations : s[n] # Absent /\ ~Excluded(s[n])}
KnownSize(e) == IF e.kind = "FILE" THEN e.size ELSE 0

\* The directories that have a node: every one with an active Entry in it or of it.
NodesOf(s) == Roots \cup {n \in Active(s) : s[n].kind = "DIRECTORY"}
                   \cup UNION {Above[Parent[n]] : n \in Active(s)}

\* What a directory has of its own: a file counts for the directory it is in, a
\* directory for itself.
Direct(s, n) ==
    LET in(kinds) == {c \in Children(n) \cap Active(s) : s[c].kind \in kinds}
    IN [files |-> Cardinality(in({"FILE"})),
        bytes |-> MapThenSumSet(LAMBDA c : KnownSize(s[c]), in({"FILE"})),
        links |-> Cardinality(in({"LINK"})),
        specials |-> Cardinality(in({"SOCKET", "UNOBSERVED"})),
        directories |-> IF n \in Active(s) THEN 1 ELSE 0]

Measures == {"files", "bytes", "links", "specials", "directories"}

\* deviation: only the directories that have files of their own are followed
StructureOfBusy(s) ==
    LET R[n \in Locations] ==
            [m \in Measures |-> Direct(s, n)[m] +
                MapThenSumSet(LAMBDA c : R[c][m],
                    {c \in Children(n) \cap NodesOf(s) : Direct(s, c).files > 0})]
    IN [n \in NodesOf(s) |-> R[n]]

\* _scope_nodes: recursive is direct and what the child directories have.
Structure(s) ==
    LET R[n \in Locations] ==
            [m \in Measures |-> Direct(s, n)[m] +
                MapThenSumSet(LAMBDA c : R[c][m], Children(n) \cap NodesOf(s))]
    IN [n \in NodesOf(s) |-> R[n]]

\* _coverage
Coverage(s) ==
    [files |-> Cardinality({n \in Active(s) : s[n].kind = "FILE"}),
     bytes |-> MapThenSumSet(LAMBDA n : KnownSize(s[n]), Active(s)),
     failed |-> Cardinality({n \in Active(s) : s[n].kind = "UNOBSERVED"})]

StructureComplete(s) == Coverage(s).failed = 0

----------------------------------------------------------------------------
(* storage_growth.py.                                                      *)

Kinds == {"ADDED", "REMOVED", "INCREASE", "DECREASE", "UNCHANGED"}
Regular(s) == {n \in Active(s) : s[n].kind = "FILE"}

\* _classify: the kind and the bytes of a location that is a file in either.
Contribution(b, t, n) ==
    LET was == KnownSize(b[n]) is == KnownSize(t[n])
    IN IF n \notin Regular(b) THEN [kind |-> "ADDED", bytes |-> is]
       ELSE IF n \notin Regular(t) THEN [kind |-> "REMOVED", bytes |-> was]
       ELSE IF is > was THEN [kind |-> "INCREASE", bytes |-> is - was]
       ELSE IF is < was THEN [kind |-> "DECREASE", bytes |-> was - is]
       ELSE [kind |-> "UNCHANGED", bytes |-> 0]

\* deviation: only locations of the earlier Snapshot, or of no directory, contribute
ContributingOnceListed(b, t) ==
    Regular(b) \cup {n \in Regular(t) : b[Parent[n]].kind = "DIRECTORY"}

Contributing(b, t) == Regular(b) \cup Regular(t)

DirectGrowth(b, t, n) ==
    [k \in Kinds |->
        MapThenSumSet(LAMBDA c : Contribution(b, t, c).bytes,
            {c \in Contributing(b, t) \cap Children(n) : Contribution(b, t, c).kind = k})]

Growth(b, t) ==
    LET nodes == NodesOf(b) \cup NodesOf(t)
        R[n \in Locations] ==
            [k \in Kinds |-> DirectGrowth(b, t, n)[k] +
                MapThenSumSet(LAMBDA c : R[c][k], Children(n) \cap nodes)]
    IN [n \in nodes |-> R[n]]

Net(g) == g["ADDED"] - g["REMOVED"] + g["INCREASE"] - g["DECREASE"]

\* decomposition_complete: of every file among the contributions the size is known.  An
\* Entry that could not be observed is no file (filesystem.py, _entry).
GrowthComplete(n) ==
    \A c \in Contributing(base, target) : n \in Above[c] =>
        \A s \in {base, target} : s[c].kind = "FILE" => s[c].size \in Nat

BytesAt(structure, n) == IF n \in DOMAIN structure THEN structure[n].bytes ELSE 0

\* The code's own checks, which raise GrowthError.
GrowthRaises ==
    \E n \in DOMAIN result.growth :
        GrowthComplete(n) /\ Net(result.growth[n]) #
            BytesAt(result.target, n) - BytesAt(result.base, n)

Computed(b, t) == [base |-> Structure(b), target |-> Structure(t), growth |-> Growth(b, t)]

----------------------------------------------------------------------------
(* storage_query.py.                                                       *)

Ranks == {"NONE", "BYTES", "NET_GROWTH", "NET_SHRINK", "ADDED", "REMOVED"}
NodesFor(r) == DOMAIN (IF r = "BYTES" THEN result.target ELSE result.growth)

\* _effective_roots, _depth_nodes: the nodes below the prefix, to a depth.
Candidates(q) ==
    {n \in NodesFor(q.rank) : q.prefix \in Above[n] /\ Level(n) - Level(q.prefix) <= q.depth}

Metric(r, n) ==
    CASE r = "BYTES" -> result.target[n].bytes
      [] r = "NET_GROWTH" -> Net(result.growth[n])
      [] r = "NET_SHRINK" -> 0 - Net(result.growth[n])
      [] r = "ADDED" -> result.growth[n]["ADDED"]
      [] r = "REMOVED" -> result.growth[n]["REMOVED"]

Selected(q) ==
    IF q.rank = "NONE" THEN Candidates(q)
    ELSE {n \in Candidates(q) \ Roots : Metric(q.rank, n) > 0 /\ Metric(q.rank, n) >= q.least}

\* deviation: the smallest come first
NodeOrderAscending(q, m, n) ==
    IF q.rank = "NONE" THEN m < n
    ELSE \/ Metric(q.rank, m) < Metric(q.rank, n)
         \/ Metric(q.rank, m) = Metric(q.rank, n) /\ m < n

NodeOrder(q, m, n) ==
    IF q.rank = "NONE" THEN m < n
    ELSE \/ Metric(q.rank, m) > Metric(q.rank, n)
         \/ Metric(q.rank, m) = Metric(q.rank, n) /\ m < n

Ordered(q) == SetToSortSeq(Selected(q), LAMBDA m, n : NodeOrder(q, m, n))

\* _page: every page is of a new computation.
Page(q) == SubSeq(Ordered(q), q.offset + 1, Min({q.offset + q.limit, Len(Ordered(q))}))

----------------------------------------------------------------------------
NoQuery == [rank |-> "NONE", prefix |-> Min(Roots), depth |-> 0, least |-> 0, limit |-> 0,
            offset |-> 0, state |-> "NONE"]

ViewsInit ==
    /\ base \in {s \in [Locations -> Entries] : ScanMakes(s)}
    /\ target = base
    /\ changed = {}
    /\ result = Computed(base, target)
    /\ query = NoQuery
    /\ pages = <<>>

\* The later Snapshot differs in one more location, and what was below it.
Differ ==
    /\ query.state = "NONE"
    /\ Cardinality(changed) < MaxChanges
    /\ \E n \in Locations \ (Roots \cup changed), e \in Entries :
        /\ \A c \in changed : c < n
        /\ e # target[n]
        /\ changed' = changed \cup {n}
        /\ target' = [m \in Locations |->
                        IF m = n THEN e
                        ELSE IF n \in Above[m] /\ e.kind # "DIRECTORY" THEN Absent
                        ELSE target[m]]
        /\ ScanMakes(target')
        /\ result' = Computed(base, target')
    /\ UNCHANGED <<base, query, pages>>

\* A query's first page; a prefix that has no node is refused.
Ask ==
    /\ query.state = "NONE"
    /\ \E r \in Ranks, n \in Locations, d \in 0 .. 2, b \in 0 .. 2, l \in Limits :
        LET q == [rank |-> r, prefix |-> n, depth |-> d, least |-> b, limit |-> l,
                  offset |-> 0, state |-> "ASKED"]
        IN /\ r = "NONE" => b = 0
           /\ n \in NodesFor(r)
           /\ query' = q
    /\ pages' = <<>>
    /\ UNCHANGED <<base, target, changed, result>>

\* The page at the offset, and the offset of the next if there is one.
Answer ==
    /\ query.state = "ASKED"
    /\ pages' = pages \o Page(query)
    /\ LET next == query.offset + Len(Page(query))
       IN query' = IF next < Len(Ordered(query)) THEN [query EXCEPT !.offset = next]
                   ELSE [query EXCEPT !.state = "ANSWERED"]
    /\ UNCHANGED <<base, target, changed, result>>

ViewsNext == Differ \/ Ask \/ Answer

ViewsSpec == ViewsInit /\ [][ViewsNext]_viewsVars

----------------------------------------------------------------------------
(* Properties.                                                             *)

Below(s, n) == {m \in Active(s) : n \in Above[m]}

\* What a node of the structure counts is what is below it, excluded Entries left out,
\* and the Scopes together are the coverage, which compute_snapshot_structure insists
\* on.
StructureSumsUp ==
    \A pair \in {<<base, result.base>>, <<target, result.target>>} :
        LET s == pair[1] structure == pair[2]
        IN /\ \A n \in DOMAIN structure :
                LET of(kinds) == {m \in Below(s, n) : s[m].kind \in kinds}
                IN /\ structure[n].bytes = MapThenSumSet(LAMBDA m : KnownSize(s[m]), Below(s, n))
                   /\ structure[n].files = Cardinality(of({"FILE"}))
                   /\ structure[n].directories = Cardinality(of({"DIRECTORY"}))
                   /\ structure[n].links + structure[n].specials =
                        Cardinality(of({"LINK", "SOCKET", "UNOBSERVED"}))
           /\ \A m \in {"files", "bytes"} :
                MapThenSumSet(LAMBDA n : structure[n][m], Roots) = Coverage(s)[m]

\* The growth of every directory is the difference of its two structures, though files
\* become directories and directories files between the two, and its own checks never
\* stop the analysis of two Snapshots a scan can make (compute_snapshot_growth).
GrowthReconciles ==
    /\ ~GrowthRaises
    /\ MapThenSumSet(LAMBDA n : Net(result.growth[n]), Roots)
        = Coverage(target).bytes - Coverage(base).bytes

\* The pages of a query give every node it selects once, in the order of the rank
\* (_page, next_offset).
PagesAreTheView ==
    /\ IsPrefix(pages, Ordered(query))
    /\ query.state = "ANSWERED" =>
        /\ ToSet(pages) = Selected(query) /\ Len(pages) = Cardinality(Selected(query))
        /\ \A i, j \in DOMAIN pages :
            i < j /\ query.rank # "NONE" =>
                Metric(query.rank, pages[i]) >= Metric(query.rank, pages[j])

\* A file whose location could not be observed the next time leaves the growth of the
\* directories above it incomplete: fields that were not observed remain unknown
\* rather than being inferred as zero.
UnobservedIsIncomplete ==
    \A n \in DOMAIN result.growth, m \in Locations :
        n \in Above[m] /\ base[m].kind = "FILE" /\ target[m].kind = "UNOBSERVED"
        => ~GrowthComplete(n)
=============================================================================
