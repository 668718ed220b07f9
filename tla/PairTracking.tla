---------------------------- MODULE PairTracking ----------------------------
(***************************************************************************)
(* A historical context pack about two Snapshots, from the request to the  *)
(* published pack: agent_context/service.py admits the request and its     *)
(* budgets, observation_projection/pair_tracking.py loads and verifies the *)
(* two Snapshots, compares them and selects what it will show within the   *)
(* projection's budget, llm_context/adapter.py trims that projection to    *)
(* the packet's budget, and the service reads the provenance of both       *)
(* Snapshots again before it publishes.                                    *)
(*                                                                         *)
(* The Snapshots may be damaged or lost between any two steps.  Entries    *)
(* are small records of what the comparison looks at; digests, references  *)
(* and the order in which canonical JSON sorts hierarchy items, overlays   *)
(* and descriptors are left out.                                           *)
(***************************************************************************)
EXTENDS Integers, FiniteSets, Sequences, SequencesExt, FiniteSetsExt

CONSTANTS
    Ids,              \* the Snapshots
    RecordedAt,       \* [Ids -> Nat]: a Snapshot ends before a later one begins
    Scopes,           \* the scopes both Snapshots observed, in their order
    Places,           \* the locations <<scope, path>>, ordered by scope, path
    PlacesByPath,     \* the same locations, ordered by path, scope
    Contents,         \* the contents the Snapshots may have recorded
    RelationResults,  \* what the relation analysis may have found
    Requests,         \* the requests a caller may make
    Policies,         \* the budgets a caller may give
    Profile,          \* the budgets of the profile balanced-v1
    Limits,           \* the limits of a routed request
    MaxFaults         \* bound: Snapshots damaged or lost during the request

AnyScope == "any scope"
NoPrefix == <<"no prefix">>
Unknown == 1000

NoEntry == [type |-> "none", size |-> 0, stat |-> 0, readable |-> TRUE,
            payload |-> "none"]

PlacesAreClosed ==
    /\ ToSet(Places) = ToSet(PlacesByPath)
    /\ \A l \in ToSet(Places) : \A n \in 0 .. Len(l[2]) :
           <<l[1], SubSeq(l[2], 1, n)>> \in ToSet(Places)
    /\ ToSet(Scopes) = {l[1] : l \in ToSet(Places)}

VARIABLES
    content,      \* [Ids -> [locations -> entry]]: what the Snapshots recorded
    status,       \* [Ids -> "valid", "reuse", "damaged" or "missing"]
    faults,       \* Snapshots damaged or lost so far
    pc,           \* the step of the request
    request,      \* the request
    policy,       \* its budgets
    relations,    \* the relation components of the pair
    universe,     \* the locations the request is about, in order
    selected,     \* the locations to be shown, in the order of selection
    projection,   \* the projection, when there is one
    pack,         \* the pack, when there is one
    outcome       \* how the request ended

vars == <<content, status, faults, pc, request, policy, relations, universe,
          selected, projection, pack, outcome>>

NoProjection == [anchors |-> <<>>, hierarchy |-> {}, expanded |-> {},
                 overlays |-> <<>>, descriptors |-> 0, accounts |-> {}]

NoPack == [tracking |-> <<>>, hierarchy |-> {}, overlays |-> 0,
           descriptors |-> 0, omitted |-> {}]

None == [error |-> "none", cause |-> "none"]

Init ==
    /\ content \in Contents
    /\ status = [s \in Ids |-> "valid"]
    /\ faults = 0
    /\ pc = "idle"
    /\ request = [scope |-> AnyScope]
    /\ policy = Profile
    /\ relations = <<>> /\ universe = <<>> /\ selected = <<>>
    /\ projection = NoProjection
    /\ pack = NoPack
    /\ outcome = None

-----------------------------------------------------------------------------
(* The entries of the pair and what is said of one location. *)

Base(l) == content[request.base][l]

Target(l) == content[request.target][l]

Entries(l) == {Base(l), Target(l)} \ {NoEntry}

Located == {l \in ToSet(Places) : Entries(l) # {}}

\* The diff compares the stat view of the entries, never their payload.
StatView(e) == [type |-> e.type, size |-> e.size, stat |-> e.stat,
                readable |-> e.readable]

Change(l) ==
    CASE Base(l) = NoEntry -> "ADDED"
      [] Target(l) = NoEntry -> "REMOVED"
      [] StatView(Base(l)) # StatView(Target(l)) -> "MODIFIED"
      [] OTHER -> "UNCHANGED"

Hashed(e) == e.payload \notin {"none", "unread", "remote", "not a file", "v1"}

ContentState(l) ==
    IF ~Hashed(Base(l)) \/ ~Hashed(Target(l)) THEN "UNKNOWN"
    ELSE IF Base(l).payload = Target(l).payload THEN "VERIFIED_UNCHANGED"
    ELSE "VERIFIED_CHANGED"

IsFile(e) == e.type = "file"

\* A growth contribution exists where either side is a regular file.
Contributes(l) == \E e \in Entries(l) : IsFile(e)

ByteDelta(l) ==
    LET SizeOf(e) == IF IsFile(e) THEN e.size ELSE 0
    IN  IF \E e \in Entries(l) : IsFile(e) /\ e.size = Unknown THEN Unknown
        ELSE SizeOf(Target(l)) - SizeOf(Base(l))

PathSelected(path, prefix) ==
    prefix \in {NoPrefix, <<>>} \/ IsPrefix(prefix, path)

InRequest(l) ==
    /\ request.scope \in {AnyScope, l[1]}
    /\ PathSelected(l[2], request.prefix)

-----------------------------------------------------------------------------
(* The relation components the budget pays for, in their order, relations  *)
(* before ambiguity groups; each costs one, whatever it is about.          *)

PaidComponents(rs) == SubSeq(rs, 1, Min({Len(rs), policy.components}))

\* deviation: an overlay lists its members wherever they are
OverlayAnywhere(c) ==
    LET shown == SubSeq(c.members, 1, Min({Len(c.members), policy.members}))
    IN  [members |-> Len(c.members), shown |-> shown,
         rest |-> Len(c.members) - Len(shown)]

Overlay(c) ==
    LET inside == SelectSeq(c.members, LAMBDA l : l \in ToSet(universe))
        shown == SubSeq(inside, 1, Min({Len(inside), policy.members}))
    IN  [members |-> Len(c.members), shown |-> shown,
         rest |-> Len(c.members) - Len(shown)]

Related(l, u) ==
    l \in ToSet(u)
    /\ \E i \in DOMAIN PaidComponents(relations) :
           l \in ToSet(PaidComponents(relations)[i].members)

-----------------------------------------------------------------------------
(* Why a location is shown, and its priority channel. *)

EntryReasons(e) ==
       (IF e.readable THEN {} ELSE {"UNREADABLE"})
    \cup (IF IsFile(e) /\ e.size = Unknown THEN {"UNKNOWN_SIZE"} ELSE {})
    \cup (CASE e.payload = "remote" -> {"NON_LOCAL"}
            [] e.payload = "unread" -> {"PAYLOAD_UNKNOWN"}
            [] OTHER -> {})

GrowthReasons(l) ==
    CASE ~request.growth \/ ~Contributes(l) -> {}
      [] ByteDelta(l) = Unknown -> {"UNKNOWN_SIZE"}
      [] ByteDelta(l) > 0 -> {"SIZE_INCREASE", "GROWTH_CONTRIBUTOR"}
      [] ByteDelta(l) < 0 -> {"SIZE_DECREASE", "GROWTH_CONTRIBUTOR"}
      [] OTHER -> {}

\* deviation: the payloads are not compared
ReasonsOfStat(l, u) ==
    ({Change(l)} \ {"UNCHANGED"})
    \cup UNION {EntryReasons(e) : e \in Entries(l)}
    \cup (IF request.scope # AnyScope \/ request.prefix # NoPrefix
          THEN {"USER_REQUESTED_LOCATION"} ELSE {})
    \cup GrowthReasons(l)
    \cup (IF Related(l, u) THEN {"RELATION_COMPONENT_REPRESENTATIVE"} ELSE {})

Reasons(l, u) ==
    ReasonsOfStat(l, u)
    \cup (IF ContentState(l) = "VERIFIED_CHANGED" THEN {"CONTENT_CHANGED"} ELSE {})

ChannelReasons(c) ==
    CASE c = 0 -> {"ADDED", "REMOVED", "MODIFIED", "UNKNOWN_SIZE",
                   "PAYLOAD_UNKNOWN", "CONTENT_CHANGED",
                   "USER_REQUESTED_LOCATION"}
      [] c = 1 -> {"SIZE_INCREASE", "SIZE_DECREASE", "GROWTH_CONTRIBUTOR"}
      [] c = 2 -> {"RELATION_COMPONENT_REPRESENTATIVE"}
      [] OTHER -> {}

Channel(l, u) ==
    LET heard == {c \in 0 .. 2 : Reasons(l, u) \cap ChannelReasons(c) # {}}
    IN  IF heard = {} THEN 3 ELSE Min(heard)

-----------------------------------------------------------------------------
(* Selection: the first few of every scope, then by channel and location   *)
(* while neither the total nor the channel's quota is used up.             *)

OfChannel(u, c) == SelectSeq(u, LAMBDA l : Channel(l, u) = c)

Candidates(u) ==
    OfChannel(u, 0) \o OfChannel(u, 1) \o OfChannel(u, 2) \o OfChannel(u, 3)

FirstOfScopes(u) ==
    LET OfScope(s) == SelectSeq(Candidates(u), LAMBDA l : l[1] = s)
    IN  FlattenSeq([i \in DOMAIN Scopes |->
            SubSeq(OfScope(Scopes[i]), 1,
                   Min({policy.minimum, Len(OfScope(Scopes[i]))}))])

TakeWithin(u, first) ==
    LET InChannel(acc, c) == {i \in DOMAIN acc : Channel(acc[i], u) = c}
        Take(acc, l) ==
            IF \/ l \in ToSet(acc)
               \/ Len(acc) >= policy.tracking
               \/ Cardinality(InChannel(acc, Channel(l, u)))
                      >= policy.quotas[Channel(l, u)]
            THEN acc
            ELSE Append(acc, l)
    IN  FoldLeft(Take, first, Candidates(u))

\* deviation: no scope comes first
SelectByChannel(u) == TakeWithin(u, <<>>)

\* deviation: the first of every scope are taken whatever the total
SelectUncut(u) == TakeWithin(u, FirstOfScopes(u))

SelectCandidates(u) ==
    LET first == FirstOfScopes(u)
    IN  TakeWithin(u, SubSeq(first, 1, Min({Len(first), policy.tracking})))

\* The entries quoted in full.  The bound is tested after an entry was added.
Anchors ==
    LET Sides(l) == SelectSeq(<<<<"base", l>>, <<"target", l>>>>,
                        LAMBDA a : (IF a[1] = "base" THEN Base(l) ELSE Target(l))
                                       # NoEntry)
        all == FlattenSeq([i \in DOMAIN selected |-> Sides(selected[i])])
    IN  SubSeq(all, 1, Min({Len(all), Max({policy.anchors, 1})}))

-----------------------------------------------------------------------------
(* The growth hierarchy: the roots and the directories of what was         *)
(* selected must fit, the rest follows by the size of its change.          *)

Ancestors(l) == {<<l[1], SubSeq(l[2], 1, n)>> : n \in 0 .. Len(l[2]) - 1}

GrowthNodes ==
    {<<s, <<>>>> : s \in ToSet(Scopes)}
    \cup UNION {Ancestors(l) : l \in Located}
    \cup {l \in Located : \E e \in Entries(l) : e.type = "dir"}

NetDelta(n) ==
    MapThenSumSet(ByteDelta,
        {l \in Located : n \in Ancestors(l) /\ Contributes(l)
                             /\ ByteDelta(l) # Unknown})

ShownScopes ==
    IF selected # <<>> THEN {l[1] : l \in ToSet(selected)}
    ELSE IF request.scope # AnyScope THEN {request.scope}
    ELSE ToSet(Scopes)

HierarchyCandidates ==
    {n \in GrowthNodes : /\ n[1] \in ShownScopes
                         /\ n[2] = <<>> \/ PathSelected(n[2], request.prefix)}

\* deviation: only the directory that holds a selected location
RequiredParents ==
    HierarchyCandidates
    \cap ({<<s, <<>>>> : s \in ShownScopes}
          \cup {<<l[1], Front(l[2])>> :
                    l \in {k \in ToSet(selected) : k[2] # <<>>}})

RequiredNodes ==
    HierarchyCandidates
    \cap ({<<s, <<>>>> : s \in ShownScopes}
          \cup UNION {Ancestors(l) : l \in ToSet(selected)})

Rank(n) == CHOOSE i \in DOMAIN Places : Places[i] = n

LargerChange(m, n) ==
    LET Size(k) == IF NetDelta(k) < 0 THEN -NetDelta(k) ELSE NetDelta(k)
    IN  Size(m) > Size(n) \/ (Size(m) = Size(n) /\ Rank(m) < Rank(n))

Hierarchy ==
    LET optional == SetToSortSeq(HierarchyCandidates \ RequiredNodes, LargerChange)
        room == policy.hierarchy - Cardinality(RequiredNodes)
    IN  RequiredNodes \cup ToSet(SubSeq(optional, 1, Min({Len(optional), room})))

Expanded(nodes) ==
    {n \in nodes : \E l \in ToSet(selected) : n[1] = l[1] /\ IsPrefix(n[2], l[2])}

Account(domain, source, shown) ==
    [domain |-> domain, source |-> source, shown |-> shown, rest |-> source - shown]

Accounts(hierarchy, overlays) ==
    LET grown == {l \in ToSet(universe) : request.growth /\ Contributes(l)}
    IN  {Account("LOCATION", Len(universe), Len(selected)),
         Account("GROWTH", Cardinality(grown),
                 Cardinality(grown \cap ToSet(selected)))}
        \cup (IF request.relation
              THEN {Account("RELATION", Len(relations), Len(overlays))} ELSE {})
        \cup (IF request.growth
              THEN {Account("HIERARCHY", Cardinality(HierarchyCandidates),
                            Cardinality(hierarchy))} ELSE {})

-----------------------------------------------------------------------------
Fail(error, cause) ==
    /\ pc' = "answered"
    /\ outcome' = [error |-> error, cause |-> cause]

\* A caller's own budgets.
AskPack(r, p) ==
    /\ pc = "idle"
    /\ request' = r
    /\ policy' = p
    /\ pc' = "asked"
    /\ UNCHANGED <<content, status, faults, relations, universe, selected,
                   projection, pack, outcome>>

\* The routed operation: the profile's budgets, none above the limit.
Clamped(p, limit) ==
    LET Least(n) == Min({n, limit})
    IN  [p EXCEPT !.anchors = Least(@), !.hierarchy = Least(@),
                  !.tracking = Least(@), !.components = Least(@),
                  !.members = Least(@),
                  !.quotas = [c \in 0 .. 3 |-> IF c = 1 THEN Least(@[c]) ELSE @[c]],
                  !.maxFacts = Least(@), !.maxHierarchy = Least(@),
                  !.maxOverlays = Least(@), !.maxDescriptors = Least(@)]

AskRoute(r, limit) ==
    /\ pc = "idle"
    /\ request' = [r EXCEPT !.growth = TRUE, !.relation = FALSE]
    /\ policy' = Clamped(Profile, limit)
    /\ pc' = "asked"
    /\ UNCHANGED <<content, status, faults, relations, universe, selected,
                   projection, pack, outcome>>

\* The request and its budgets are admitted, the sources are planned.
BudgetRefused ==
    \E n \in {policy.anchors, policy.hierarchy, policy.tracking,
              policy.components, policy.members} : n > policy.productLimit

PairRefused == request.base = request.target

SourcesRefused == request.relation /\ ~policy.relationOverlay

Admit ==
    /\ pc = "asked"
    /\ IF BudgetRefused THEN Fail("RESOURCE", "PRODUCT_LIMIT")
       ELSE IF PairRefused THEN Fail("SOURCE", "PAIR_SAME")
       ELSE IF SourcesRefused THEN Fail("SOURCE", "REQUEST_POLICY_INCOMPATIBLE")
       ELSE pc' = "load base" /\ UNCHANGED outcome
    /\ UNCHANGED <<content, status, faults, request, policy, relations, universe,
                   selected, projection, pack>>

LoadError(s) ==
    CASE s = "missing" -> "SNAPSHOT_MISSING"
      [] s = "reuse" -> "SNAPSHOT_REUSE_SOURCE_INVALID"
      [] OTHER -> "SNAPSHOT_REPOSITORY_INVALID"

LoadBase ==
    /\ pc = "load base"
    /\ IF status[request.base] = "valid"
       THEN pc' = "load target" /\ UNCHANGED outcome
       ELSE Fail("SOURCE", LoadError(status[request.base]))
    /\ UNCHANGED <<content, status, faults, request, policy, relations, universe,
                   selected, projection, pack>>

LoadTarget ==
    /\ pc = "load target"
    /\ IF status[request.target] # "valid"
       THEN Fail("SOURCE", LoadError(status[request.target]))
       ELSE IF RecordedAt[request.base] > RecordedAt[request.target]
            THEN Fail("SOURCE", "PAIR_TEMPORAL_INVALID")
       ELSE pc' = "compute" /\ UNCHANGED outcome
    /\ UNCHANGED <<content, status, faults, request, policy, relations, universe,
                   selected, projection, pack>>

\* The diff, the growth and the relations verify both Snapshots again.
Compute(rs) ==
    /\ pc = "compute"
    /\ \A i \in DOMAIN rs : ToSet(rs[i].members) \subseteq Located
    /\ IF \A s \in {request.base, request.target} : status[s] = "valid"
       THEN /\ relations' = IF request.relation THEN rs ELSE <<>>
            /\ pc' = "select"
            /\ UNCHANGED outcome
       ELSE /\ Fail("INVARIANT", "V2A_RESULT_INCONSISTENT")
            /\ UNCHANGED relations
    /\ UNCHANGED <<content, status, faults, request, policy, universe, selected,
                   projection, pack>>

Select ==
    /\ pc = "select"
    /\ LET u == SelectSeq(Places, LAMBDA l : l \in Located /\ InRequest(l))
       IN  IF request.scope \notin ToSet(Scopes) \cup {AnyScope}
           THEN Fail("SOURCE", "SCOPE_UNKNOWN") /\ UNCHANGED <<universe, selected>>
           ELSE IF u = <<>> /\ request.prefix \notin {NoPrefix, <<>>}
                THEN /\ Fail("SOURCE", "PATH_PREFIX_INVALID")
                     /\ UNCHANGED <<universe, selected>>
           ELSE /\ universe' = u
                /\ selected' = SelectCandidates(u)
                /\ pc' = "present"
                /\ UNCHANGED outcome
    /\ UNCHANGED <<content, status, faults, request, policy, relations,
                   projection, pack>>

\* Hierarchy, overlays, anchors and accounting, then the final validation.
AccountsRefused(accounts) == \E a \in accounts : a.shown < 0 \/ a.rest < 0

\* A growth hierarchy that was asked for has at least its roots.
HierarchyRefused(nodes) == request.growth /\ nodes = {}

Present ==
    /\ pc = "present"
    /\ IF request.growth /\ policy.hierarchy < Cardinality(RequiredNodes)
       THEN /\ Fail("INVARIANT", "ACCOUNTING_DECOMPOSITION_UNSUPPORTED")
            /\ UNCHANGED projection
       ELSE LET nodes == IF request.growth THEN Hierarchy ELSE {}
                paid == PaidComponents(relations)
                overlays == [i \in DOMAIN paid |-> Overlay(paid[i])]
                accounts == Accounts(nodes, overlays)
            IN  IF AccountsRefused(accounts)
                THEN /\ Fail("INVARIANT", "ACCOUNTING_INVARIANT_VIOLATION")
                     /\ UNCHANGED projection
                ELSE IF HierarchyRefused(nodes)
                THEN /\ Fail("INVARIANT", "V2A_RESULT_INCONSISTENT")
                     /\ UNCHANGED projection
                ELSE /\ projection' =
                            [anchors |-> Anchors, hierarchy |-> nodes,
                             expanded |-> Expanded(nodes), overlays |-> overlays,
                             descriptors |-> Len(selected) + Cardinality(nodes)
                                                 + Len(overlays),
                             accounts |-> accounts]
                     /\ pc' = "packet"
                     /\ UNCHANGED outcome
    /\ UNCHANGED <<content, status, faults, request, policy, relations, universe,
                   selected, pack>>

\* Canonical order of the tracked items: those of the base Snapshot by path,
\* then the added ones by scope and path.
CanonicalTracking ==
    SelectSeq(PlacesByPath, LAMBDA l : l \in ToSet(selected) /\ Base(l) # NoEntry)
    \o SelectSeq(Places, LAMBDA l : l \in ToSet(selected) /\ Base(l) = NoEntry)

\* The packet of a pair takes no anchors: only its tracked items, hierarchy,
\* overlays and descriptors are trimmed, and only those are counted as omitted.
BuildPacket(nodes) ==
    /\ pc = "packet"
    /\ nodes \subseteq projection.hierarchy
    /\ Cardinality(nodes) = Min({policy.maxHierarchy, Cardinality(projection.hierarchy)})
    /\ LET tracking == SubSeq(CanonicalTracking, 1,
                              Min({policy.maxFacts, Len(selected)}))
           overlays == Min({policy.maxOverlays, Len(projection.overlays)})
           descriptors == Min({policy.maxDescriptors, projection.descriptors})
           Lost(category, n) == IF n > 0 THEN {[category |-> category, count |-> n]} ELSE {}
       IN  pack' = [tracking |-> tracking, hierarchy |-> nodes,
                    overlays |-> overlays, descriptors |-> descriptors,
                    omitted |->
                        Lost("TRACKING_ITEMS", Len(selected) - Len(tracking))
                        \cup Lost("HIERARCHY_ITEMS",
                                  Cardinality(projection.hierarchy) - Cardinality(nodes))
                        \cup Lost("OVERLAYS", Len(projection.overlays) - overlays)
                        \cup Lost("EXPANSION_DESCRIPTORS",
                                  projection.descriptors - descriptors)]
    /\ pc' = "provenance"
    /\ UNCHANGED <<content, status, faults, request, policy, relations, universe,
                   selected, projection, outcome>>

\* deviation: the provenance is taken from the projection
PublishUnchecked ==
    /\ pc = "provenance"
    /\ pc' = "published"
    /\ UNCHANGED <<content, status, faults, request, policy, relations, universe,
                   selected, projection, pack, outcome>>

\* The provenance of both Snapshots is verified, then the pack is published.
BadSources ==
    SelectSeq(<<request.base, request.target>>, LAMBDA s : status[s] # "valid")

Publish ==
    /\ pc = "provenance"
    /\ LET bad == BadSources
       IN  IF bad = <<>> THEN pc' = "published" /\ UNCHANGED outcome
           ELSE IF status[bad[1]] = "missing"
                THEN Fail("UNAVAILABLE", "SNAPSHOT_NOT_FOUND")
           ELSE Fail("SOURCE", "SNAPSHOT_REPOSITORY_INVALID")
    /\ UNCHANGED <<content, status, faults, request, policy, relations, universe,
                   selected, projection, pack>>

\* External: a Snapshot's Evidence, index row or reuse source goes bad.
Damage(s, what) ==
    /\ faults < MaxFaults
    /\ pc \notin {"idle", "answered", "published"}
    /\ status[s] = "valid"
    /\ status' = [status EXCEPT ![s] = what]
    /\ faults' = faults + 1
    /\ UNCHANGED <<content, pc, request, policy, relations, universe, selected,
                   projection, pack, outcome>>

Next ==
    \/ \E r \in Requests, p \in Policies : AskPack(r, p)
    \/ \E r \in Requests, n \in Limits : AskRoute(r, n)
    \/ Admit
    \/ LoadBase
    \/ LoadTarget
    \/ \E rs \in RelationResults : Compute(rs)
    \/ Select
    \/ Present
    \/ \E nodes \in SUBSET projection.hierarchy : BuildPacket(nodes)
    \/ Publish
    \/ \E s \in Ids, what \in {"reuse", "damaged", "missing"} : Damage(s, what)

Spec == Init /\ [][Next]_vars

NothingOmitted == pack.omitted = {}

-----------------------------------------------------------------------------
(* Properties *)

Presented == pc \in {"packet", "provenance", "published"}

\* The state is well formed: what is selected comes from the request and fits
\* the total of _select_candidates, a packet shows part of its projection.
TypeOK ==
    /\ \A s \in Ids : status[s] \in {"valid", "reuse", "damaged", "missing"}
    /\ faults \in 0 .. MaxFaults
    /\ ToSet(selected) \subseteq ToSet(universe)
    /\ Len(selected) <= policy.tracking
    /\ projection.expanded \subseteq projection.hierarchy
    /\ pack.hierarchy \subseteq projection.hierarchy
    /\ outcome.error \in {"none", "RESOURCE", "SOURCE", "INVARIANT", "UNAVAILABLE"}

\* _select_candidates: when the total pays for every scope's guarantee, every
\* scope of the request shows that many of its locations, or all it has.
ScopesAreHeard ==
    Presented /\ policy.tracking >= policy.minimum * Len(Scopes) =>
        \A s \in ToSet(Scopes) :
            LET has == {l \in ToSet(universe) : l[1] = s}
            IN  Cardinality(has \cap ToSet(selected))
                    >= Min({policy.minimum, Cardinality(has)})

\* What differs between the two Snapshots, by stat or by verified content, is
\* never left out of a request about everything while a location of which
\* nothing is to be said is shown, except as one of its scope's first.
ChangesComeFirst ==
    Presented /\ request.scope = AnyScope /\ request.prefix = NoPrefix
              /\ policy.quotas[0] >= policy.tracking =>
        \A l \in ToSet(universe) \ ToSet(selected), k \in ToSet(selected) :
            LET Differs == Base(l) # Target(l) /\ (Change(l) # "UNCHANGED"
                                \/ (Hashed(Base(l)) /\ Hashed(Target(l))))
                Quiet == Reasons(k, universe) = {}
                Guaranteed == k \in ToSet(FirstOfScopes(universe))
            IN  ~(Differs /\ Quiet /\ ~Guaranteed)

\* _hierarchy: every location shown can be reached from its scope's root
\* through directories that are shown and open.
ShownFromTheRoot ==
    Presented /\ request.growth =>
        \A l \in ToSet(selected) :
            LET above == {n \in Ancestors(l) :
                              n[2] = <<>> \/ PathSelected(n[2], request.prefix)}
            IN  above \subseteq projection.expanded

\* A projection about a scope or a prefix says nothing of another place: not
\* in what it tracks, quotes or lists as members of a relation.
NothingOutsideTheRequest ==
    Presented =>
        /\ \A l \in ToSet(selected) : InRequest(l)
        /\ \A a \in ToSet(projection.anchors) : InRequest(a[2])
        /\ \A o \in ToSet(projection.overlays) :
               \A l \in ToSet(o.shown) : InRequest(l)

\* A pack is published only while both its Snapshots verify: one that was
\* damaged or lost after the comparison is refused by the provenance.
PublishStep ==
    pc' = "published" /\ pc # "published" =>
        status[request.base] = "valid" /\ status[request.target] = "valid"

PublishesVerified == [][PublishStep]_vars

\* An admitted request with a budget too small for what it asks about is
\* answered, with what does not fit accounted for.
BudgetOverflowIsAnswered ==
    outcome.cause # "ACCOUNTING_DECOMPOSITION_UNSUPPORTED"

\* A pack that declares no omission holds all its projection held.
OmissionsAreDeclared ==
    pc = "published" /\ NothingOmitted =>
        /\ Len(pack.tracking) = Len(selected)
        /\ pack.hierarchy = projection.hierarchy
        /\ projection.anchors = <<>>

=============================================================================
