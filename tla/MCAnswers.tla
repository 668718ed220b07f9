------------------------------ MODULE MCAnswers ------------------------------
(***************************************************************************)
(* The components that answer questions and look at current files, on      *)
(* small instances.  As in MCStores a behaviour belongs to one part.       *)
(***************************************************************************)
EXTENDS Naturals, Sequences, SequencesExt, TLC

CONSTANTS c1, c2, c3,    \* calls of clients
          r1, r2,        \* Runs
          u1, u2,        \* turns of an agent
          t1, t2, t3,    \* tool uses of a turn
          clean, dirty,  \* what a workspace looks like
          NoAsk, NoPayload

VARIABLES part, v1, v2, v3, v4, v5, v6, v7, v8, v9, v10, v11, v12, v13, v14, v15

-----------------------------------------------------------------------------
(* SnapshotRelations: three paths, two of them in one Scope.                *)
PathScope == <<"s", "s", "t">>

Moves == INSTANCE SnapshotRelations WITH
    Scopes <- {"s", "t"}, Paths <- 1 .. 3, ScopeOf <- PathScope, Contents <- {1, 2},
    BirthKnown <- TRUE, Hashes <- {TRUE}, MaxScans <- 2, MaxChanges <- 3, MaxDamages <- 0,
    names <- v1, objects <- v2, clock <- v3, scans <- v4, visited <- v5

Gaps == INSTANCE SnapshotRelations WITH
    Scopes <- {"s", "t"}, Paths <- 1 .. 3, ScopeOf <- PathScope, Contents <- {1, 2},
    BirthKnown <- TRUE, Hashes <- {TRUE}, MaxScans <- 3, MaxChanges <- 2, MaxDamages <- 1,
    names <- v1, objects <- v2, clock <- v3, scans <- v4, visited <- v5

Facts == INSTANCE SnapshotRelations WITH
    Scopes <- {"s", "t"}, Paths <- 1 .. 3, ScopeOf <- PathScope, Contents <- {1, 2},
    BirthKnown <- FALSE, Hashes <- BOOLEAN, MaxScans <- 2, MaxChanges <- 2,
    MaxDamages <- 0,
    names <- v1, objects <- v2, clock <- v3, scans <- v4, visited <- v5

(* StorageViews: 1 is a root, 2 a directory or file in it, 3 below 2, 4     *)
(* below 3; 5 is a second root with 6 in it.                                *)
Above == <<1, 1, 2, 3, 5, 5>>

Growth == INSTANCE StorageViews WITH
    Locations <- 1 .. 6, Roots <- {1, 5}, Parent <- Above, Sizes <- {1},
    Others <- {"LINK", "EXCLUDED_DIRECTORY", "UNOBSERVED"}, MaxChanges <- 2, Limits <- {},
    base <- v1, target <- v2, changed <- v3, result <- v4, query <- v5, pages <- v6

Views == INSTANCE StorageViews WITH
    Locations <- 1 .. 5, Roots <- {1, 5}, Parent <- Above, Sizes <- {1, 2}, Others <- {},
    MaxChanges <- 1, Limits <- {1, 2},
    base <- v1, target <- v2, changed <- v3, result <- v4, query <- v5, pages <- v6

(* PairTracking: two Snapshots of two Scopes with three files, one of them  *)
(* two directories deep.                                                    *)
Snapshots == {"s1", "s2"}
RecordedAt == [s \in Snapshots |-> IF s = "s1" THEN 1 ELSE 2]
Deep == <<"a", <<"d", "e", "f">>>>
Flat == <<"a", <<"g">>>>
Other == <<"b", <<"f">>>>
Places == << <<"a", <<>>>>, <<"a", <<"d">>>>, <<"a", <<"d", "e">>>>, Deep, Flat, <<"b", <<>>>>, Other >>
PlacesByPath == << <<"a", <<>>>>, <<"b", <<>>>>, <<"a", <<"d">>>>, <<"a", <<"d", "e">>>>, Deep, Other, Flat >>
Entry(type, size, stat, payload) ==
    [type |-> type, size |-> size, stat |-> stat, readable |-> TRUE, payload |-> payload]
Directory == Entry("dir", 0, 0, "not a file")
Nothing == Entry("none", 0, 0, "none")
Plain == Entry("file", 2, 0, "x")
\* What may have become of a file between the Snapshots.
Stayed == <<Plain, Plain>>
Came == <<Nothing, Plain>>
Fates == {Stayed, Came, <<Plain, Nothing>>, <<Plain, Entry("file", 2, 0, "y")>>,
          <<Plain, Entry("file", 4, 1, "y")>>, <<Plain, Entry("file", 1000, 1, "unread")>>,
          <<Entry("file", 2, 0, "remote"), Entry("file", 2, 0, "remote")>>}
Recorded(deep, flat, other) ==
    [s \in Snapshots |-> [l \in ToSet(Places) |->
        LET side == RecordedAt[s]
        IN  CASE l = Deep -> deep[side] [] l = Flat -> flat[side] [] l = Other -> other[side]
              [] OTHER -> Directory]]
AllContents == {Recorded(x, y, z) : x \in Fates, y \in Fates, z \in {Stayed, Came}}
FewContents == {Recorded(x, Stayed, Stayed) : x \in Fates}
Related == {<<>>,
            << [kind |-> "RELATION", members |-> <<Deep, Other>>] >>,
            << [kind |-> "RELATION", members |-> <<Other, Flat>>],
               [kind |-> "AMBIGUITY", members |-> <<Deep, Flat, Other>>] >>}
Pair(bases, targets, scopes, prefixes, growth) ==
    [base : bases, target : targets, scope : scopes, prefix : prefixes, growth : growth,
     relation : BOOLEAN]
Everything == Pair({"s1"}, {"s2"}, {"any scope"}, {<<"no prefix">>}, {TRUE})
AtPlaces == Pair({"s1"}, {"s2"}, {"any scope", "a", "missing"},
                 {<<"no prefix">>, <<>>, <<"d">>, <<"x">>}, BOOLEAN)
AnyPair == Pair(Snapshots, Snapshots, {"any scope"}, {<<"no prefix">>}, {TRUE})
Budget(tracking, hierarchy, minimum, facts) ==
    [anchors |-> 3, hierarchy |-> hierarchy, tracking |-> tracking,
     components |-> 1, members |-> 1, minimum |-> minimum,
     quotas |-> [c \in 0 .. 3 |-> IF c = 1 THEN tracking ELSE 99],
     relationOverlay |-> TRUE, productLimit |-> 9,
     maxFacts |-> facts, maxHierarchy |-> hierarchy, maxOverlays |-> 1, maxDescriptors |-> 3]
Selecting == {Budget(t, 5, m, 2) : t \in {2, 3}, m \in 0 .. 2}
Placing == {Budget(t, h, 1, 2) : t \in {1, 3}, h \in {3, 5}}
Flawed == {Budget(3, 5, 1, 3), [Budget(3, 5, 1, 3) EXCEPT !.relationOverlay = FALSE],
           Budget(10, 5, 1, 3)}
Balanced == [Budget(4, 5, 1, 4) EXCEPT !.relationOverlay = FALSE]
BothScopes == <<"a", "b">>

Selection == INSTANCE PairTracking WITH
    Ids <- Snapshots, RecordedAt <- RecordedAt, Scopes <- BothScopes, Places <- Places,
    PlacesByPath <- PlacesByPath, Contents <- AllContents, RelationResults <- Related,
    Requests <- Everything, Policies <- Selecting, Profile <- Balanced, Limits <- {},
    MaxFaults <- 0,
    content <- v1, status <- v2, faults <- v3, pc <- v4, request <- v5, policy <- v6,
    relations <- v7, universe <- v8, selected <- v9, projection <- v10, pack <- v11,
    outcome <- v12

Placed == INSTANCE PairTracking WITH
    Ids <- Snapshots, RecordedAt <- RecordedAt, Scopes <- BothScopes, Places <- Places,
    PlacesByPath <- PlacesByPath, Contents <- FewContents, RelationResults <- Related,
    Requests <- AtPlaces, Policies <- Placing, Profile <- Balanced, Limits <- {4, 5},
    MaxFaults <- 0,
    content <- v1, status <- v2, faults <- v3, pc <- v4, request <- v5, policy <- v6,
    relations <- v7, universe <- v8, selected <- v9, projection <- v10, pack <- v11,
    outcome <- v12

Proven == INSTANCE PairTracking WITH
    Ids <- Snapshots, RecordedAt <- RecordedAt, Scopes <- BothScopes, Places <- Places,
    PlacesByPath <- PlacesByPath, Contents <- FewContents, RelationResults <- Related,
    Requests <- AnyPair, Policies <- Flawed, Profile <- Balanced, Limits <- {},
    MaxFaults <- 2,
    content <- v1, status <- v2, faults <- v3, pc <- v4, request <- v5, policy <- v6,
    relations <- v7, universe <- v8, selected <- v9, projection <- v10, pack <- v11,
    outcome <- v12

(* ContextPages: three Snapshots of one Scope.                              *)
Inside == SubSeq(Places, 1, 5)
Widths == [l \in ToSet(Inside) |-> IF l = Deep THEN 3 ELSE 1]
Sized(size) == [type |-> "file", size |-> size]
Opened == [type |-> "dir", size |-> 1000]
Tree(deep, flat) ==
    [l \in ToSet(Inside) |-> IF l = Deep THEN Sized(deep) ELSE IF l = Flat THEN Sized(flat) ELSE Opened]
Recordings == <<[governed |-> TRUE, files |-> Tree(1, 2)], [governed |-> TRUE, files |-> Tree(4, 1000)],
                [governed |-> TRUE, files |-> (<<"a", <<>>>> :> Opened) @@ (Flat :> Sized(2))]>>
Readings ==
    [profile : {"GENERAL", "STRUCTURE_OVERVIEW", "CHANGE_TRIAGE"}, question : {{}}, target : {0, 2},
     base : {0, 1}, scope : {"any scope"}, prefix : {<<"no prefix">>, <<"d">>}, limit : {2, 3}]

Followed == INSTANCE ContextPages WITH
    Recordings <- Recordings, Order <- Inside, Width <- Widths, Envelope <- 1,
    PageBytes <- 5, ReviewLimit <- 3, PacketFacts <- 8, Requests <- Readings,
    MaxDamage <- 1, MaxStrays <- 1, MaxPages <- 7,
    recorded <- v1, damaged <- v2, call <- v3, chain <- v4

(* DocumentRoute: every request that inspect_document lets through, on a    *)
(* document of one page; EvidencePages: AUTO evidence from a PDF of four.   *)
Formats == {"PDF", "EPUB", "DOCX", "XLSX", "PPTX", "IMAGE"}
ViewsOf == {"READ", "STRUCTURE", "TABLES", "FORMULAS"}
Inspections ==
    {r \in [format : Formats, profile : {"FAST", "AUTO", "DEEP", "ENRICHED"}, view : ViewsOf,
            intent : {"LOCATE", "EVIDENCE"} \cup ViewsOf, query : BOOLEAN, page : {0, 1}] :
        /\ r.page # 0 => r.intent = "EVIDENCE" /\ r.profile = "AUTO"
        /\ r.intent = "EVIDENCE" => r.query
        /\ r.intent \in ViewsOf \ {"READ"} => r.view = r.intent}
Documents == [large : BOOLEAN, low : {"NONE", "SOME", "MOST"}]
OnePage == [{"native", "deep", "ocr"} -> SUBSET {1}]
FourPages == {f \in [{"native", "deep", "ocr"} -> SUBSET (1 .. 4)] :
                 f["ocr"] = {} /\ f["deep"] = f["native"]}
Evidence == {[format |-> "PDF", profile |-> "AUTO", view |-> "READ", intent |-> "EVIDENCE",
              query |-> TRUE, page |-> 0]}

Routed == INSTANCE DocumentRoute WITH
    Requests <- Inspections, Pages <- {1}, MaxTargetedPages <- 1, Finds <- OnePage,
    Shapes <- Documents, Failures <- {"TIMEOUT"},
    Qualities <- {"SUFFICIENT", "INSUFFICIENT"},
    req <- v1, shape <- v2, found <- v3, pc <- v4, attempts <- v5, selected <- v6,
    named <- v7, target <- v8

Sliced == INSTANCE EvidencePages WITH
    Requests <- Evidence, Pages <- 1 .. 4, MaxTargetedPages <- 4, Finds <- FourPages,
    Shapes <- {[large |-> l, low |-> "NONE"] : l \in BOOLEAN}, Failures <- {"TIMEOUT"},
    Qualities <- {"SUFFICIENT"}, Limit <- 4, Slices <- {1, 2, 4}, Context <- 0,
    FactLimit <- 4,
    req <- v1, shape <- v2, found <- v3, pc <- v4, attempts <- v5, selected <- v6,
    named <- v7, target <- v8, offset <- v9, link <- v10, shown <- v11, covered <- v12,
    firstMap <- v13

(* DocumentAdmission: a plain document among writers, a medium of a file    *)
(* system that keeps the time of a write, archives of each kind, sound or   *)
(* with one flaw.                                                           *)
PlainFile == {[archive |-> FALSE, parts |-> {}, over |-> {}]}

Document == INSTANCE DocumentAdmission WITH
    MaxChunks <- 2, MaxWrites <- 3, MaxCalls <- 2, KeepsMtime <- FALSE, IsMedia <- FALSE,
    Containers <- PlainFile,
    path <- v1, inodes <- v2, clock <- v3, pc <- v4, media <- v5, before <- v6, fd <- v7,
    staged <- v8, container <- v9, pinned <- v10, pages <- v11, calls <- v12,
    contents <- v13

Medium == INSTANCE DocumentAdmission WITH
    MaxChunks <- 2, MaxWrites <- 2, MaxCalls <- 2, KeepsMtime <- TRUE, IsMedia <- TRUE,
    Containers <- PlainFile,
    path <- v1, inodes <- v2, clock <- v3, pc <- v4, media <- v5, before <- v6, fd <- v7,
    staged <- v8, container <- v9, pinned <- v10, pages <- v11, calls <- v12,
    contents <- v13

Epub == {"mimetype", "container.xml", "package"}
ArchiveParts ==
    {Epub, Epub \ {"package"}, Epub \ {"container.xml"}, Epub \cup {"encryption.xml"}, {},
     {"mimetype", "word/document.xml"}, {"[Content_Types].xml", "word/document.xml", "macros"},
     {"[Content_Types].xml", "word/document.xml", "xl/workbook.xml"}}
    \cup {{"[Content_Types].xml", p} : p \in Document!OfficeParts}
    \cup {{p} : p \in Document!OfficeParts}
Archives ==
    [archive : {TRUE}, parts : ArchiveParts,
     over : {{}, {"source"}} \cup {{f} : f \in Document!SafetyChecks}]
    \cup [archive : {FALSE}, parts : {{}}, over : {{}, {"source"}}]

Contained == INSTANCE DocumentAdmission WITH
    MaxChunks <- 2, MaxWrites <- 1, MaxCalls <- 1, KeepsMtime <- FALSE, IsMedia <- FALSE,
    Containers <- Archives,
    path <- v1, inodes <- v2, clock <- v3, pc <- v4, media <- v5, before <- v6, fd <- v7,
    staged <- v8, container <- v9, pinned <- v10, pages <- v11, calls <- v12,
    contents <- v13

(* TemporalRelation: one file among writers, and two that change places.    *)
Relation == INSTANCE TemporalRelation WITH
    MaxWrites <- 3, Swaps <- FALSE,
    slot <- v1, active <- v2, readable <- v3, inodes <- v4, clock <- v5, pc <- v6,
    include <- v7, historical <- v8, second <- v9, dir <- v10, before <- v11,
    current <- v12, content <- v13, relation <- v14, during <- v15

Swapped == INSTANCE TemporalRelation WITH
    MaxWrites <- 3, Swaps <- TRUE,
    slot <- v1, active <- v2, readable <- v3, inodes <- v4, clock <- v5, pc <- v6,
    include <- v7, historical <- v8, second <- v9, dir <- v10, before <- v11,
    current <- v12, content <- v13, relation <- v14, during <- v15

(* VideoTimeline: eight moments with matches, segments and cuts.            *)
SomeCues == {<<0, 1>>, <<2, 3>>, <<5, 5>>, <<7, 8>>}
SomeSegments == {<<1, 2>>, <<4, 6>>}
SomeCuts == {1, 2, 5, 6}

Timeline == INSTANCE VideoTimeline WITH
    Duration <- 8, Window <- 4, AudioWindow <- 5, Padding <- 1, MaxMatches <- 4,
    MaxDecode <- 2, MaxAnchors <- 2, MaxFrames <- 3, MaxOcr <- 2, MaxScenes <- 4,
    Cues <- SomeCues, Segments <- SomeSegments, Cuts <- SomeCuts,
    query <- v1, ocr <- v2, start <- v3, cues <- v4, speech <- v5, audio <- v6, cuts <- v7,
    pc <- v8, anchors <- v9, heard <- v10, windows <- v11, scans <- v12, frames <- v13,
    ocrFrames <- v14, warnings <- v15

(* DocumentCollection: the one document that a query is to find among four. *)
Named == {"report", "slides", "scan", "notes"}
AllPdf == [n \in Named |-> "PDF"]
BestIsReport == [n \in Named |-> IF n = "report" THEN 0 ELSE 2]

Uniquely == INSTANCE DocumentCollection WITH
    Name <- Named, Suffix <- AllPdf, Rank <- BestIsReport,
    Matching <- {"report", "slides", "scan"}, MaxDocuments <- 3, BatchSize <- 2,
    Limits <- {2}, Partial <- FALSE, Modes <- {"one"}, MaxChanges <- 2,
    mode <- v1, file <- v2, recorded <- v3, changes <- v4, pc <- v5, limit <- v6,
    plan <- v7, matched <- v8, whole <- v9, token <- v10, index <- v11, identity <- v12,
    items <- v13, got <- v14, selected <- v15

(* CodeExecution: a target, a file of high risk, a protected one and one    *)
(* that git ignores.                                                        *)
Tree4 == {"main", "config", "evidence", "output"}
AtFirst == [p \in Tree4 |-> IF p \in {"main", "evidence"} THEN 1 ELSE 0]
OwnSize == [v \in 1 .. 2 |-> v]

Edited == INSTANCE CodeExecution WITH
    Path <- Tree4, Original <- AtFirst, Target <- {"main"}, Protected <- {"evidence"},
    Ignored <- {"output"}, Large <- {}, HighRisk <- {"config"}, Version <- 0 .. 2,
    Size <- OwnSize, Operations <- {"write", "add", "commit", "sidecar"},
    CommitsInside <- FALSE, MaxRecords <- 2, MaxEdits <- 2,
    head <- v1, index <- v2, work <- v3, commit <- v4, detached <- v5, sidecar <- v6,
    edits <- v7, pc <- v8, phase <- v9, made <- v10, unread <- v11, baseline <- v12,
    packet <- v13, before <- v14, after <- v15

Renamed == INSTANCE CodeExecution WITH
    Path <- Tree4, Original <- AtFirst, Target <- {"main"}, Protected <- {"evidence"},
    Ignored <- {"output"}, Large <- {}, HighRisk <- {"config"}, Version <- 0 .. 2,
    Size <- OwnSize, Operations <- {"write", "move", "detach"}, CommitsInside <- FALSE,
    MaxRecords <- 3, MaxEdits <- 2,
    head <- v1, index <- v2, work <- v3, commit <- v4, detached <- v5, sidecar <- v6,
    edits <- v7, pc <- v8, phase <- v9, made <- v10, unread <- v11, baseline <- v12,
    packet <- v13, before <- v14, after <- v15

(* HostHooks: tools of a turn at once, two turns, and faults.               *)
Hooked == INSTANCE HostHooks WITH
    Turn <- {u1}, Tool <- {t1, t2, t3}, State <- {clean, dirty}, Clean <- clean,
    KeyAtStart <- TRUE, MaxEvents <- 2, MaxMisses <- 0,
    key <- v1, repo <- v2, hook <- v3, stop <- v4, turn <- v5, handoff <- v6, clock <- v7,
    receipts <- v8, blocks <- v9, before <- v10, misses <- v11

Turns == INSTANCE HostHooks WITH
    Turn <- {u1, u2}, Tool <- {t1}, State <- {clean, dirty}, Clean <- clean,
    KeyAtStart <- TRUE, MaxEvents <- 2, MaxMisses <- 0,
    key <- v1, repo <- v2, hook <- v3, stop <- v4, turn <- v5, handoff <- v6, clock <- v7,
    receipts <- v8, blocks <- v9, before <- v10, misses <- v11

Missed == INSTANCE HostHooks WITH
    Turn <- {u1}, Tool <- {t1, t2}, State <- {clean, dirty}, Clean <- clean,
    KeyAtStart <- FALSE, MaxEvents <- 2, MaxMisses <- 1,
    key <- v1, repo <- v2, hook <- v3, stop <- v4, turn <- v5, handoff <- v6, clock <- v7,
    receipts <- v8, blocks <- v9, before <- v10, misses <- v11

(* The servers: calls of two Runs, three calls for two places.              *)
Native == INSTANCE NativeDispatcher WITH
    Call <- {c1, c2}, Run <- {r1, r2}, Endless <- FALSE,
    tool <- v1, target <- v2, phase <- v3, thread <- v4, outcome <- v5, answer <- v6,
    lock <- v7, store <- v8, seen <- v9

Bounded == INSTANCE McpDispatcher WITH
    Call <- {c1, c2, c3}, MaxConcurrent <- 2,
    phase <- v1, thread <- v2, outcome <- v3, answer <- v4, active <- v5

(* ContextRoute: few requests and three calls, or one call of any request.  *)
Ask == INSTANCE ContextRoute WITH
    Call <- {c1}, Request <- {}, NoRequest <- NoAsk, NoPayload <- NoPayload,
    request <- v1, phase <- v2, consumed <- v3, accesses <- v4, answer <- v5
FewRequests ==
    {r \in Ask!Requests : r.operation = Ask!Explanation /\ r.snapshots = 2 /\ ~r.repeated /\ ~r.path}
    \cup {r \in Ask!Requests : r.operation = Ask!Diagnostic /\ r.snapshots = 1 /\ r.bounds /\ r.scope}

Granted == INSTANCE ContextRoute WITH
    Call <- {c1, c2, c3}, Request <- FewRequests, NoRequest <- NoAsk,
    NoPayload <- NoPayload,
    request <- v1, phase <- v2, consumed <- v3, accesses <- v4, answer <- v5

Enveloped == INSTANCE ContextRoute WITH
    Call <- {c1}, Request <- Ask!Requests, NoRequest <- NoAsk, NoPayload <- NoPayload,
    request <- v1, phase <- v2, consumed <- v3, accesses <- v4, answer <- v5

(* AgentTurn: calls of every tool, sound and flawed.                        *)
Callable == {"page", "diff", "dir", "read", "echo", "none", "badArgs", "badScope"}
ToolOf == [c \in Callable |->
    CASE c = "page" -> "page"
      [] c = "diff" -> "diff"
      [] c \in {"dir", "badArgs"} -> "directory"
      [] c \in {"read", "badScope"} -> "content"
      [] c = "echo" -> "synthetic"
      [] c = "none" -> "unknown"]
FlawOf == [c \in Callable |->
    CASE c = "badArgs" -> "schema" [] c = "badScope" -> "scope" [] OTHER -> "none"]

Turn == INSTANCE AgentTurn WITH
    Calls <- Callable, ToolOf <- ToolOf, FlawOf <- FlawOf, MaxBatch <- 2,
    MaxModelCalls <- 2, MaxToolCalls <- 3, MaxFilesystemCalls <- 2, MaxSerialized <- 3,
    MaxContent <- 2, MaxSharedCalls <- 2, MaxSharedItems <- 3, MaxSharedSerialized <- 2,
    pc <- v1, batch <- v2, results <- v3, messages <- v4, signatures <- v5, traces <- v6,
    usage <- v7, shared <- v8, outcome <- v9

-----------------------------------------------------------------------------
(* What a part leaves alone.                                                *)
After13 == <<v14, v15>>
After12 == <<v13, After13>>
After11 == <<v12, After12>>
After9 == <<v10, v11, After11>>
After8 == <<v9, After9>>
After6 == <<v7, v8, After8>>
After5 == <<v6, After6>>
After4 == <<v5, After5>>

Off13 == v14 = "off" /\ v15 = "off"
Off12 == v13 = "off" /\ Off13
Off11 == v12 = "off" /\ Off12
Off9 == v10 = "off" /\ v11 = "off" /\ Off11
Off8 == v9 = "off" /\ Off9
Off6 == v7 = "off" /\ v8 = "off" /\ Off8
Off5 == v6 = "off" /\ Off6
Off4 == v5 = "off" /\ Off5

Init ==
    \/ part = "moves" /\ Moves!RelationsInit /\ Off5
    \/ part = "gaps" /\ Gaps!RelationsInit /\ Off5
    \/ part = "facts" /\ Facts!RelationsInit /\ Off5
    \/ part = "growth" /\ Growth!ViewsInit /\ Off6
    \/ part = "pages" /\ Views!ViewsInit /\ Off6
    \/ part = "selection" /\ Selection!Init /\ Off12
    \/ part = "places" /\ Placed!Init /\ Off12
    \/ part = "provenance" /\ Proven!Init /\ Off12
    \/ part = "context pages" /\ Followed!Init /\ Off4
    \/ part = "document route" /\ Routed!RouteInit /\ Off8
    \/ part = "evidence slices" /\ Sliced!EvidenceInit /\ Off13
    \/ part = "document" /\ Document!AdmissionInit /\ Off13
    \/ part = "medium" /\ Medium!AdmissionInit /\ Off13
    \/ part = "archives" /\ Contained!AdmissionInit /\ Off13
    \/ part = "relation" /\ Relation!RelationInit
    \/ part = "swaps" /\ Swapped!RelationInit
    \/ part = "timeline" /\ Timeline!TimelineInit
    \/ part = "unique document" /\ Uniquely!CollectionInit
    \/ part = "code edits" /\ Edited!CodeInit
    \/ part = "code moves" /\ Renamed!CodeInit
    \/ part = "hook events" /\ Hooked!Init /\ Off11
    \/ part = "hook turns" /\ Turns!Init /\ Off11
    \/ part = "hook faults" /\ Missed!Init /\ Off11
    \/ part = "native" /\ Native!Init /\ Off9
    \/ part = "places of calls" /\ Bounded!Init /\ Off5
    \/ part = "grants" /\ Granted!Init /\ Off5
    \/ part = "envelopes" /\ Enveloped!Init /\ Off5
    \/ part = "agent turn" /\ Turn!TurnInit /\ Off9

MovesPart == part = "moves" /\ Moves!RelationsNext /\ UNCHANGED <<part, After5>>
GapsPart == part = "gaps" /\ Gaps!RelationsNext /\ UNCHANGED <<part, After5>>
FactsPart == part = "facts" /\ Facts!RelationsNext /\ UNCHANGED <<part, After5>>
GrowthPart == part = "growth" /\ Growth!ViewsNext /\ UNCHANGED <<part, After6>>
ViewsPart == part = "pages" /\ Views!ViewsNext /\ UNCHANGED <<part, After6>>
SelectionPart == part = "selection" /\ Selection!Next /\ UNCHANGED <<part, After12>>
PlacedPart == part = "places" /\ Placed!Next /\ UNCHANGED <<part, After12>>
ProvenPart == part = "provenance" /\ Proven!Next /\ UNCHANGED <<part, After12>>
FollowedPart == part = "context pages" /\ Followed!Next /\ UNCHANGED <<part, After4>>
RoutedPart == part = "document route" /\ Routed!RouteStep /\ UNCHANGED <<part, After8>>
SlicedPart == part = "evidence slices" /\ Sliced!EvidenceNext /\ UNCHANGED <<part, After13>>
DocumentPart == part = "document" /\ Document!AdmissionNext /\ UNCHANGED <<part, After13>>
MediumPart == part = "medium" /\ Medium!AdmissionNext /\ UNCHANGED <<part, After13>>
ContainedPart == part = "archives" /\ Contained!AdmissionNext /\ UNCHANGED <<part, After13>>
RelationPart == part = "relation" /\ Relation!RelationNext /\ UNCHANGED part
SwappedPart == part = "swaps" /\ Swapped!RelationNext /\ UNCHANGED part
TimelinePart == part = "timeline" /\ Timeline!TimelineNext /\ UNCHANGED part
UniquelyPart == part = "unique document" /\ Uniquely!CollectionNext /\ UNCHANGED part
EditedPart == part = "code edits" /\ Edited!CodeNext /\ UNCHANGED part
RenamedPart == part = "code moves" /\ Renamed!CodeNext /\ UNCHANGED part
HookedPart == part = "hook events" /\ Hooked!Next /\ UNCHANGED <<part, After11>>
TurnsPart == part = "hook turns" /\ Turns!Next /\ UNCHANGED <<part, After11>>
MissedPart == part = "hook faults" /\ Missed!Next /\ UNCHANGED <<part, After11>>
NativePart == part = "native" /\ Native!Next /\ UNCHANGED <<part, After9>>
BoundedPart == part = "places of calls" /\ Bounded!Next /\ UNCHANGED <<part, After5>>
GrantedPart == part = "grants" /\ Granted!Next /\ UNCHANGED <<part, After5>>
EnvelopedPart == part = "envelopes" /\ Enveloped!Next /\ UNCHANGED <<part, After5>>
TurnPart == part = "agent turn" /\ Turn!TurnNext /\ UNCHANGED <<part, After9>>

Next ==
    \/ MovesPart \/ GapsPart \/ FactsPart \/ GrowthPart \/ ViewsPart \/ SelectionPart
    \/ PlacedPart \/ ProvenPart \/ FollowedPart \/ RoutedPart \/ SlicedPart \/ DocumentPart
    \/ MediumPart \/ ContainedPart \/ RelationPart \/ SwappedPart \/ TimelinePart
    \/ UniquelyPart \/ EditedPart \/ RenamedPart \/ HookedPart \/ TurnsPart \/ MissedPart
    \/ NativePart \/ BoundedPart \/ GrantedPart \/ EnvelopedPart \/ TurnPart

(* What the theorems assume of the constants holds here.                    *)
ASSUME HypothesesHold ==
    /\ Native!NamesAreFree /\ Bounded!MaxIsPositive
    /\ Granted!RequestsAreTyped /\ Granted!NamesAreFree
    /\ Enveloped!RequestsAreTyped /\ Enveloped!NamesAreFree

vars == <<part, v1, v2, v3, v4, v5, v6, v7, v8, v9, v10, v11, v12, v13, v14, v15>>

Spec == Init /\ [][Next]_vars

-----------------------------------------------------------------------------
(* Every component keeps its types.                                         *)
AnswersTypeOK ==
    /\ part = "moves" => Moves!RelationsTypeOK
    /\ part = "gaps" => Gaps!RelationsTypeOK
    /\ part = "selection" => Selection!TypeOK
    /\ part = "places" => Placed!TypeOK
    /\ part = "provenance" => Proven!TypeOK
    /\ part = "context pages" => Followed!TypeOK
    /\ part = "document route" => Routed!RouteTypeOK
    /\ part = "evidence slices" => Sliced!EvidenceTypeOK
    /\ part = "document" => Document!AdmissionTypeOK
    /\ part = "medium" => Medium!AdmissionTypeOK
    /\ part = "archives" => Contained!AdmissionTypeOK
    /\ part = "relation" => Relation!RelationTypeOK
    /\ part = "timeline" => Timeline!TimelineTypeOK
    /\ part = "unique document" => Uniquely!CollectionTypeOK
    /\ part = "code edits" => Edited!CodeTypeOK
    /\ part = "code moves" => Renamed!CodeTypeOK
    /\ part = "hook events" => Hooked!HookTypeOK
    /\ part = "hook turns" => Turns!HookTypeOK
    /\ part = "hook faults" => Missed!HookTypeOK
    /\ part = "native" => Native!NativeTypeOK
    /\ part = "places of calls" => Bounded!McpTypeOK
    /\ part = "grants" => Granted!RouteTypeOK
    /\ part = "envelopes" => Enveloped!RouteTypeOK
    /\ part = "agent turn" => Turn!TurnTypeOK

(* A move or link candidate is one object with one content seen under       *)
(* different names; an unchanged object that only has a new name is found,  *)
(* and a file with several names never guessed to be one; continuity is     *)
(* said of objects nobody wrote in between, and redundant bytes are never   *)
(* overstated.                                                              *)
RelationsAreTrue ==
    /\ part = "moves" => Moves!CandidatesAreOneObject /\ Moves!MovesAreFound /\ Moves!LinksAreNotMoves
    /\ part = "gaps" => Gaps!MovesAreFound
    /\ part = "facts" => Facts!ContinuityIsFact /\ Facts!NothingOverstated

(* A node of the structure counts what is below it; the growth of a         *)
(* directory is the difference of its two structures, though files become   *)
(* directories; the pages of a query give every node it selects once, in    *)
(* the order of the rank.                                                   *)
ViewsAddUp ==
    /\ part = "growth" => Growth!StructureSumsUp /\ Growth!GrowthReconciles
    /\ part = "pages" => Views!PagesAreTheView

(* Every Scope of the request shows as many locations as it is guaranteed;  *)
(* what differs is never left out while something unremarkable is shown;    *)
(* every location shown can be reached from the root through directories    *)
(* that are shown; and nothing is said of another place.                    *)
SelectionsAreFair ==
    /\ part = "selection" => Selection!ScopesAreHeard /\ Selection!ChangesComeFirst
    /\ part = "places" => Placed!ShownFromTheRoot /\ Placed!NothingOutsideTheRequest

(* Who follows continuations to the end has read every value once and in    *)
(* order; who only read the packets has had every value unless told; a      *)
(* conversation that has ended has published every match; a document read   *)
(* as the one match is the only one; and a video analysis without a warning *)
(* has decoded all it planned, within one request's frames.                 *)
ReadersMissNothing ==
    /\ part = "context pages" => Followed!WholeWhenFinished /\ Followed!PacketsSufficeUnlessTold
    /\ part = "evidence slices" => Sliced!MatchesShown
    /\ part = "timeline" => Timeline!MatchesAreDecoded /\ Timeline!FramesAreShared /\ Timeline!NothingMissingUnsaid
    /\ part = "unique document" => Uniquely!UniqueIsUnique

(* The bytes of a published page are bytes the file had at one time; the    *)
(* pages of one sequence are of one source; what reaches a parser is within *)
(* every bound of its container; the best completed attempt is the one      *)
(* returned, and a kept parse answers only what it fits; what a relation    *)
(* says of the current side is of one state the path had during the call.   *)
DocumentsAreTrue ==
    /\ part = "document" => Document!NoTornPage /\ Document!OneSourcePerSequence
    /\ part = "medium" => Medium!NoTornPage
    /\ part = "archives" => Contained!OnlySafeContainersParsed
    /\ part = "document route" => Routed!CompletedIsReturned /\ Routed!EvidenceIsKept /\ Routed!CachedParseFits
    /\ part = "relation" => Relation!RelationOfOneState /\ Relation!FailureIsReal /\ Relation!ClaimsAreTrue
    /\ part = "swaps" => Swapped!RelationOfOneState

(* NO_NET_CHANGE is said only of a work tree in which no path surely        *)
(* changed; a path outside the targets, a protected one, or one of high     *)
(* risk that surely changed is reported as what it is.                      *)
ChangesAreReported ==
    /\ part = "code edits" => Edited!NoNetChangeIsTrue /\ Edited!DriftIsReported /\ Edited!ProtectedIsReported /\ Edited!RiskIsReviewed
    /\ part = "code moves" => Renamed!NoNetChangeIsTrue

(* A receipt names every tool use of the turn once, with its result, up to  *)
(* the bound on events; the state before the turn is one the workspace had  *)
(* before any of them; and a turn asks for one continuation at most.        *)
ReceiptsAreTrue ==
    /\ part = "hook events" => Hooked!ReceiptComplete
    /\ part = "hook turns" => Turns!ReceiptTruthful
    /\ part = "hook faults" => Missed!OneDelivery

(* Abandoned or not, no operation of the native server meets a Run another  *)
(* thread is writing, and an OK is durable; no more operations run at once  *)
(* than there are places, and every call that ran gives its place back,     *)
(* however it ends (the place of a call left before a worker took it stays  *)
(* lost); the product is asked once for each grant and an envelope carries  *)
(* what it must; a turn executes each call once, within its limits, and     *)
(* answers all of them.                                                     *)
CallsAreSound ==
    /\ part = "native" => Native!CallsAreSound
    /\ part = "places of calls" => Bounded!CallsAreSound
    /\ part = "grants" => Granted!CallsAreSound
    /\ part = "envelopes" => Enveloped!CallsAreSound
    /\ part = "agent turn" => Turn!CallsAreSound

(* A pack is published only while both its Snapshots verify.                *)
PublishesVerified ==
    [][part = "provenance" => Proven!PublishStep]_vars

=============================================================================
