------------------------------- MODULE MCStores -------------------------------
(***************************************************************************)
(* The components that keep or read the local stores, on small instances.  *)
(* They share no state here, so a behaviour belongs to one part, which     *)
(* Init chooses: the part's component runs in the variables v1, v2, ..,    *)
(* and the variables it does not need are "off".                           *)
(***************************************************************************)
EXTENDS Naturals, Sequences, TLC

CONSTANTS p1, p2,    \* processes
          r1,        \* a Run
          home, work, \* Scopes
          Nobody

VARIABLES part, v1, v2, v3, v4, v5, v6, v7, v8, v9, v10, v11

-----------------------------------------------------------------------------
(* IndexMaintenance: writers, backup and rollback with deaths; then guarded *)
(* readers among every command that writes or replaces the index.           *)
Files == INSTANCE IndexMaintenance WITH
    Process <- {p1, p2}, Run <- {r1}, NoProc <- Nobody, MaxFile <- 3,
    Commands <- {"write", "backup", "rollback", "install"}, MaxDeaths <- 1, Serial <- TRUE,
    name <- v1, file <- v2, walAt <- v3, wal <- v4, conn <- v5, evidence <- v6, tmp <- v7,
    backup <- v8, op <- v9, deaths <- v10, refused <- v11

Reads == INSTANCE IndexMaintenance WITH
    Process <- {p1, p2}, Run <- {r1}, NoProc <- Nobody, MaxFile <- 2,
    Commands <- {"write", "read", "handoff", "rebuild", "init", "discard"}, MaxDeaths <- 0,
    Serial <- TRUE,
    name <- v1, file <- v2, walAt <- v3, wal <- v4, conn <- v5, evidence <- v6, tmp <- v7,
    backup <- v8, op <- v9, deaths <- v10, refused <- v11

(* SchemaSetup: three processes initialize or migrate the index.            *)
Setup == INSTANCE SchemaSetup WITH
    Processes <- 1 .. 3, Legacy <- BOOLEAN, Patient <- FALSE, MaxDeaths <- 2,
    exists <- v1, tables <- v2, records <- v3, lock <- v4, op <- v5, logged <- v6,
    backup <- v7, deaths <- v8

(* PayloadReuse: scans of a file that is written and replaced; scans that   *)
(* die and Evidence that is damaged; three scans of one file.               *)
Payloads == INSTANCE PayloadReuse WITH
    Paths <- 1, MaxScans <- 2, MaxInode <- 2, MaxClock <- 1, FineClock <- TRUE,
    MaxHarm <- 0,
    clock <- v1, inodes <- v2, names <- v3, held <- v4, scans <- v5

Damaged == INSTANCE PayloadReuse WITH
    Paths <- 1, MaxScans <- 2, MaxInode <- 1, MaxClock <- 0, FineClock <- TRUE,
    MaxHarm <- 2,
    clock <- v1, inodes <- v2, names <- v3, held <- v4, scans <- v5

Chained == INSTANCE PayloadReuse WITH
    Paths <- 1, MaxScans <- 3, MaxInode <- 1, MaxClock <- 0, FineClock <- TRUE,
    MaxHarm <- 0,
    clock <- v1, inodes <- v2, names <- v3, held <- v4, scans <- v5

(* FilesystemScan: 1 is the top; 2 and 6 directories in it; 3 a directory   *)
(* in 2 with the file 4; 5 a file in 2; 7 a file in 6; 8 STEWARD's data     *)
(* directory.  First every configuration, then two scans of one Scope at 2, *)
(* whose directory 3 is plain or excluded.                                  *)
Inside == <<1, 1, 2, 3, 2, 1, 6, 1>>
Folders == {1, 2, 3, 6, 8}
Configurations ==
    {roles \in [1 .. 8 -> {"none", "managed", "reference", "excluded"}] :
        \A n \in {1, 4, 5, 7, 8} : roles[n] = "none"}
OneScope ==
    {roles \in Configurations : roles[2] = "managed" /\ roles[3] \in {"none", "excluded"}
                               /\ roles[6] = "none"}
Unlimited == [entries |-> 100, depth |-> 100, bytes |-> 100]
Shallow == [Unlimited EXCEPT !.depth = 1]
ScanBudgets == {Unlimited, Shallow, [Unlimited EXCEPT !.entries = 1],
                [Unlimited EXCEPT !.entries = 3], [Unlimited EXCEPT !.bytes = 1]}

Scan == INSTANCE FilesystemScan WITH
    Nodes <- 1 .. 8, Parent <- Inside, Directories <- Folders, Mounted <- {6},
    Internal <- {8}, Configurations <- Configurations, Budgets <- ScanBudgets,
    MaxScans <- 1, MaxChanges <- 1,
    roles <- v1, present <- v2, changes <- v3, scans <- v4

Review == INSTANCE FilesystemScan WITH
    Nodes <- 1 .. 8, Parent <- Inside, Directories <- Folders, Mounted <- {},
    Internal <- {8}, Configurations <- OneScope, Budgets <- {Unlimited, Shallow},
    MaxScans <- 2, MaxChanges <- 1,
    roles <- v1, present <- v2, changes <- v3, scans <- v4

(* SnapshotFacts: a root with a directory "D", a file "D/f" and a file "d"  *)
(* whose name differs in case only and that is excluded, and an empty       *)
(* second root, all of it damaged in every way; then three files and the    *)
(* hashing budgets.                                                         *)
Upper == <<"d", "upper">>
Lower == <<"d", "lower">>
Leaf == <<"f", "lower">>
Object(s, p, t, internal) == [scope |-> s, path |-> p, type |-> t, internal |-> internal]
Objects == <<Object(1, <<>>, "directory", FALSE), Object(1, <<Upper>>, "directory", FALSE),
             Object(1, <<Upper, Leaf>>, "regular_file", FALSE),
             Object(1, <<Lower>>, "regular_file", TRUE), Object(2, <<>>, "directory", FALSE)>>
ThreeFiles == <<Object(1, <<Upper>>, "regular_file", FALSE),
                Object(1, <<Leaf>>, "regular_file", FALSE),
                Object(2, <<Leaf>>, "regular_file", FALSE)>>
Prefixes == {<<>>, <<Upper>>, <<Lower>>, <<Upper, Leaf>>}

Facts == INSTANCE SnapshotFacts WITH
    Objects <- Objects, Requests <- {<<1>>, <<1, 2>>, <<1, 1>>}, Snapshots <- {1},
    Versions <- {1, 2}, Sizes <- {0, 1}, MaxFile <- 2, MaxTotal <- 2,
    Localities <- {"LOCAL"}, PathPrefixes <- Prefixes, Limits <- {1, 2, 3},
    MaxChanges <- 0, MaxFaults <- 1,
    tree <- v1, odd <- v2, work <- v3, runs <- v4, files <- v5, rows <- v6, harm <- v7,
    changes <- v8, faults <- v9

Hashing == INSTANCE SnapshotFacts WITH
    Objects <- ThreeFiles, Requests <- {<<1, 2>>}, Snapshots <- {1}, Versions <- {2},
    Sizes <- {2}, MaxFile <- 2, MaxTotal <- 3, Localities <- {"LOCAL", "NON_LOCAL"},
    PathPrefixes <- {<<>>}, Limits <- {2}, MaxChanges <- 1, MaxFaults <- 0,
    tree <- v1, odd <- v2, work <- v3, runs <- v4, files <- v5, rows <- v6, harm <- v7,
    changes <- v8, faults <- v9

(* StorageHealth: two Runs and what happens to their files and rows.        *)
Health == INSTANCE StorageHealth WITH
    Runs <- 1 .. 2, MaxFaults <- 2,
    writer <- v1, ledger <- v2, facts <- v3, index <- v4, tmp <- v5, faults <- v6,
    rebuilt <- v7

(* SnapshotSelection: questions about one Snapshot or the default pair;     *)
(* reviews of one of two Scopes; refreshes.                                 *)
Latest == [policy |-> "LATEST_VALID", id |-> 0]
First == [policy |-> "EXACT_ID", id |-> 1]
Default == [policy |-> "DEFAULT", id |-> 0]
Ask(actions, scopes, selectors, bases) ==
    [action : actions, scope : scopes, selector : selectors, baseSelector : bases]
OfDefaultPairs == Ask({"INSPECT", "REVIEW", "EXPLAIN"}, {home, Nobody}, {Latest}, {Default})
OfScopes == Ask({"REVIEW"}, {home}, {Latest}, {Default})
OfRefreshes == Ask({"REFRESH"}, {home}, {Latest}, {First, Latest})

History == INSTANCE SnapshotSelection WITH
    Scope <- {home}, NoScope <- Nobody, MaxSnapshots <- 2, MaxCandidates <- 2,
    Question <- OfDefaultPairs, MaxClock <- 2, MaxRoot <- 0,
    clock <- v1, root <- v2, snaps <- v3, call <- v4

Scoped == INSTANCE SnapshotSelection WITH
    Scope <- {home, work}, NoScope <- Nobody, MaxSnapshots <- 2, MaxCandidates <- 2,
    Question <- OfScopes, MaxClock <- 1, MaxRoot <- 1,
    clock <- v1, root <- v2, snaps <- v3, call <- v4

Refresh == INSTANCE SnapshotSelection WITH
    Scope <- {home}, NoScope <- Nobody, MaxSnapshots <- 2, MaxCandidates <- 1,
    Question <- OfRefreshes, MaxClock <- 1, MaxRoot <- 1,
    clock <- v1, root <- v2, snaps <- v3, call <- v4

-----------------------------------------------------------------------------
(* What a part leaves alone.                                                *)
After9 == <<v10, v11>>
After8 == <<v9, After9>>
After7 == <<v8, After8>>
After5 == <<v6, v7, After7>>
After4 == <<v5, After5>>

Off9 == v10 = "off" /\ v11 = "off"
Off8 == v9 = "off" /\ Off9
Off7 == v8 = "off" /\ Off8
Off5 == v6 = "off" /\ v7 = "off" /\ Off7
Off4 == v5 = "off" /\ Off5

Init ==
    \/ part = "index files" /\ Files!Init
    \/ part = "guarded reads" /\ Reads!Init
    \/ part = "schema setup" /\ Setup!Init /\ Off8
    \/ part = "payload reads" /\ Payloads!Init /\ Off5
    \/ part = "payload damage" /\ Damaged!Init /\ Off5
    \/ part = "payload chains" /\ Chained!Init /\ Off5
    \/ part = "scan" /\ Scan!Init /\ Off4
    \/ part = "review" /\ Review!Init /\ Off4
    \/ part = "facts" /\ Facts!Init /\ Off9
    \/ part = "hash budgets" /\ Hashing!Init /\ Off9
    \/ part = "health" /\ Health!Init /\ Off7
    \/ part = "history" /\ History!Init /\ Off4
    \/ part = "two scopes" /\ Scoped!Init /\ Off4
    \/ part = "refresh" /\ Refresh!Init /\ Off4

FilesPart == part = "index files" /\ Files!Next /\ UNCHANGED part
ReadsPart == part = "guarded reads" /\ Reads!Next /\ UNCHANGED part
SetupPart == part = "schema setup" /\ Setup!Next /\ UNCHANGED <<part, After8>>
PayloadsPart == part = "payload reads" /\ Payloads!Next /\ UNCHANGED <<part, After5>>
DamagedPart == part = "payload damage" /\ Damaged!Next /\ UNCHANGED <<part, After5>>
ChainedPart == part = "payload chains" /\ Chained!Next /\ UNCHANGED <<part, After5>>
ScanPart == part = "scan" /\ Scan!Next /\ UNCHANGED <<part, After4>>
ReviewPart == part = "review" /\ Review!Next /\ UNCHANGED <<part, After4>>
FactsPart == part = "facts" /\ Facts!Next /\ UNCHANGED <<part, After9>>
HashingPart == part = "hash budgets" /\ Hashing!Next /\ UNCHANGED <<part, After9>>
HealthPart == part = "health" /\ Health!Next /\ UNCHANGED <<part, After7>>
HistoryPart == part = "history" /\ History!Next /\ UNCHANGED <<part, After4>>
ScopedPart == part = "two scopes" /\ Scoped!Next /\ UNCHANGED <<part, After4>>
RefreshPart == part = "refresh" /\ Refresh!Next /\ UNCHANGED <<part, After4>>

Next ==
    \/ FilesPart \/ ReadsPart \/ SetupPart \/ PayloadsPart \/ DamagedPart \/ ChainedPart
    \/ ScanPart \/ ReviewPart \/ FactsPart \/ HashingPart \/ HealthPart \/ HistoryPart
    \/ ScopedPart \/ RefreshPart

(* What the theorems assume of the constants holds here.                    *)
ASSUME HypothesesHold ==
    /\ Setup!DeathsAreBounded
    /\ Files!FilesAssumption /\ Files!CommandsAssumption
    /\ Reads!FilesAssumption /\ Reads!CommandsAssumption
    /\ Payloads!PayloadBounds /\ Damaged!PayloadBounds /\ Chained!PayloadBounds
    /\ History!SelectionBounds /\ History!QuestionsAreTyped
    /\ Scoped!SelectionBounds /\ Scoped!QuestionsAreTyped
    /\ Refresh!SelectionBounds /\ Refresh!QuestionsAreTyped

vars == <<part, v1, v2, v3, v4, v5, v6, v7, v8, v9, v10, v11>>

Spec == Init /\ [][Next]_vars

-----------------------------------------------------------------------------
(* Every component keeps its types.                                         *)
StoresTypeOK ==
    /\ part = "index files" => Files!IndexTypeOK
    /\ part = "guarded reads" => Reads!IndexTypeOK
    /\ part = "schema setup" => Setup!SetupTypeOK
    /\ part = "payload reads" => Payloads!PayloadTypeOK
    /\ part = "payload damage" => Damaged!PayloadTypeOK
    /\ part = "payload chains" => Chained!PayloadTypeOK
    /\ part = "scan" => Scan!ScanTypeOK
    /\ part = "review" => Review!ScanTypeOK
    /\ part = "facts" => Facts!FactsTypeOK
    /\ part = "hash budgets" => Hashing!FactsTypeOK
    /\ part = "health" => Health!HealthTypeOK
    /\ part = "history" => History!SelectionTypeOK
    /\ part = "two scopes" => Scoped!SelectionTypeOK
    /\ part = "refresh" => Refresh!SelectionTypeOK


(* An index the program takes for valid has every table of its version,     *)
(* whatever process died in between, and schema_metadata never records two  *)
(* versions for processes that race.                                        *)
SetupIsWhole == part = "schema setup" => Setup!SetupIsWhole

(* A published digest is of a content the file had under the published stat *)
(* identity; every Snapshot a scan closes verifies; whatever a scan reuses  *)
(* was read directly by a closed Snapshot that was complete before the scan *)
(* began; and reading stays within the hash budgets.                        *)
HashesAreTrue ==
    /\ part = "payload reads" => Payloads!DigestsAreTrue /\ Payloads!ClosedIsValid
    /\ part = "payload damage" => Damaged!OneStepFromARead
    /\ part = "payload chains" => Chained!OneStepFromARead
    /\ part = "hash budgets" => Hashing!HashBudgetKept

(* A scan reported complete has one Entry for all that was there from its   *)
(* beginning to its end, whatever Scopes overlap, and a review of two scans *)
(* under one budget says of an object that it appeared or disappeared only  *)
(* if it did.                                                               *)
ScansAreTrue ==
    /\ part = "scan" => Scan!CompleteIsWhole /\ Scan!EachObjectOnce
    /\ part = "review" => Review!CompleteIsWhole /\ Review!ReviewIsTrue

(* What a writer writes is VALID to a reader; one whose Run has not closed  *)
(* never is; of a Snapshot that is, the file is undamaged and its rows are  *)
(* those of the Evidence in every column that verification compares, which  *)
(* leaves out the Scopes, the budget, the hash policy, the allocation and   *)
(* the payload summary of its row; and pages followed by has_more list      *)
(* every Entry once and in order.                                           *)
VerdictsAreTrue ==
    /\ part = "facts" => Facts!WritersPassValidation /\ Facts!ValidIsEvidence /\ Facts!UnfinishedIsNeverValid /\ Facts!PagesCoverEntries
    /\ part = "hash budgets" => Hashing!WritersPassValidation

(* The default pair of a review, and the base and target of a refresh, are  *)
(* in the order of their scans, and both Snapshots are whole and of one     *)
(* directory, though it is replaced, other commands publish, recoveries     *)
(* finish old scans and acquisitions fail at any stage meanwhile.           *)
ReviewsAreOfOnePlace ==
    /\ part = "history" => History!DefaultPairOrdered
    /\ part = "two scopes" => Scoped!ReviewsOneDirectory
    /\ part = "refresh" => Refresh!ReviewsOneDirectory /\ Refresh!DefaultPairOrdered

(* A rollback replaces Snapshot rows only, Run rows stay those of the       *)
(* moment of os.replace; a Run once cancelled is never the Run of a VALID   *)
(* Snapshot; after a rebuild every finished Snapshot is VALID.              *)
RowsFollowEvidence ==
    [][/\ part = "index files" => Files!RollbackStep
       /\ part = "facts" => Facts!CancelledStep
       /\ part = "facts" => Facts!RebuildStep]_vars

=============================================================================
