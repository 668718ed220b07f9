------------------------------ MODULE MCProgress ------------------------------
(***************************************************************************)
(* The components that something must become of in the end, with the       *)
(* fairness their scheduling justifies.  As in MCStores a behaviour        *)
(* belongs to one part.                                                    *)
(***************************************************************************)
EXTENDS Naturals, Sequences, SequencesExt, TLC

CONSTANTS c1, c2, r1

VARIABLES part, v1, v2, v3, v4, v5, v6, v7, v8, v9, v10, v11, v12, v13, v14, v15

-----------------------------------------------------------------------------
(* SchemaSetup: two commands on one index, none of which dies.              *)
Setup == INSTANCE SchemaSetup WITH
    Processes <- {1, 2}, Legacy <- BOOLEAN, Patient <- TRUE, MaxDeaths <- 0,
    exists <- v1, tables <- v2, records <- v3, lock <- v4, op <- v5, logged <- v6,
    backup <- v7, deaths <- v8

(* NativeDispatcher: operations that end, and ones that may hang.           *)
Native == INSTANCE NativeDispatcher WITH
    Call <- {c1, c2}, Run <- {r1}, Endless <- FALSE,
    tool <- v1, target <- v2, phase <- v3, thread <- v4, outcome <- v5, answer <- v6,
    lock <- v7, store <- v8, seen <- v9

Hung == INSTANCE NativeDispatcher WITH
    Call <- {c1, c2}, Run <- {r1}, Endless <- TRUE,
    tool <- v1, target <- v2, phase <- v3, thread <- v4, outcome <- v5, answer <- v6,
    lock <- v7, store <- v8, seen <- v9

Worker == INSTANCE ParserWorker WITH
    KilledInMessage <- FALSE,
    child <- v1, report <- v2, pipe <- v3, large <- v4, heavy <- v5, late <- v6,
    parent <- v7, message <- v8, result <- v9

(* ParseCache: two parses that do not fit together, one that never fits.    *)
Threads == {"t1", "t2", "t3"}
Parsed == [a |-> 2, b |-> 3, big |-> 6]

Cache == INSTANCE ParseCache WITH
    Thread <- Threads, Key <- DOMAIN Parsed, Size <- Parsed, MaxEntries <- 2,
    MaxBytes <- 4, Ttl <- 1, MaxCalls <- 1,
    entries <- v1, total <- v2, inflight <- v3, pc <- v4, key <- v5, calls <- v6

(* EvidencePages: a PDF of four pages, a parser interval of two.            *)
Evidence == {[format |-> "PDF", profile |-> "AUTO", view |-> "READ", intent |-> "EVIDENCE",
              query |-> TRUE, page |-> 0]}
FourPages == {f \in [{"native", "deep", "ocr"} -> SUBSET (1 .. 4)] : f["ocr"] = {}}

Paged == INSTANCE EvidencePages WITH
    Requests <- Evidence, Pages <- 1 .. 4, MaxTargetedPages <- 2, Finds <- FourPages,
    Shapes <- {[large |-> l, low |-> "NONE"] : l \in BOOLEAN}, Failures <- {"TIMEOUT"},
    Qualities <- {"SUFFICIENT"}, Limit <- 4, Slices <- {4}, Context <- 0, FactLimit <- 4,
    req <- v1, shape <- v2, found <- v3, pc <- v4, attempts <- v5, selected <- v6,
    named <- v7, target <- v8, offset <- v9, link <- v10, shown <- v11, covered <- v12,
    firstMap <- v13

(* AgentTurn: a model that never stops asking for sound calls.              *)
Sound == [page |-> "page", dir1 |-> "directory", dir2 |-> "directory", read |-> "content"]
Flawless == [c \in DOMAIN Sound |-> "none"]

Turn == INSTANCE AgentTurn WITH
    Calls <- DOMAIN Sound, ToolOf <- Sound, FlawOf <- Flawless, MaxBatch <- 2,
    MaxModelCalls <- 2, MaxToolCalls <- 4, MaxFilesystemCalls <- 3, MaxSerialized <- 4,
    MaxContent <- 2, MaxSharedCalls <- 2, MaxSharedItems <- 3, MaxSharedSerialized <- 3,
    pc <- v1, batch <- v2, results <- v3, messages <- v4, signatures <- v5, traces <- v6,
    usage <- v7, shared <- v8, outcome <- v9

(* MediaPages: a parse that is kept, and one that never is.                 *)
Media == INSTANCE MediaPages WITH
    Duration <- 3, Window <- 2, MaxItems <- 3, PageLimit <- 2, Cached <- TRUE,
    CacheBytes <- 3, SpeechAtEnd <- FALSE, MaxChanges <- 1, MaxLost <- 1,
    medium <- v1, items <- v2, bound <- v3, source <- v4, cache <- v5, lost <- v6,
    request <- v7, pc <- v8, before <- v9, admitted <- v10, reply <- v11, delivered <- v12

Offsets == INSTANCE MediaPages WITH
    Duration <- 3, Window <- 2, MaxItems <- 3, PageLimit <- 1, Cached <- FALSE,
    CacheBytes <- 3, SpeechAtEnd <- FALSE, MaxChanges <- 1, MaxLost <- 1,
    medium <- v1, items <- v2, bound <- v3, source <- v4, cache <- v5, lost <- v6,
    request <- v7, pc <- v8, before <- v9, admitted <- v10, reply <- v11, delivered <- v12

(* DocumentCollection: four documents, three of which match, in batches.    *)
Named == {"report", "slides", "scan", "notes"}
AllPdf == [n \in Named |-> "PDF"]
BestIsReport == [n \in Named |-> IF n = "report" THEN 0 ELSE 2]

Chain == INSTANCE DocumentCollection WITH
    Name <- Named, Suffix <- AllPdf, Rank <- BestIsReport,
    Matching <- {"report", "slides", "scan"}, MaxDocuments <- 3, BatchSize <- 2,
    Limits <- {2}, Partial <- FALSE, Modes <- {"current", "snapshot"}, MaxChanges <- 1,
    mode <- v1, file <- v2, recorded <- v3, changes <- v4, pc <- v5, limit <- v6,
    plan <- v7, matched <- v8, whole <- v9, token <- v10, index <- v11, identity <- v12,
    items <- v13, got <- v14, selected <- v15

(* ContextPages: a Snapshot of one Scope and one of two.                    *)
Deep == <<"a", <<"d", "e", "f">>>>
Flat == <<"a", <<"g">>>>
Other == <<"b", <<"f">>>>
Places == << <<"a", <<>>>>, <<"a", <<"d">>>>, <<"a", <<"d", "e">>>>, Deep, Flat, <<"b", <<>>>>, Other >>
Widths == [l \in ToSet(Places) |-> IF l = Deep THEN 3 ELSE 1]
Opened == [type |-> "dir", size |-> 1000]
Sized(size) == [type |-> "file", size |-> size]
Inside == [l \in ToSet(SubSeq(Places, 1, 5)) |->
              IF l = Deep THEN Sized(1) ELSE IF l = Flat THEN Sized(2) ELSE Opened]
Wide == [l \in ToSet(Places) |->
            IF l \in DOMAIN Inside THEN Inside[l] ELSE IF l = Other THEN Sized(3) ELSE Opened]
Recordings == <<[governed |-> TRUE, files |-> Inside], [governed |-> FALSE, files |-> Wide]>>
Reading(profile, questions, scopes, bases) ==
    [profile : {profile}, question : questions, target : {0}, base : bases, scope : scopes,
     prefix : {<<"no prefix">>}, limit : {2}]
Readings ==
    Reading("AUTO", {{}, {"change"}}, {"any scope", "b"}, {0})
    \cup Reading("STORAGE_HOTSPOTS", {{}}, {"any scope"}, {0})
    \cup Reading("CHANGE_TRIAGE", {{}}, {"any scope"}, {1})

Pages == INSTANCE ContextPages WITH
    Recordings <- Recordings, Order <- Places, Width <- Widths, Envelope <- 1,
    PageBytes <- 5, ReviewLimit <- 4, PacketFacts <- 4, Requests <- Readings,
    MaxDamage <- 1, MaxStrays <- 0, MaxPages <- 6,
    recorded <- v1, damaged <- v2, call <- v3, chain <- v4

-----------------------------------------------------------------------------
(* What a part leaves alone.                                                *)
After13 == <<v14, v15>>
After12 == <<v13, After13>>
After9 == <<v10, v11, v12, After12>>
After8 == <<v9, After9>>
After6 == <<v7, v8, After8>>
After4 == <<v5, v6, After6>>

Off13 == v14 = "off" /\ v15 = "off"
Off12 == v13 = "off" /\ Off13
Off9 == v10 = "off" /\ v11 = "off" /\ v12 = "off" /\ Off12
Off8 == v9 = "off" /\ Off9
Off6 == v7 = "off" /\ v8 = "off" /\ Off8
Off4 == v5 = "off" /\ v6 = "off" /\ Off6

Init ==
    \/ part = "index setup" /\ Setup!Init /\ Off8
    \/ part = "native calls" /\ Native!Init /\ Off9
    \/ part = "native hang" /\ Hung!Init /\ Off9
    \/ part = "parser worker" /\ Worker!Init /\ Off9
    \/ part = "parse cache" /\ Cache!Init /\ Off6
    \/ part = "evidence" /\ Paged!EvidenceInit /\ Off13
    \/ part = "agent turn" /\ Turn!TurnInit /\ Off9
    \/ part = "media" /\ Media!Init /\ Off12
    \/ part = "media offsets" /\ Offsets!Init /\ Off12
    \/ part = "collection" /\ Chain!CollectionInit
    \/ part = "pages" /\ Pages!Init /\ Off4

SetupPart == part = "index setup" /\ Setup!Next /\ UNCHANGED <<part, After8>>
NativePart == part = "native calls" /\ Native!Next /\ UNCHANGED <<part, After9>>
HungPart == part = "native hang" /\ Hung!Next /\ UNCHANGED <<part, After9>>
WorkerPart == part = "parser worker" /\ Worker!Next /\ UNCHANGED <<part, After9>>
CachePart == part = "parse cache" /\ Cache!Next /\ UNCHANGED <<part, After6>>
PagedPart == part = "evidence" /\ Paged!EvidenceNext /\ UNCHANGED <<part, After13>>
TurnPart == part = "agent turn" /\ Turn!TurnNext /\ UNCHANGED <<part, After9>>
MediaPart == part = "media" /\ Media!Next /\ UNCHANGED <<part, After12>>
OffsetsPart == part = "media offsets" /\ Offsets!Next /\ UNCHANGED <<part, After12>>
ChainPart == part = "collection" /\ Chain!CollectionNext /\ UNCHANGED part
PagesPart == part = "pages" /\ Pages!Next /\ UNCHANGED <<part, After4>>

Next ==
    \/ SetupPart \/ NativePart \/ HungPart \/ WorkerPart \/ CachePart \/ PagedPart
    \/ TurnPart \/ MediaPart \/ OffsetsPart \/ ChainPart \/ PagesPart

-----------------------------------------------------------------------------
(* Fairness.  One part is alive in a behaviour, so that one action stands    *)
(* for what has to go on in each of them.                                    *)
vars == <<part, v1, v2, v3, v4, v5, v6, v7, v8, v9, v10, v11, v12, v13, v14, v15>>

Of(k) == IF k = 1 THEN c1 ELSE c2

(* SQLite's busy handler tries a lock again and again; a thread that waits   *)
(* for the server's lock is one of those that get it when it is free.        *)
GetsTheLock(k) ==
    \/ part = "index setup" /\ Setup!Continue(k) /\ UNCHANGED <<part, After8>>
    \/ part = "native calls" /\ Native!Enter(Of(k)) /\ UNCHANGED <<part, After9>>
    \/ part = "native hang" /\ Hung!Enter(Of(k)) /\ UNCHANGED <<part, After9>>

(* The operator repeats a command that the index still needs; the event      *)
(* loop and the threads of a server are scheduled, its timers run; an        *)
(* operation that does not hang ends.                                        *)
Begins(k) ==
    \/ part = "index setup" /\ Setup!InitStorage(k) /\ UNCHANGED <<part, After8>>
    \/ part = "native calls" /\ Native!PickUp(Of(k)) /\ UNCHANGED <<part, After9>>
    \/ part = "native hang" /\ Hung!PickUp(Of(k)) /\ UNCHANGED <<part, After9>>

Repeats(k) ==
    \/ part = "index setup" /\ (~ Setup!Valid /\ Setup!Migrate(k)) /\ UNCHANGED <<part, After8>>
    \/ part = "native calls" /\ Native!Timeout(Of(k)) /\ UNCHANGED <<part, After9>>
    \/ part = "native hang" /\ Hung!Timeout(Of(k)) /\ UNCHANGED <<part, After9>>

Operates(k) ==
    \/ part = "native calls" /\ Native!Operate(Of(k)) /\ UNCHANGED <<part, After9>>

Answers(k) ==
    \/ part = "native calls" /\ Native!Answer(Of(k)) /\ UNCHANGED <<part, After9>>
    \/ part = "native hang" /\ Hung!Answer(Of(k)) /\ UNCHANGED <<part, After9>>

(* The parent, its clock and what the child sends; the threads of a cache.   *)
Works(k) ==
    \/ part = "parser worker" /\ (IF k = 1 THEN Worker!Parent ELSE IF k = 2 THEN Worker!DeadlinePasses ELSE Worker!Exit) /\ UNCHANGED <<part, After9>>
    \/ part = "parse cache" /\ Cache!Step(<<"t1", "t2", "t3">>[k]) /\ UNCHANGED <<part, After6>>

Sends ==
    \/ part = "parser worker" /\ Worker!SendFirst /\ UNCHANGED <<part, After9>>

SendsRest ==
    \/ part = "parser worker" /\ Worker!SendRest /\ UNCHANGED <<part, After9>>

(* A handler returns, its work being under a timeout, a model answers, and   *)
(* the caller follows what it was told is left.                              *)
Returns ==
    \/ part = "evidence" /\ Paged!EvidenceNext /\ UNCHANGED <<part, After13>>
    \/ part = "agent turn" /\ Turn!TurnNext /\ UNCHANGED <<part, After9>>
    \/ part = "media" /\ Media!Serve /\ UNCHANGED <<part, After12>>
    \/ part = "media offsets" /\ Offsets!Serve /\ UNCHANGED <<part, After12>>
    \/ part = "collection" /\ Chain!Step /\ UNCHANGED part
    \/ part = "pages" /\ Pages!Handle /\ UNCHANGED <<part, After4>>

Follows ==
    \/ part = "pages" /\ Pages!Follow /\ UNCHANGED <<part, After4>>

Fairness ==
    /\ \A k \in 1 .. 2 : /\ SF_vars(GetsTheLock(k))
                        /\ WF_vars(Begins(k)) /\ WF_vars(Repeats(k))
                        /\ WF_vars(Operates(k)) /\ WF_vars(Answers(k))
    /\ \A k \in 1 .. 3 : WF_vars(Works(k))
    /\ WF_vars(Sends) /\ WF_vars(SendsRest)
    /\ WF_vars(Returns) /\ WF_vars(Follows)

Spec == Init /\ [][Next]_vars /\ Fairness

-----------------------------------------------------------------------------
(* Every component keeps its types.                                         *)
ProgressTypeOK ==
    /\ part = "index setup" => Setup!SetupTypeOK
    /\ part = "native calls" => Native!NativeTypeOK
    /\ part = "native hang" => Hung!NativeTypeOK
    /\ part = "parser worker" => Worker!WorkerTypeOK
    /\ part = "parse cache" => Cache!CacheTypeOK
    /\ part = "evidence" => Paged!EvidenceTypeOK
    /\ part = "agent turn" => Turn!TurnTypeOK
    /\ part = "media" => Media!MediaTypeOK
    /\ part = "media offsets" => Offsets!MediaTypeOK
    /\ part = "collection" => Chain!CollectionTypeOK
    /\ part = "pages" => Pages!TypeOK

(* When a parse has returned its child is gone, and a parse finished in     *)
(* time is never lost to the race between the exit of the child and the     *)
(* reading of the pipe; the cache holds no more than it may, and what is    *)
(* computed is computed once.                                               *)
ParsesAreCollected ==
    /\ part = "parser worker" => Worker!ParsesAreCollected
    /\ part = "parse cache" => Cache!ParsesAreCollected

(* A continuation that was given is accepted, unless its parse was kept and *)
(* is gone; when none is left every matched page has been in some packet;   *)
(* the items of a medium come once and in order, and so does every          *)
(* candidate of a set, though documents fail on the way.                    *)
LinksReachEverything ==
    /\ part = "evidence" => Paged!LinksAreAccepted /\ Paged!MatchedPagesCovered
    /\ part = "media" => Media!DeliveredInOrder /\ Media!TokensAreAccepted
    /\ part = "media offsets" => Offsets!DeliveredInOrder
    /\ part = "collection" => Chain!EachOnce

(* What has to end: a parse, a conversation, a turn, a reading of a medium, a *)
(* chain of documents.                                                       *)
Over ==
    \/ part = "parser worker" /\ Worker!HasReturned
    \/ part = "evidence" /\ Paged!IsOver
    \/ part = "agent turn" /\ Turn!IsOver
    \/ part = "media" /\ Media!IsRead
    \/ part = "media offsets" /\ Offsets!IsRead
    \/ part = "collection" /\ Chain!IsOver

(* A call of the server that may hang, of the cache, and a reading of        *)
(* context pages; calls and threads are interchangeable, so one stands for   *)
(* all.                                                                      *)
Asked ==
    \/ part = "native hang" /\ Hung!IsSubmitted(c1)
    \/ part = "parse cache" /\ Cache!InCall("t1")
    \/ part = "pages" /\ Pages!IsReading
Settled ==
    \/ part = "native hang" /\ Hung!IsAnswered(c1)
    \/ part = "parse cache" /\ ~ Cache!InCall("t1")
    \/ part = "pages" /\ Pages!IsDone

(* Commands that race to initialize or migrate an index leave a valid one   *)
(* in the end; every parse is over in the end, whatever its child does;     *)
(* every turn ends with an outcome, however often the model asks for more;  *)
(* and who follows the continuations of a document, a medium or a set of    *)
(* documents reaches the end, though parses are lost and files are          *)
(* rewritten in between.                                                    *)
WorkEnds ==
    /\ <>[](part = "index setup" => Setup!Valid)
    /\ part \notin {"index setup", "native calls", "native hang", "parse cache", "pages"} => <>Over

(* Every admitted call of the native server is answered, also when the      *)
(* operation that has the lock never ends; a call of the cache ends, also   *)
(* when the computation it waits for fails; who follows the continuations   *)
(* of a context is done or told to stop; and a thread that has been picked  *)
(* up runs its operation to the end, although nobody waits for it.          *)
CallsSettle ==
    /\ Asked ~> Settled
    /\ (part = "native calls" /\ Native!IsWaiting(c1)) ~> (part = "native calls" /\ Native!HasEnded(c1))

(* A link leads to a later page or further into the same one; a page of a   *)
(* medium is only published of the bytes the file holds at that moment; and *)
(* all the pages of one reading of a context are of the same two Snapshots. *)
PagesStayCurrent ==
    [][/\ part = "evidence" => Paged!LinkStep
       /\ part = "media" => Media!PublishStep
       /\ part = "pages" => Pages!PageStep]_vars

=============================================================================
