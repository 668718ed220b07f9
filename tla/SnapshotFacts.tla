---------------------------- MODULE SnapshotFacts ----------------------------
(***************************************************************************)
(* What a Snapshot says and who notices when it says something else: the   *)
(* content of Snapshots v1 and v2 from the scan (filesystem.py) over the   *)
(* byte and time budgets of payload hashing (payload_hashing.py), the      *)
(* writer's own validation, the SQLite rows made from it, to their readers *)
(* (snapshots.py): validate_snapshot_evidence, verify_snapshot, the        *)
(* inventory, the pages of Entries, and the rebuild of the rows from the   *)
(* Evidence.  The user changes files, Runs are cancelled, writers die, one *)
(* file or row is damaged.  A path is a tuple of names <<letter, case>>;   *)
(* a digest is the content it was made of.  How a scan walks is            *)
(* FilesystemScan's, reuse and the two looks of a read PayloadReuse's,     *)
(* ledgers StorageHealth's.                                                *)
(***************************************************************************)
EXTENDS Integers, SequencesExt

CONSTANTS Objects,     \* what lies in the Scopes, in canonical order
          Requests,    \* the Scope lists a caller may give
          Snapshots,   \* a set of numbers
          Versions,    \* Snapshot Evidence versions written
          Sizes,       \* sizes a file may have at first
          MaxFile, MaxTotal,   \* max_hash_file_bytes, max_total_hash_bytes
          Localities,  \* what the locality provider may answer
          PathPrefixes, Limits,    \* pages asked for
          MaxChanges,  \* bound: changes of the user's files
          MaxFaults    \* bound: damages

FactBounds == MaxFile \in Nat /\ MaxTotal \in Nat /\ Versions \subseteq {1, 2} /\ Limits \subseteq Nat \ {0}

VARIABLES tree,    \* object -> whether it is there and its size
          odd,     \* an object has a name that is no UTF-8
          work,    \* Snapshot -> its writer
          runs,    \* Snapshot -> the status of its Run
          files,   \* Snapshot -> its Evidence file
          rows,    \* Snapshot -> its rows of the index
          harm,    \* Snapshot -> what was damaged
          changes, faults

vars == <<tree, odd, work, runs, files, rows, harm, changes, faults>>

Object == 1..Len(Objects)
IsFile(o) == Objects[o].type = "regular_file"
InScope(o, s) == Objects[o].scope = s
SumOver(seq, F(_)) == FoldLeft(LAMBDA a, x : a + F(x), 0, seq)
Count(seq, P(_)) == SumOver(seq, LAMBDA x : IF P(x) THEN 1 ELSE 0)

NoPayload == [status |-> "null", bytes |-> 0]
Failure(status) == [status |-> status, bytes |-> 0]
Succeeds(p) == p.status \in {"HASHED", "EMPTY_FILE_HASHED"}

NoFile == [kind |-> "absent"]
NoRows == [there |-> FALSE]
NoWork == [stage |-> "none", version |-> 0, scopes |-> <<>>, entries |-> <<>>, at |-> 1,
           spent |-> 0, late |-> FALSE, partial |-> FALSE, read |-> 0,
           followed |-> FALSE]  \* a record follows the Snapshot in its ledger

Init ==
    /\ tree \in [Object -> [there : {TRUE}, size : Sizes \cup {0}]]
    /\ \A o \in Object : IsFile(o) \/ tree[o].size = 0
    /\ odd \in BOOLEAN
    /\ work = [i \in Snapshots |-> NoWork]
    /\ runs = [i \in Snapshots |-> "none"]
    /\ files = [i \in Snapshots |-> NoFile]
    /\ rows = [i \in Snapshots |-> NoRows]
    /\ harm = [i \in Snapshots |-> "none"]
    /\ changes = 0 /\ faults = 0

-----------------------------------------------------------------------------
(* The user's files.                                                        *)
UserChanges(o) ==
    /\ changes < MaxChanges /\ IsFile(o) /\ tree[o].there /\ changes' = changes + 1
    /\ \E i \in Snapshots : work[i].stage = "hashing"   \* bound: later changes are seen by nobody
    /\ \/ tree' = [tree EXCEPT ![o].there = FALSE]
       \/ tree' = [tree EXCEPT ![o].size = @ + 1]
    /\ UNCHANGED <<odd, work, runs, files, rows, harm, faults>>

-----------------------------------------------------------------------------
(* create_snapshot up to the metadata: the Run, then scan.                  *)
Put(i, w) == work' = [work EXCEPT ![i] = w]

Create(i) ==
    /\ work[i].stage = "none" /\ \A j \in Snapshots : j < i => work[j].stage # "none"
    /\ \E v \in Versions, r \in Requests :
         Put(i, [NoWork EXCEPT !.stage = "scanning", !.version = v, !.scopes = r])
    /\ runs' = [runs EXCEPT ![i] = "SCANNING"]
    /\ UNCHANGED <<tree, odd, files, rows, harm, changes, faults>>

(* A name that does not decode has no UTF-8 form to derive an id from.      *)
EntryId == ~ odd

(* One that stat refuses is of type unknown and has no size.                *)
Entry(o, seen) == [at |-> o, type |-> IF seen THEN Objects[o].type ELSE "unknown",
                   size |-> IF seen THEN tree[o].size ELSE 0, observed |-> seen,
                   excluded |-> seen /\ Objects[o].internal, payload |-> NoPayload]

(* A Scope named twice is scanned twice.                                    *)
ScanOf(scopes, unseen) ==
    FlattenSeq([o \in Object |->
        IF tree[o].there THEN [k \in 1..Count(scopes, LAMBDA s : InScope(o, s)) |-> Entry(o, o \notin unseen)]
                         ELSE <<>>])

Scan(i) ==
    LET w == work[i] IN
    /\ w.stage = "scanning"
    /\ IF EntryId
       THEN \E unseen \in {{}} \cup {{o} : o \in {x \in Object : IsFile(x)}} :
              Put(i, [w EXCEPT !.stage = IF w.version = 2 THEN "hashing" ELSE "observed",
                               !.entries = ScanOf(w.scopes, unseen),
                               !.partial = \E k \in 1..Len(ScanOf(w.scopes, unseen)) :
                                              ~ ScanOf(w.scopes, unseen)[k].observed])
       ELSE Put(i, [w EXCEPT !.stage = "died"])
    /\ UNCHANGED <<tree, odd, runs, files, rows, harm, changes, faults>>

-----------------------------------------------------------------------------
(* observe_direct_payloads, one Entry after the other; a chunk is a byte.   *)
SuccessHashed(n) ==  \* deviation: every digest is of status HASHED
    [status |-> "HASHED", bytes |-> n]

Success(n) == [status |-> IF n = 0 THEN "EMPTY_FILE_HASHED" ELSE "HASHED", bytes |-> n]

SpentOnDigests(w, p, n) ==  \* deviation: only digests that were kept count
    [w EXCEPT !.entries[w.at].payload = p, !.at = @ + 1, !.read = @ + n,
                                     !.spent = @ + IF Succeeds(p) THEN n ELSE 0]

Observed(w, p, n) == [w EXCEPT !.entries[w.at].payload = p, !.at = @ + 1, !.read = @ + n, !.spent = @ + n]

(* What is known before the file is opened, in the order of the code.       *)
Ineligible(w, e) ==
    IF e.type # "regular_file" THEN {"NOT_REGULAR_FILE"}
    ELSE IF e.excluded THEN {"UNSUPPORTED"}
    ELSE IF w.late THEN {"TIME_BUDGET_EXHAUSTED"}
    ELSE IF e.size > MaxFile THEN {"FILE_TOO_LARGE"}
    ELSE IF e.size > MaxTotal - w.spent THEN {"TOTAL_BYTE_BUDGET_EXHAUSTED"}
    ELSE {}

(* The first byte too many ends the read.                                   *)
TooMany(w, n) == {r \in 1..n : r > MaxFile \/ w.spent + r > MaxTotal}
ReadUntil(w, n) == IF TooMany(w, n) = {} THEN n ELSE Min(TooMany(w, n))

ReadOutcome(w, e, r) ==
    IF r > MaxFile THEN Failure("FILE_TOO_LARGE")
    ELSE IF w.spent + r > MaxTotal THEN Failure("TOTAL_BYTE_BUDGET_EXHAUSTED")
    ELSE IF r # e.size THEN Failure("CHANGED_DURING_READ")
    ELSE Success(r)

Skip(i) ==
    LET w == work[i] IN
    /\ w.stage = "hashing" /\ w.at <= Len(w.entries)
    /\ \E s \in Ineligible(w, w.entries[w.at]) : Put(i, Observed(w, Failure(s), 0))
    /\ UNCHANGED <<tree, odd, runs, files, rows, harm, changes, faults>>

TimeIsUp(i) ==
    /\ work[i].stage = "hashing" /\ ~ work[i].late
    /\ Put(i, [work[i] EXCEPT !.late = TRUE])
    /\ UNCHANGED <<tree, odd, runs, files, rows, harm, changes, faults>>

NotLocal(i) ==
    LET w == work[i] IN
    /\ w.stage = "hashing" /\ w.at <= Len(w.entries) /\ Ineligible(w, w.entries[w.at]) = {}
    /\ \E l \in Localities \ {"LOCAL"} :
         Put(i, Observed(w, Failure(IF l = "NON_LOCAL" THEN "NOT_LOCAL" ELSE "UNSUPPORTED"), 0))
    /\ UNCHANGED <<tree, odd, runs, files, rows, harm, changes, faults>>

(* The file may be another by now, and may grow while it is read.           *)
Read(i) ==
    LET w == work[i]
        e == w.entries[w.at]
    IN  /\ w.stage = "hashing" /\ w.at <= Len(w.entries) /\ Ineligible(w, e) = {}
        /\ "LOCAL" \in Localities
        /\ IF ~ tree[e.at].there
           THEN Put(i, Observed(w, Failure("NOT_FOUND_DURING_READ"), 0)) /\ UNCHANGED <<tree, changes>>
           ELSE IF tree[e.at].size # e.size
           THEN Put(i, Observed(w, Failure("CHANGED_DURING_READ"), 0)) /\ UNCHANGED <<tree, changes>>
           ELSE \E grown \in {0} \cup {n \in 1..2 : changes < MaxChanges} :
                  /\ tree' = [tree EXCEPT ![e.at].size = @ + grown]
                  /\ changes' = IF grown > 0 THEN changes + 1 ELSE changes
                  /\ LET r == ReadUntil(w, e.size + grown)
                     IN \/ Put(i, Observed(w, ReadOutcome(w, e, r), r))
                        \/ \E part \in 0..(r - 1) :
                             Put(i, [Observed(w, Failure("TIME_BUDGET_EXHAUSTED"), part) EXCEPT !.late = TRUE])
        /\ UNCHANGED <<odd, runs, files, rows, harm, faults>>

Seal(i) ==
    /\ work[i].stage = "hashing" /\ work[i].at > Len(work[i].entries)
    /\ Put(i, [work[i] EXCEPT !.stage = "observed"])
    /\ UNCHANGED <<tree, odd, runs, files, rows, harm, changes, faults>>

-----------------------------------------------------------------------------
(* The fact: statistics and, in v2, the counts of payload statuses.         *)
Statistics(es) ==
    [entry_count |-> Len(es), observed_count |-> Count(es, LAMBDA e : e.observed),
     error_count |-> Count(es, LAMBDA e : ~ e.observed), excluded_count |-> Count(es, LAMBDA e : e.excluded),
     total_regular_file_bytes |-> SumOver(es, LAMBDA e : IF e.type = "regular_file" THEN e.size ELSE 0)]

Statuses(es) == {es[k].payload.status : k \in 1..Len(es)}

PayloadSummary(version, es) ==
    [s \in IF version = 2 THEN Statuses(es) ELSE {} |-> Count(es, LAMBDA e : e.payload.status = s)]

Fact(w) ==
    [version |-> w.version, scopes |-> w.scopes, status |-> IF w.partial THEN "PARTIAL" ELSE "COMPLETE",
     statistics |-> Statistics(w.entries), summary |-> PayloadSummary(w.version, w.entries),
     entries |-> w.entries, renamed |-> "no"]

(* _valid_payload_observation: a success is of a regular file, whole.       *)
PayloadValid(e) ==
    Succeeds(e.payload) => /\ e.type = "regular_file" /\ e.payload.bytes = e.size
                           /\ (e.payload.status = "HASHED" => e.size # 0)
                           /\ (e.payload.status = "EMPTY_FILE_HASHED" => e.size = 0)

EntriesValid(f) ==
    /\ f.renamed = "no"
    /\ f.version = 2 => \A k \in 1..Len(f.entries) : PayloadValid(f.entries[k])

KeysUnique(es) == \A k, l \in 1..Len(es) : es[k].at = es[l].at => k = l
Ordered(es) == \A k, l \in 1..Len(es) : k < l => es[k].at <= es[l].at
ScopeMembership(f) == \A k \in 1..Len(f.entries) : \E s \in Range(f.scopes) : InScope(f.entries[k].at, s)
SummaryValid(f) ==
    f.statistics = Statistics(f.entries) /\ f.summary = PayloadSummary(f.version, f.entries)

(* v1 counts by field name even when the names are wrong: it raises.        *)
ValidationRaises(f) == f.version = 1 /\ f.renamed = "statistic"

IntrinsicValid(f, sealed) ==
    /\ EntriesValid(f) /\ KeysUnique(f.entries) /\ Ordered(f.entries) /\ ScopeMembership(f)
    /\ SummaryValid(f) /\ f = sealed

-----------------------------------------------------------------------------
(* _persist: validation, Evidence, rows, in one write transaction.          *)
WriteEvidence(i) ==
    LET f == Fact(work[i]) IN
    /\ work[i].stage = "observed"
    /\ IF IntrinsicValid(f, f)
       THEN /\ files' = [files EXCEPT ![i] = [kind |-> "json", fact |-> f, sealed |-> f]]
            /\ Put(i, [work[i] EXCEPT !.stage = "written"])
       ELSE Put(i, [work[i] EXCEPT !.stage = "refused"]) /\ UNCHANGED files
    /\ UNCHANGED <<tree, odd, runs, rows, harm, changes, faults>>

(* The columns, and an Entry row whose payload column is NULL in v1.        *)
PayloadColumn(version, p) == IF version = 2 THEN p ELSE NoPayload

EntryRow(version, e) ==
    [at |-> e.at, type |-> e.type, size |-> e.size, observed |-> e.observed, excluded |-> e.excluded,
     payload |-> PayloadColumn(version, e.payload)]

IndexRows(s) ==
    [there |-> TRUE, version |-> s.version, scope_ids |-> s.scopes, status |-> s.status,
     statistics |-> s.statistics, summary |-> s.summary,
     entries |-> [k \in 1..Len(s.entries) |-> EntryRow(s.version, s.entries[k])]]

CommitRows(i) ==
    /\ work[i].stage = "written"
    /\ rows' = [rows EXCEPT ![i] = IndexRows(files[i].fact)]
    /\ Put(i, [work[i] EXCEPT !.stage = "persisted"])
    /\ UNCHANGED <<tree, odd, runs, files, harm, changes, faults>>

Final(status) == IF status = "PARTIAL" THEN "PARTIAL" ELSE "SCANNED"

CloseBlindly(i) ==  \* deviation: the closing transition does not look at the Run
    /\ work[i].stage = "persisted"
    /\ Put(i, [work[i] EXCEPT !.stage = "closed", !.followed = TRUE])
    /\ runs' = [runs EXCEPT ![i] = Final(Fact(work[i]).status)]
    /\ UNCHANGED <<tree, odd, files, rows, harm, changes, faults>>

CloseInMemory(i) ==  \* deviation: the Run's row is not updated
    /\ work[i].stage = "persisted"
    /\ Put(i, [work[i] EXCEPT !.stage = "closed", !.followed = TRUE])
    /\ UNCHANGED <<tree, odd, runs, files, rows, harm, changes, faults>>

(* The closing transition is refused once the Run was cancelled.            *)
Close(i) ==
    /\ work[i].stage = "persisted"
    /\ IF runs[i] = "SCANNING"
       THEN /\ runs' = [runs EXCEPT ![i] = Final(Fact(work[i]).status)]
            /\ Put(i, [work[i] EXCEPT !.stage = "closed", !.followed = TRUE])
       ELSE Put(i, [work[i] EXCEPT !.stage = "stranded"]) /\ UNCHANGED runs
    /\ UNCHANGED <<tree, odd, files, rows, harm, changes, faults>>

(* Rows are committed in one transaction: a crash before it leaves a file.  *)
Crash(i) ==
    /\ work[i].stage \in {"scanning", "hashing", "observed", "written", "persisted"}
    /\ Put(i, [work[i] EXCEPT !.stage = "died"])
    /\ UNCHANGED <<tree, odd, runs, files, rows, harm, changes, faults>>

(* runs cancel waits for the transaction of _persist; what it does to a     *)
(* ledger whose last file has no row is RunStore's.                         *)
Cancel(i) ==
    /\ runs[i] = "SCANNING" /\ (files[i].kind = "absent") = ~ rows[i].there
    /\ runs' = [runs EXCEPT ![i] = "CANCELLED"]
    /\ Put(i, [work[i] EXCEPT !.followed = rows[i].there])
    /\ UNCHANGED <<tree, odd, files, rows, harm, changes, faults>>

-----------------------------------------------------------------------------
(* Damage from outside, once per Snapshot.                                  *)
FileDamages == {"lost", "syntax", "bytes", "value", "statistic", "other"}
ComparedDamages == {"count", "size", "missing", "payload"}
UncomparedDamages == {"scope_ids", "summary"}

DamagedFile(f, what) ==
    IF what = "lost" THEN NoFile
    ELSE IF what \in {"syntax", "bytes"} THEN [kind |-> what]
    ELSE IF what = "value" THEN [f EXCEPT !.fact.statistics.entry_count = @ + 1]
    ELSE [f EXCEPT !.fact.renamed = what]

DamagedRows(r, what) ==
    IF what = "count" THEN [r EXCEPT !.statistics.entry_count = @ + 1]
    ELSE IF what = "size" THEN [r EXCEPT !.entries[1].size = @ + 1]
    ELSE IF what = "missing" THEN [r EXCEPT !.entries = Front(@)]
    ELSE IF what = "payload" THEN [r EXCEPT !.entries[1].payload = NoPayload]
    ELSE IF what = "scope_ids" THEN [r EXCEPT !.scope_ids = <<>>]
    ELSE [r EXCEPT !.summary = [s \in {} |-> 0]]

Damage(i) ==
    /\ faults < MaxFaults /\ faults' = faults + 1 /\ harm[i] = "none"
    /\ \/ \E what \in FileDamages :
            /\ files[i].kind = "json" /\ files[i].fact.entries # <<>> /\ work[i].stage # "written"
            /\ files' = [files EXCEPT ![i] = DamagedFile(@, what)]
            /\ harm' = [harm EXCEPT ![i] = what] /\ UNCHANGED rows
       \/ \E what \in ComparedDamages \cup UncomparedDamages :
            /\ rows[i].there /\ rows[i].entries # <<>>
            /\ what \in {"payload", "summary"} => rows[i].version = 2
            /\ rows' = [rows EXCEPT ![i] = DamagedRows(@, what)]
            /\ harm' = [harm EXCEPT ![i] = what] /\ UNCHANGED files
    /\ UNCHANGED <<tree, odd, work, runs, changes>>

-----------------------------------------------------------------------------
(* The readers.  _get_snapshot maps rows back; a v2 Snapshot needs every    *)
(* payload.                                                                 *)
FromRows(r) == [version |-> r.version, scopes |-> r.scope_ids, status |-> r.status,
                statistics |-> r.statistics, summary |-> r.summary, entries |-> r.entries]

EntriesComplete(r) == r.version = 2 => \A k \in 1..Len(r.entries) : r.entries[k].payload # NoPayload

(* A file that is no UTF-8 is no JSON error either: reading it raises.      *)
ReadRaises(i) == files[i].kind = "bytes" \/ (files[i].kind = "json" /\ ValidationRaises(files[i].fact))

RowConsistent(s, f) == s.status = f.status /\ s.statistics = f.statistics

CountsConsistent(s, f) ==  \* deviation: the Entries of the index are not compared
    Len(s.entries) = Len(f.entries)

EntriesConsistent(s, f) == s.entries = f.entries

AnyRunCompatible(i, status) == runs[i] # "none"  \* deviation: a Run of any status will do

RunCompatible(i, status) == runs[i] = Final(status)

Verdict(i) ==
    IF ~ rows[i].there THEN "NOT_FOUND"
    ELSE IF ~ EntriesComplete(rows[i]) THEN "RAISES"
    ELSE IF files[i].kind \in {"absent", "syntax"} THEN "INVALID"
    ELSE IF ReadRaises(i) THEN "RAISES"
    ELSE LET s == FromRows(rows[i])
             f == files[i].fact
         IN  IF ~ IntrinsicValid(f, files[i].sealed) \/ ~ RunCompatible(i, s.status) THEN "INVALID"
             ELSE IF RowConsistent(s, f) /\ EntriesConsistent(s, f) THEN "VALID"
             ELSE "INCOMPLETE"

(* inspect_snapshot_inventory reads every Evidence file and stops at one    *)
(* that raises; otherwise it shows the Snapshots whose facts are valid.     *)
Inventory ==
    IF \E i \in Snapshots : ReadRaises(i) THEN [raised |-> TRUE, shown |-> {}]
    ELSE [raised |-> FALSE,
          shown |-> {i \in Snapshots : /\ files[i].kind = "json" /\ rows[i].there
                                       /\ IntrinsicValid(files[i].fact, files[i].sealed)}]

-----------------------------------------------------------------------------
(* list_snapshot_entries: SQL LIKE ignores the case of ASCII letters.       *)
Path(e) == Objects[e.at].path
Letters(path) == [k \in 1..Len(path) |-> path[k][1]]
Within(path, prefix) == Len(path) >= Len(prefix) /\ SubSeq(path, 1, Len(prefix)) = prefix

PrefixSelects(path, prefix) ==
    \/ prefix = <<>> \/ path = prefix
    \/ Len(path) > Len(prefix) /\ Letters(SubSeq(path, 1, Len(prefix))) = Letters(prefix)

Matching(i, prefix) == SelectSeq(rows[i].entries, LAMBDA e : PrefixSelects(Path(e), prefix))

UntrimmedPage(i, prefix, limit, offset) ==  \* deviation: the probe for more is shown as well
    LET found == SubSeq(Matching(i, prefix), offset + 1,
                        Min({offset + limit + 1, Len(Matching(i, prefix))}))
    IN  [entries |-> found, has_more |-> Len(found) > limit]

Page(i, prefix, limit, offset) ==
    LET found == SubSeq(Matching(i, prefix), offset + 1,
                        Min({offset + limit + 1, Len(Matching(i, prefix))}))
    IN  [entries |-> SubSeq(found, 1, Min({limit, Len(found)})), has_more |-> Len(found) > limit]

-----------------------------------------------------------------------------
(* rebuild_index: strict, but a last record that is lost leaves no gap; the *)
(* rows of every Snapshot are made anew from its Evidence.                  *)
FromEvidenceV1(f) == [f EXCEPT !.version = 1]  \* deviation: v2 Evidence is mapped like v1

FromEvidence(f) == [version |-> f.version, scopes |-> f.scopes, status |-> f.status,
                    statistics |-> f.statistics, summary |-> f.summary, entries |-> f.entries]

RebuildAllowed ==
    \A i \in Snapshots : /\ files[i].kind = "absent" => ~ work[i].followed
                         /\ files[i].kind # "absent" => /\ files[i].kind = "json" /\ ~ ReadRaises(i)
                                                        /\ IntrinsicValid(files[i].fact, files[i].sealed)

Rebuild ==
    /\ RebuildAllowed /\ \E i \in Snapshots : files[i].kind = "json"
    /\ \A i \in Snapshots : work[i].stage \in {"none", "refused", "died", "stranded", "closed"}
    /\ rows' = [i \in Snapshots |-> IF files[i].kind = "json" THEN IndexRows(FromEvidence(files[i].fact)) ELSE NoRows]
    /\ harm' = [i \in Snapshots |-> IF harm[i] \in FileDamages THEN harm[i] ELSE "none"]
    /\ UNCHANGED <<tree, odd, work, runs, files, changes, faults>>

Next ==
    \/ \E o \in Object : UserChanges(o)
    \/ \E i \in Snapshots : \/ Create(i) \/ Scan(i) \/ Skip(i) \/ TimeIsUp(i) \/ NotLocal(i) \/ Read(i)
                            \/ Seal(i) \/ WriteEvidence(i) \/ CommitRows(i) \/ Close(i)
                            \/ Crash(i) \/ Cancel(i) \/ Damage(i)
    \/ Rebuild

Spec == Init /\ [][Next]_vars

-----------------------------------------------------------------------------
(* Files, rows and Runs keep step with their writers.                       *)
FactsTypeOK ==
    /\ \A i \in Snapshots :
         /\ runs[i] \in {"none", "SCANNING", "CANCELLED", "SCANNED", "PARTIAL"}
         /\ work[i].at <= Len(work[i].entries) + 1
         /\ rows[i].there => work[i].stage \in {"persisted", "stranded", "closed", "died"}
         /\ work[i].stage = "closed" => runs[i] # "SCANNING"
    /\ changes \in 0..MaxChanges /\ faults \in 0..MaxFaults

(* What the writers build passes their own validation, except when the      *)
(* caller named a Scope twice (_persist raises after the scan is paid for,  *)
(* and the Run stays SCANNING).                                             *)
WritersPassValidation ==
    \A i \in Snapshots : work[i].stage = "refused" =>
        \E k, l \in 1..Len(work[i].scopes) : k # l /\ work[i].scopes[k] = work[i].scopes[l]

(* Whatever the files do meanwhile, no more than the budget and one chunk   *)
(* is ever read, and digests are of no more bytes than the budget.          *)
HashBudgetKept ==
    \A i \in Snapshots :
        /\ work[i].read <= MaxTotal + 1
        /\ SumOver(work[i].entries, LAMBDA e : e.payload.bytes) <= MaxTotal

(* What VALID vouches for: the file is what its writer sealed, and the rows *)
(* are those a rebuild would write from it, except in the columns that      *)
(* _verify_snapshot leaves out of its comparison: scope_ids_json, and the   *)
(* budget, hash policy, allocation and payload summaries, for which summary *)
(* stands (ProjectionIsVerified).                                           *)
ValidIsEvidence ==
    \A i \in Snapshots : Verdict(i) = "VALID" =>
        /\ files[i].kind = "json" /\ harm[i] \notin FileDamages
        /\ rows[i] = [IndexRows(FromEvidence(files[i].fact))
                        EXCEPT !.scope_ids = rows[i].scope_ids, !.summary = rows[i].summary]

(* A Snapshot whose Run was cancelled or whose writer died before its       *)
(* closing transition is never VALID, although its file and rows are whole. *)
UnfinishedIsNeverValid ==
    \A i \in Snapshots : Verdict(i) = "VALID" => work[i].stage = "closed"

(* A Run once cancelled is never the Run of a VALID Snapshot.               *)
CancelledStep ==
    \A i \in Snapshots : runs[i] = "CANCELLED" => runs'[i] = "CANCELLED" /\ Verdict(i)' # "VALID"

CancelledStaysCancelled == [][CancelledStep]_vars

(* A rebuild makes every finished Snapshot VALID again, whatever had been   *)
(* damaged in the index.                                                    *)
RebuildStep ==
    Rebuild => \A i \in Snapshots : work[i].stage = "closed" => Verdict(i)' = "VALID"

RebuildRestores == [][RebuildStep]_vars

(* Pages followed by has_more list, once and in canonical order, every      *)
(* Entry at or below the prefix.                                            *)
PagesCoverEntries ==
    \A i \in Snapshots : rows[i].there => \A prefix \in PathPrefixes, limit \in Limits :
        LET Offset(k) == (k - 1) * limit
            more == {k \in 1..Len(Objects) : Page(i, prefix, limit, Offset(k)).has_more}
            listed == FlattenSeq([k \in 1..(Cardinality(more) + 1) |-> Page(i, prefix, limit, Offset(k)).entries])
        IN  /\ \A k, l \in 1..Len(listed) : k < l => listed[k].at < listed[l].at
            /\ \A e \in Range(rows[i].entries) : Within(Path(e), prefix) => e \in Range(listed)

-----------------------------------------------------------------------------
(* docs/EVIDENCE-AND-STORAGE.md:28-35: before a historical Snapshot is      *)
(* published, the SQLite projection is verified against the Evidence: no    *)
(* damage, of any column, is VALID.                                         *)
ProjectionIsVerified ==
    \A i \in Snapshots : harm[i] # "none" => Verdict(i) # "VALID"

(* tests/test_snapshot_inventory.py: damaged Snapshot Evidence does not     *)
(* hide the valid inventory.                                                *)
DamageHidesNoOther ==
    \A i \in Snapshots : Verdict(i) = "VALID" => ~ Inventory.raised /\ i \in Inventory.shown

=============================================================================
