---------------------------- MODULE StorageHealth ----------------------------
(***************************************************************************)
(* What STEWARD says of its own storage.  Four judges read the ledger and  *)
(* the index: verify_evidence and classify_operational_evidence            *)
(* (storage.py), the Snapshot inventory with its classification and        *)
(* verify_snapshot (snapshots.py); storage_status composes them and the    *)
(* two rebuilds obey them.  Legacy Snapshots are written in steps that may *)
(* die, and files and rows may be damaged.  Run and Snapshot r share a     *)
(* number: Run r holds its creation record and Snapshot r, whose Evidence  *)
(* has id r; a copied Evidence file has id Copy.  Contents are reduced to  *)
(* identities, Entries to two keys; the governed workflow is left to       *)
(* SnapshotLifecycle, reuse to PayloadReuse, races to IndexMaintenance.    *)
(***************************************************************************)
EXTENDS Naturals, FiniteSets

CONSTANTS Runs,       \* a set of numbers 1..n
          MaxFaults   \* bound: changes made outside the product

RunsAreNumbers == Runs \subseteq Nat \ {0} /\ MaxFaults \in Nat

VARIABLES writer,   \* Run -> how far its command is
          ledger,   \* Run -> the status its ledger ends with
          facts,    \* Snapshot Evidence files
          index,    \* runs, records, rows and entries of state.db
          tmp,      \* a crash left a .tmp file in a Run directory
          faults,   \* damage so far
          rebuilt   \* nothing happened since the index was rebuilt

vars == <<writer, ledger, facts, index, tmp, faults, rebuilt>>

Copy == 10 + Cardinality(Runs)
Created(r) == 20 + r              \* the Evidence id of Run r's first record
EvidenceIds == Runs \cup {Copy}
Keys == {1, 2}
Final(status) == IF status = "complete" THEN "scanned" ELSE "partial"

Path(r, k) == <<r, k>>            \* 1 the creation record, 2 the Snapshot, 3 a copy
Dirs == {r \in Runs : writer[r].stage # "none"}
Files == {Path(r, 1) : r \in Dirs} \cup {f.path : f \in facts}

HealthTypeOK ==
    /\ \A r \in Runs :
         /\ writer[r].stage \in {"none", "created", "written", "committed", "closed"}
         /\ ledger[r] \in {"none", "scanning", "scanned", "partial"}
         /\ writer[r].stage = "closed" => ledger[r] = Final(writer[r].status)
    /\ \A f \in facts : f.snap \in Runs /\ f.ev \in EvidenceIds /\ f.path[1] = f.run
    /\ index.rows \subseteq [snap : Runs, ev : EvidenceIds \cup {Created(r) : r \in Runs},
                             path : Runs \X (1..3), run : Runs]
    /\ index.entries \subseteq [snap : Runs, key : Keys, own : BOOLEAN]
    /\ faults \in 0..MaxFaults /\ tmp \in BOOLEAN /\ rebuilt \in BOOLEAN

Init ==
    /\ writer = [r \in Runs |-> [stage |-> "none", status |-> "complete", dead |-> FALSE]]
    /\ ledger = [r \in Runs |-> "none"]
    /\ facts = {}
    /\ index = [runs |-> {}, records |-> {}, rows |-> {}, entries |-> {}]
    /\ tmp = FALSE /\ faults = 0 /\ rebuilt = FALSE

-----------------------------------------------------------------------------
(* create_snapshot, taken apart where a crash shows.                        *)
RunRow(r, status, last) == [run |-> r, status |-> status, last |-> last]
Rows(f) == [snap |-> f.snap, ev |-> f.ev, path |-> f.path, run |-> f.run]
EntriesOf(s) == {[snap |-> s, key |-> k, own |-> TRUE] : k \in Keys}
Record(ev, type, path) == [ev |-> ev, type |-> type, path |-> path]

Alive(r, stage) == writer[r].stage = stage /\ ~ writer[r].dead
Advance(r, stage) == writer' = [writer EXCEPT ![r].stage = stage]

Create(r) ==
    /\ Alive(r, "none")
    /\ \E status \in {"complete", "partial"} :
         writer' = [writer EXCEPT ![r].stage = "created", ![r].status = status]
    /\ ledger' = [ledger EXCEPT ![r] = "scanning"]
    /\ index' = [index EXCEPT !.runs = @ \cup {RunRow(r, "scanning", 1)},
                              !.records = @ \cup {Record(Created(r), "run.created", Path(r, 1))}]
    /\ rebuilt' = FALSE
    /\ UNCHANGED <<facts, tmp, faults>>

WriteEvidence(r) ==
    /\ Alive(r, "created") /\ Advance(r, "written")
    /\ facts' = facts \cup {[path |-> Path(r, 2), run |-> r, snap |-> r, ev |-> r, valid |-> TRUE,
                             status |-> writer[r].status]}
    /\ UNCHANGED <<ledger, index, tmp, faults, rebuilt>>

CommitRows(r) ==
    /\ Alive(r, "written") /\ Advance(r, "committed")
    /\ index' = [index EXCEPT !.runs = (@ \ {RunRow(r, "scanning", 1)}) \cup {RunRow(r, "scanning", 2)},
                              !.records = @ \cup {Record(r, "filesystem.snapshot", Path(r, 2))},
                              !.rows = @ \cup {[snap |-> r, ev |-> r, path |-> Path(r, 2), run |-> r]},
                              !.entries = @ \cup EntriesOf(r)]
    /\ UNCHANGED <<ledger, facts, tmp, faults, rebuilt>>

\* deviation: every Run is closed as scanned
CloseAsScanned(r) ==
    /\ Alive(r, "committed") /\ Advance(r, "closed")
    /\ ledger' = [ledger EXCEPT ![r] = "scanned"]
    /\ index' = [index EXCEPT !.runs = (@ \ {RunRow(r, "scanning", 2)}) \cup {RunRow(r, "scanned", 2)}]
    /\ UNCHANGED <<facts, tmp, faults, rebuilt>>

CloseRun(r) ==
    /\ Alive(r, "committed") /\ Advance(r, "closed")
    /\ ledger' = [ledger EXCEPT ![r] = Final(writer[r].status)]
    /\ index' = [index EXCEPT !.runs = (@ \ {RunRow(r, "scanning", 2)})
                                       \cup {RunRow(r, Final(writer[r].status), 2)}]
    /\ UNCHANGED <<facts, tmp, faults, rebuilt>>

Crash(r) ==
    /\ writer[r].stage \in {"created", "written", "committed"} /\ ~ writer[r].dead
    /\ writer' = [writer EXCEPT ![r].dead = TRUE]
    /\ tmp' \in {tmp, tmp \/ writer[r].stage \in {"created", "committed"}}
    /\ UNCHANGED <<ledger, facts, index, faults, rebuilt>>

-----------------------------------------------------------------------------
(* Damage, of the kinds the inventory's tests inflict.                      *)
Quiet == \A r \in Runs : writer[r].stage \in {"none", "closed"} \/ writer[r].dead
Fault == faults < MaxFaults /\ Quiet /\ faults' = faults + 1 /\ rebuilt' = FALSE

DamageLedger ==
    /\ Fault
    /\ \/ \E f \in facts : \/ facts' = facts \ {f}
                           \/ f.valid /\ facts' = (facts \ {f}) \cup {[f EXCEPT !.valid = FALSE]}
       \/ \E f \in facts, r \in Dirs :
            /\ \A g \in facts : g.ev # Copy
            /\ facts' = facts \cup {[f EXCEPT !.path = Path(r, 3), !.run = r, !.ev = Copy]}
    /\ UNCHANGED <<writer, ledger, index, tmp>>

DamageIndex ==
    /\ Fault
    /\ \E change \in {[index EXCEPT !.runs = @ \ {x}] : x \in index.runs}
                     \cup {[index EXCEPT !.records = @ \ {x}] : x \in index.records}
                     \cup {[index EXCEPT !.rows = @ \ {x}] : x \in index.rows}
                     \cup {[index EXCEPT !.entries = @ \ {x}] : x \in index.entries}
                     \cup {[index EXCEPT !.entries = (@ \ {x}) \cup {[x EXCEPT !.own = FALSE]}] :
                             x \in index.entries}
                     \cup {[index EXCEPT !.rows = (@ \ {x[1]}) \cup
                              {[x[1] EXCEPT !.ev = x[2].ev, !.path = x[2].path]}] :
                             x \in index.rows \X index.records} :
         change # index /\ index' = change
    /\ UNCHANGED <<writer, ledger, facts, tmp>>

-----------------------------------------------------------------------------
(* The ledger's judges.  A Run directory verifies when its records follow   *)
(* each other, none missing before the last, copied in or damaged; with the *)
(* index at hand, when it is no shorter than the Run's row says.  The       *)
(* transition that closes a Run is not counted.                             *)
FactsOf(r) == {f \in facts : f.path[1] = r}
Last(r) == 1 + Cardinality(FactsOf(r))
ChainValid(r) ==
    /\ \A f \in FactsOf(r) : f.valid
    /\ \/ {f.path : f \in FactsOf(r)} = {Path(r, 2)}
       \/ FactsOf(r) = {} /\ writer[r].stage # "closed"
LedgerValid(r) == ChainValid(r) /\ \A x \in index.runs : x.run = r => x.last <= Last(r)

(* The run row against the chain: status and last sequence.                 *)
IndexConsistent(r) == LedgerValid(r) => RunRow(r, ledger[r], Last(r)) \in index.runs

HasTwin(f) == \E g \in facts \ {f} : g.snap = f.snap \/ g.run = f.run \/ g.ev = f.ev
Compatible(f, status) == status = Final(f.status)

(* verify_evidence: a Run's ledger, and every Snapshot Evidence in it       *)
(* against the Run's row and its siblings.                                  *)
FactVerifies(f) ==
    /\ f.valid /\ ~ HasTwin(f)
    /\ \E row \in index.runs : row.run = f.run /\ Compatible(f, row.status)
EvidenceVerifies(r) == LedgerValid(r) /\ \A f \in facts : f.run = r => FactVerifies(f)

(* classify_operational_evidence: integrity, then what the lifecycle says.  *)
Sound(f) == f.valid /\ ~ HasTwin(f) /\ ChainValid(f.run)
Eligible(f) == Sound(f) /\ Compatible(f, ledger[f.run])
Ineligible(f) == Sound(f) /\ f.status = "partial" /\ ledger[f.run] = "scanning"
ClassificationComplete ==
    (\A r \in Dirs : ChainValid(r)) /\ (\A f \in facts : Eligible(f) \/ Ineligible(f))

-----------------------------------------------------------------------------
(* _inspect_snapshot_inventory: codes of an Evidence file, of an index row. *)
Valid == {f \in facts : f.valid}
RunPresent(r) == \E x \in index.runs : x.run = r
RowsWith(ev) == {x \in index.rows : x.ev = ev}
CopiedSnapshot(s) == \E f, g \in Valid : f.snap = s /\ g.snap = s /\ f.ev # g.ev
SharedRun(r) == \E f, g \in Valid : f.run = r /\ g.run = r /\ f.snap # g.snap

When(condition, code) == IF condition THEN {code} ELSE {}

FactCodes(f) ==
    When(~ RunPresent(f.run), "RUN_MISSING") \cup
    IF ~ f.valid THEN {"EVIDENCE_INVALID"} ELSE
        When(CopiedSnapshot(f.snap), "ID_DUPLICATE")
        \cup When(SharedRun(f.run), "RUN_DUPLICATE")
        \cup When(~ \E x \in RowsWith(f.ev) : x.snap = f.snap, "EVIDENCE_ORPHANED")
        \cup When(\E x \in RowsWith(f.ev) : x.snap # f.snap, "INDEX_SNAPSHOT_ID_MISMATCH")
        \cup When(RowsWith(f.ev) = {} /\ \E x \in index.rows : x.snap = f.snap,
                  "INDEX_EVIDENCE_ID_MISMATCH")

RowCodes(x) ==
    LET matching == {f \in facts : f.ev = x.ev} IN
    When(CopiedSnapshot(x.snap), "ID_DUPLICATE")
    \cup When(\E f \in matching : f.valid /\ SharedRun(f.run), "RUN_DUPLICATE")
    \cup When(RowsWith(x.ev) # {x}, "EVIDENCE_INDEX_DUPLICATE")
    \cup When(\/ \E f \in matching : f.valid /\ f.snap # x.snap
              \/ matching # {} /\ ~ \E f \in matching : f.valid /\ f.snap = x.snap,
              "INDEX_SNAPSHOT_ID_MISMATCH")
    \cup When(\/ \E f \in Valid : f.snap = x.snap /\ RowsWith(f.ev) = {}
              \/ \E f \in facts : f.path = x.path /\ f.ev # x.ev, "INDEX_EVIDENCE_ID_MISMATCH")
    \cup When(\/ ~ \E d \in index.records : d.ev = x.ev
              \/ ~ \E f \in matching : f.path = x.path, "INDEX_EVIDENCE_MISSING")
    \cup When(\E d \in index.records : d.ev = x.ev /\ d.type # "filesystem.snapshot",
              "INDEX_EVIDENCE_TYPE_MISMATCH")
    \cup When(~ RunPresent(x.run), "RUN_MISSING")
    \cup When(\E e \in index.entries : e.snap = x.snap /\ ~ e.own, "ENTRY_CROSS_REFERENCE")

(* One item per Evidence file with its exact rows, per row without one, and *)
(* per Snapshot that has Entries but no row.                                *)
Exact(f) == {x \in RowsWith(f.ev) : x.snap = f.snap}
EntryCount(s) == Cardinality({e \in index.entries : e.snap = s})
FactItem(f) ==
    [of |-> f.path, snap |-> f.snap, ev |-> f.ev, present |-> TRUE, indexed |-> Exact(f) # {},
     run |-> RunPresent(f.run), count |-> EntryCount(f.snap),
     codes |-> FactCodes(f) \cup UNION {RowCodes(x) : x \in Exact(f)}]
RowItem(x) ==
    [of |-> x.path, snap |-> x.snap, ev |-> x.ev, present |-> \E f \in facts : f.ev = x.ev,
     indexed |-> TRUE, run |-> RunPresent(x.run), count |-> EntryCount(x.snap), codes |-> RowCodes(x)]
OrphanItem(s) ==
    [of |-> <<s, 0>>, snap |-> s, ev |-> 0, present |-> FALSE, indexed |-> FALSE, run |-> FALSE,
     count |-> EntryCount(s), codes |-> {"ENTRY_ORPHANED"}]
Inventory ==
    {FactItem(f) : f \in facts}
    \cup {RowItem(x) : x \in {y \in index.rows : \A f \in facts : y \notin Exact(f)}}
    \cup {OrphanItem(s) : s \in {t \in Runs : EntryCount(t) > 0 /\ \A x \in index.rows : x.snap # t}}

(* classify_snapshot_inventory: absences become codes, and the worst counts.*)
Codes(item) ==
    item.codes \cup When(~ item.present, "EVIDENCE_MISSING") \cup When(~ item.run, "RUN_MISSING")
    \cup When(~ item.indexed /\ item.present /\ item.run, "INDEX_MISSING")
Degrading == {"EVIDENCE_ORPHANED", "INDEX_MISSING"}
InventoryStatus ==
    LET codes == UNION {Codes(item) : item \in Inventory}
    IN IF codes = {} THEN "HEALTHY" ELSE IF codes \subseteq Degrading THEN "DEGRADED" ELSE "INCONSISTENT"

(* _operational_inventory_assessment: with a lifecycle exclusion the index  *)
(* is compared with what a replay of the eligible Snapshots would build.    *)
OperationalStatus ==
    LET of(f) == CHOOSE i \in Inventory :
                   /\ i.ev = f.ev
                   /\ \A j \in Inventory : j.ev = f.ev => j.snap <= i.snap
        planned == {f.ev : f \in facts}
        eligible == {f \in facts : Eligible(f)}
    IN IF /\ \A f \in facts :
               IF Eligible(f)
               THEN of(f).indexed /\ of(f).count = Cardinality(Keys) /\ of(f).codes = {}
               ELSE ~ of(f).indexed /\ of(f).count = 0
          /\ \A i \in Inventory : i.ev \notin planned => ~ i.indexed /\ i.count = 0
          /\ Cardinality(index.rows) = Cardinality(eligible)
          /\ Cardinality(index.entries) = Cardinality(Keys) * Cardinality(eligible)
       THEN "HEALTHY" ELSE "INCONSISTENT"

(* storage_status.  Rows that break a foreign key make the database CORRUPT *)
(* before anything else is looked at.                                       *)
ForeignKeysHold ==
    /\ \A d \in index.records : RunPresent(d.path[1])
    /\ \A x \in index.rows : RunPresent(x.run) /\ \E d \in index.records : d.ev = x.ev
    /\ \A e \in index.entries : \E x \in index.rows : x.snap = e.snap

\* deviation: Snapshots are left out of the ledger's verdict
LedgerOnly(r) == LedgerValid(r)

Excluding == ClassificationComplete /\ \E f \in facts : Ineligible(f)
Accepted(r) == IF Excluding THEN LedgerValid(r) ELSE EvidenceVerifies(r)
BaseStatus ==
    IF \/ \E d \in index.records : d.path \notin Files
       \/ \E f \in Files : \A d \in index.records : d.path # f
       \/ \E r \in Dirs : ~ Accepted(r) \/ ~ IndexConsistent(r)
    THEN "INCONSISTENT" ELSE IF tmp THEN "DEGRADED" ELSE "HEALTHY"

Worse(a, b) == IF "INCONSISTENT" \in {a, b} THEN "INCONSISTENT"
               ELSE IF "DEGRADED" \in {a, b} THEN "DEGRADED" ELSE "HEALTHY"
StorageStatus ==
    IF ~ ForeignKeysHold THEN "CORRUPT"
    ELSE Worse(BaseStatus, IF Excluding THEN OperationalStatus ELSE InventoryStatus)

(* verify_snapshot of an index row.                                         *)
VerifySnapshot(x) ==
    LET found == {f \in facts : f.path = x.path /\ f.valid /\ f.ev = x.ev /\ f.run = x.run
                                /\ f.snap = x.snap}
    IN CASE ~ \E f \in found, r \in index.runs : r.run = x.run /\ Compatible(f, r.status) -> "INVALID"
         [] {e \in index.entries : e.snap = x.snap} # EntriesOf(x.snap) -> "INCOMPLETE"
         [] OTHER -> "VALID"

-----------------------------------------------------------------------------
(* The index a replay builds from the eligible Evidence.                    *)
\* deviation: the creation record of an excluded Run is left out with its Snapshot
ReplayedEligibleOnly ==
    LET eligible == {f \in facts : Eligible(f)} IN
    [runs |-> {RunRow(r, ledger[r], Last(r)) : r \in Dirs},
     records |-> {Record(Created(r), "run.created", Path(r, 1)) : r \in Dirs}
                 \cup {Record(f.ev, "filesystem.snapshot", f.path) : f \in eligible},
     rows |-> {Rows(f) : f \in eligible},
     entries |-> UNION {EntriesOf(f.snap) : f \in eligible}]

Replayed ==
    LET eligible == {f \in facts : Eligible(f)} IN
    [runs |-> {RunRow(r, ledger[r], Last(r)) : r \in Dirs},
     records |-> {Record(Created(r), "run.created", Path(r, 1)) : r \in Dirs}
                 \cup {Record(f.ev, "filesystem.snapshot", f.path) : f \in facts},
     rows |-> {Rows(f) : f \in eligible},
     entries |-> UNION {EntriesOf(f.snap) : f \in eligible}]

(* storage rebuild-index (strict) or replay and replacement (operational).  *)
StrictAllowed == Dirs # {} /\ \A r \in Dirs : EvidenceVerifies(r)
Rebuild ==
    /\ Quiet /\ (StrictAllowed \/ ClassificationComplete)
    /\ index' = Replayed
    /\ rebuilt' = TRUE
    /\ UNCHANGED <<writer, ledger, facts, tmp, faults>>

Next ==
    \/ \E r \in Runs : Create(r) \/ WriteEvidence(r) \/ CommitRows(r) \/ CloseRun(r) \/ Crash(r)
    \/ DamageLedger \/ DamageIndex \/ Rebuild

Spec == Init /\ [][Next]_vars

-----------------------------------------------------------------------------
(* After a rebuild the status blames the index for nothing, whatever was    *)
(* excluded: README.md, "This distinction lets a historical inconsistency   *)
(* remain visible without treating a healthy operational index as           *)
(* corrupted."  A .tmp file of a crash is all that may be left to say.      *)
RebuiltIsHealthy == rebuilt => StorageStatus = IF tmp THEN "DEGRADED" ELSE "HEALTHY"

(* HEALTHY says that ledger and index agree on every Run, record and       *)
(* Snapshot, that the index holds no Entry row a replay would not write,    *)
(* and that every indexed Snapshot is VALID to verify_snapshot.  There is   *)
(* one exception, as the code has it: Entry rows lost from a Snapshot leave *)
(* it INCOMPLETE and the status HEALTHY, because the inventory has no code  *)
(* for them (LostEntriesDegrade); with a lifecycle exclusion the comparison *)
(* of counts finds those too.                                               *)
HealthyIsTrue ==
    StorageStatus = "HEALTHY" =>
        /\ ClassificationComplete
        /\ index.rows = Replayed.rows /\ index.runs = Replayed.runs
        /\ {d.path : d \in index.records} = {d.path : d \in Replayed.records}
        /\ index.entries \subseteq Replayed.entries
        /\ \A x \in index.rows :
             VerifySnapshot(x) \in IF Excluding THEN {"VALID"} ELSE {"VALID", "INCOMPLETE"}

(* tests/test_snapshot_integrity_classification.py: lost or foreign Entry   *)
(* rows are "rebuildable derived index facts" that degrade the status; the  *)
(* inventory has no code for them.                                          *)
LostEntriesDegrade ==
    StorageStatus = "HEALTHY" => \A x \in index.rows : VerifySnapshot(x) = "VALID"

(* docs/EVIDENCE-AND-STORAGE.md: the database "can be discarded and         *)
(* reconstructed when necessary".  A legacy Run that died after a COMPLETE  *)
(* Snapshot is neither eligible nor excluded and stops every rebuild.       *)
UndamagedRebuilds ==
    faults = 0 /\ Quiet /\ Dirs # {} => ClassificationComplete
=============================================================================
