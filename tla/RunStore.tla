------------------------------ MODULE RunStore ------------------------------
(***************************************************************************)
(* The write path of STEWARD's storage: create_run and transition_run      *)
(* (runs.py) and _persist (snapshots.py).  Each operation                  *)
(*                                                                         *)
(*   1. opens the SQLite index, takes its write lock (BEGIN IMMEDIATE),    *)
(*      reads the Run row, decides, builds one Evidence record and checks  *)
(*      that no file has its name                          -- Begin...     *)
(*   2. publishes the record as an immutable file (os.replace)             *)
(*                                                         -- Publish      *)
(*   3. writes the derived rows and commits                -- Commit       *)
(*                                                                         *)
(* Two durable stores are thus written one after the other, and an I/O     *)
(* error, a lock time-out or the death of the process can come between     *)
(* any two steps: SQLite rolls back, the published file stays.             *)
(*                                                                         *)
(* Each process is one command of the CLI or one caller of the Python API. *)
(* Here the callers are arbitrary; SnapshotAcquisition reuses the steps of *)
(* this module for the workflows the program really runs.                  *)
(***************************************************************************)
EXTENDS EvidenceLedger

CONSTANTS Runs,        \* Run identifiers (UUIDs)
          Procs,       \* processes
          MaxFaults,   \* bound: failures and crashes in one behaviour
          MaxSequence, \* bound: length of one Run's indexed ledger
          Targets      \* statuses that callers of transition_run ask for

ASSUME BoundsAssumption == MaxFaults \in Nat /\ MaxSequence \in Nat

ASSUME TargetsAssumption == Targets \subseteq RunStatus

VARIABLES files,  \* files[r]: the Evidence files in the directory of Run r
          db,     \* db[r]: what the SQLite index holds about Run r
          op,     \* op[p]: the storage operation process p is executing
          faults  \* failures so far (only to bound them)

storeVars == <<files, db, op, faults>>

\* The rows of the runs, evidence_records and snapshots tables of one Run.
Row == [status          : RunStatus \cup {"absent"},
        last_sequence   : Nat,
        last_digest     : Digests,
        records         : Seq(Record),
        snapshot        : SnapshotStatus \cup {None}]

NoRow == [status |-> "absent", last_sequence |-> 0, last_digest |-> NoDigest,
          records |-> <<>>, snapshot |-> None]

\* pc "staged": transaction open, record built, its name seen free;
\*    "published": transaction open, record on disk;
\*    "append": no transaction, record built, its name seen free.
NoRun == "no_run"

Idle == [pc |-> "idle", run |-> NoRun, item |-> CreatedRecord("plain")]

Op == {Idle} \cup [pc   : {"staged", "published", "append"},
                   run  : Runs,
                   item : Record]

\* Process p is inside a SQLite write transaction.
InTransaction(p) == op[p].pc \in {"staged", "published"}

\* Deviation: the transaction is opened deferred, without the write lock.
DeferredLock == TRUE

WriteLockFree == \A q \in Procs : ~InTransaction(q)

\* Deviation: write_evidence does not look whether the file exists.
NameUnchecked(r, item) == TRUE

\* final.exists() of write_evidence.
NameFree(r, item) == \A e \in files[r] : filename(e) # filename(item)

-----------------------------------------------------------------------------
(* The steps of one operation.                                             *)

\* BEGIN IMMEDIATE succeeded, the record was built and its name is free.
Stage(p, r, item) ==
  /\ op[p] = Idle
  /\ WriteLockFree
  /\ NameFree(r, item)
  /\ op' = [op EXCEPT ![p] = [pc |-> "staged", run |-> r, item |-> item]]
  /\ UNCHANGED <<files, db, faults>>

\* create_run: the run identifier is a fresh UUID.
BeginCreate(p, r, m) ==
  /\ db[r] = NoRow
  /\ Stage(p, r, CreatedRecord(m))

\* transition_run, when the Run is indexed and the transition is allowed.
BeginTransition(p, r, t) ==
  /\ db[r].status # "absent"
  /\ validate_transition(db[r].status, t)
  /\ Stage(p, r, TransitionRecord(db[r].last_sequence, db[r].last_digest,
                                  db[r].status, t, "index"))

\* _persist: it reads the Run row but does not look at its status.
BeginPersist(p, r, c) ==
  /\ db[r].status # "absent"
  /\ Stage(p, r, SnapshotRecord(db[r].last_sequence, db[r].last_digest, c))

\* os.replace(temp, final): atomic, and it would overwrite a file that
\* appeared under the name after NameFree was evaluated.
Replaced(r, item) ==
  [files EXCEPT ![r] = {e \in @ : filename(e) # filename(item)} \cup {item}]

Publish(p) ==
  /\ op[p].pc = "staged"
  /\ files' = Replaced(op[p].run, op[p].item)
  /\ op' = [op EXCEPT ![p].pc = "published"]
  /\ UNCHANGED <<db, faults>>

\* Deviation: a Snapshot's record is taken for a transition's.
WrittenAsTransition(row, item) ==
  [status        |-> IF item.type = "run.created" THEN "created" ELSE item.to,
   last_sequence |-> item.seq,
   last_digest   |-> digest(item),
   records       |-> Append(row.records, item),
   snapshot      |-> row.snapshot]

\* Deviation: the UPDATE of runs forgets last_evidence_digest.
WrittenWithoutDigest(row, item) ==
  [WrittenAsTransition(row, item) EXCEPT
     !.status = IF item.type = "filesystem.snapshot" THEN row.status ELSE @,
     !.last_digest = row.last_digest]

\* The row written for a record, by the operation that built the record.
Written(row, item) ==
  [status        |-> CASE item.type = "run.created" -> "created"
                       [] item.type = "run.state_transition" -> item.to
                       [] item.type = "filesystem.snapshot" -> row.status,
   last_sequence |-> item.seq,
   last_digest   |-> digest(item),
   records       |-> Append(row.records, item),
   snapshot      |-> IF item.type = "filesystem.snapshot" THEN item.snap
                     ELSE row.snapshot]

\* Deviation: the rows are committed before the file is published.
CommitFirst(p) ==
  /\ op[p].pc = "staged"
  /\ db' = [db EXCEPT ![op[p].run] = Written(@, op[p].item)]
  /\ op' = [op EXCEPT ![p] = Idle]
  /\ UNCHANGED <<files, faults>>

\* Deviation: the connection is closed without a commit.
CommitForgotten(p) ==
  /\ op[p].pc = "published"
  /\ op' = [op EXCEPT ![p] = Idle]
  /\ UNCHANGED <<files, db, faults>>

Commit(p) ==
  /\ op[p].pc = "published"
  /\ db' = [db EXCEPT ![op[p].run] = Written(@, op[p].item)]
  /\ op' = [op EXCEPT ![p] = Idle]
  /\ UNCHANGED <<files, faults>>

\* The operation ends by an exception (OSError, sqlite3.Error, failed
\* post-write verification, KeyboardInterrupt) or with its process: the
\* transaction is rolled back, a published file stays.
Abort(p) ==
  /\ op[p] # Idle
  /\ faults < MaxFaults
  /\ faults' = faults + 1
  /\ op' = [op EXCEPT ![p] = Idle]
  /\ UNCHANGED <<files, db>>

-----------------------------------------------------------------------------
Init ==
  /\ files = [r \in Runs |-> {}]
  /\ db = [r \in Runs |-> NoRow]
  /\ op = [p \in Procs |-> Idle]
  /\ faults = 0

\* The callers of create_run use a new identifier; those of _persist call it
\* once for a Run.
Call(p) ==
  \E r \in Runs :
    /\ db[r].last_sequence < MaxSequence
    /\ \/ \E m \in Origin : files[r] = {} /\ BeginCreate(p, r, m)
       \/ \E t \in Targets : BeginTransition(p, r, t)
       \/ \E c \in SnapshotStatus :
            db[r].snapshot = None /\ BeginPersist(p, r, c)

Next == \E p \in Procs : Call(p) \/ Publish(p) \/ Commit(p) \/ Abort(p)

Spec == Init /\ [][Next]_storeVars

-----------------------------------------------------------------------------
TypeOK ==
  /\ files \in [Runs -> SUBSET Record]
  /\ db \in [Runs -> Row]
  /\ op \in [Procs -> Op]
  /\ faults \in 0..MaxFaults

-----------------------------------------------------------------------------
(* Properties.                                                             *)

\* item is a record that the operations build from this row.
Fits(row, item) ==
  \/ /\ item.type = "run.created"
     /\ row = NoRow
     /\ item = CreatedRecord(item.meta)
  \/ /\ item.type = "run.state_transition"
     /\ row.status # "absent" /\ item.to \in RunStatus
     /\ validate_transition(row.status, item.to)
     /\ item = TransitionRecord(row.last_sequence, row.last_digest, row.status,
                                item.to, "index")
  \/ /\ item.type = "filesystem.snapshot"
     /\ row.status # "absent" /\ item.snap \in SnapshotStatus
     /\ item = SnapshotRecord(row.last_sequence, row.last_digest, item.snap)

\* What an operation read when it began still holds whenever it acts on it:
\* the row it built its record from is still that row, the name it saw free
\* is free until it publishes, and its file is there until it commits.
\* write_evidence and the INSERTs after it do not look again; only the SQLite
\* write lock keeps other operations out (BEGIN IMMEDIATE in create_run,
\* transition_run and _persist).
InFlight ==
  \A p \in Procs :
    /\ op[p].pc # "append"
    /\ InTransaction(p) => Fits(db[op[p].run], op[p].item)
    /\ op[p].pc = "staged" => NameFree(op[p].run, op[p].item)
    /\ op[p].pc = "published" => op[p].item \in files[op[p].run]

OneWriter == \A p, q \in Procs : InTransaction(p) /\ InTransaction(q) => p = q


\* The index is a verified ledger of its own: for every indexed Run the
\* evidence_records rows form a chain that _verify_run would accept, and the
\* denormalised columns of the runs row (status, last_sequence,
\* last_evidence_digest) are those of that chain.  create_run, transition_run
\* and _persist each update four columns in two tables; any interleaving of
\* them, with failures at any point, keeps the columns in step.
RowVerifies(row) ==
  /\ row.status = "absent" <=> row.last_sequence = 0
  /\ Len(row.records) = row.last_sequence
  /\ ChainVerifies(row.records)
  /\ row.last_sequence > 0 =>
       /\ row.status = StatusOf(row.records)
       /\ row.last_digest = digest(row.records[row.last_sequence])

IndexVerifies == \A r \in Runs : RowVerifies(db[r])

\* Evidence is the fact source: whatever the index says about a Run is backed
\* by a file that is still on disk with that content.  It holds because a
\* record is published before its rows are committed and never replaced.
IndexNeverAhead ==
  \A r \in Runs : \A i \in 1..Len(db[r].records) : db[r].records[i] \in files[r]

\* An Evidence file, once published, is never rewritten or removed
\* (write_evidence: "never overwrite it"), although its existence check and
\* its os.replace are two steps.
EvidenceImmutable == [][\A r \in Runs : files[r] \subseteq files'[r]]_storeVars

\* A file is stranded when no row describes it and no open transaction is
\* about to.
Stranded(r) ==
  {e \in files[r] :
     /\ \A i \in 1..Len(db[r].records) : db[r].records[i] # e
     /\ \A p \in Procs : ~(op[p].pc = "published" /\ op[p].run = r /\ op[p].item = e)}

\* Evidence runs ahead of the index only through failures, and each failure
\* strands at most one file over all Runs: a failed operation cannot leave
\* two files behind, and a later operation on a Run never strands the files
\* of an earlier one.
StrandedFiles == UNION {{<<r, e>> : e \in Stranded(r)} : r \in Runs}

StrandedBound == Cardinality(StrandedFiles) <= faults
=============================================================================
