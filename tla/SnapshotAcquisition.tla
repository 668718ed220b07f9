------------------------- MODULE SnapshotAcquisition -------------------------
(***************************************************************************)
(* The supported Snapshot acquisition workflow and its explicit recovery   *)
(* (snapshot_acquisition.py), composed with the other commands that write  *)
(* the same storage: "snapshots create" (the legacy create_snapshot),      *)
(* "runs cancel", and any command that merely opens the index read-write.  *)
(*                                                                         *)
(* Acquisition and recovery exclude one another through a file lease.  The *)
(* legacy commands know nothing of the lease; SQLite's write lock is all   *)
(* they share with acquisition.  Recovery appends Evidence from the ledger *)
(* without opening SQLite at all, then rebuilds the index from Evidence:   *)
(* a candidate database is replayed, the official one is backed up, and    *)
(* the candidate replaces it if the official one is still what was backed  *)
(* up (snapshot_replay.py, snapshot_backup.py, snapshot_replacement.py).   *)
(*                                                                         *)
(* A guarded reader (database.py) refuses a database that has a WAL, SHM   *)
(* or journal file beside it.  SQLite removes those when the last          *)
(* connection closes; a process that dies with a connection open leaves    *)
(* them behind.                                                            *)
(***************************************************************************)
EXTENDS RunStore, SnapshotLifecycle

CONSTANTS NoProc,   \* holder of a free lease
          Commands  \* commands that are run: see StartCommand

ASSUME NoProcAssumption == NoProc \notin Procs

VARIABLES lease,     \* process that holds .snapshot-acquisition.lock
          sidecar,   \* a dead process left SQLite sidecar files behind
          wf,        \* wf[p]: the command that process p is running
          published  \* published[r]: Snapshot status reported for Run r

vars == <<files, db, op, faults, lease, sidecar, wf, published>>

EmptyDb == [r \in Runs |-> NoRow]

\* then: what follows a rebuild; candidate and backup: database images.
NoCommand == [cmd |-> "none", step |-> "idle", run |-> NoRun, snap |-> None,
              then |-> "idle", candidate |-> EmptyDb, backup |-> EmptyDb]

Running(p, cmd, step, r) ==
  [NoCommand EXCEPT !.cmd = cmd, !.step = step, !.run = r]

Leave(p) ==
  /\ wf' = [wf EXCEPT ![p] = NoCommand]
  /\ lease' = IF lease = p THEN NoProc ELSE lease

Goto(p, step) ==
  /\ wf' = [wf EXCEPT ![p].step = step]
  /\ UNCHANGED lease

\* A guarded read by p, or a checkpoint by p, meets another connection's
\* open transaction.
OthersWriting(p) == \E q \in Procs \ {p} : InTransaction(q)

SidecarPresent(p) == sidecar \/ OthersWriting(p)

\* Deviation: a command does not take the lease.
LeaseIgnored == TRUE

\* fcntl.flock(LOCK_EX | LOCK_NB) succeeds.
LeaseFree == lease = NoProc

-----------------------------------------------------------------------------
(* What the program reads.                                                 *)

\* The files that the evidence_records rows of Run r lead to.
IndexedChain(r) ==
  [i \in 1..Len(db[r].records) |->
     CHOOSE e \in files[r] : filename(e) = filename(db[r].records[i])]

\* verify_snapshot(...).status = "VALID" for the Snapshot of Run r.
SnapshotVerifies(r) ==
  /\ db[r].snapshot # None
  /\ \E e \in SnapshotsIn(files[r]) : e.snap = db[r].snapshot
  /\ snapshot_run_compatible(db[r].snapshot, db[r].status,
                             db[r].records[1].meta = "governed", IndexedChain(r))

\* _run_index_matches.
IndexMatches(r) ==
  /\ db[r].status = LedgerStatus(files[r])
  /\ db[r].last_sequence = Cardinality(files[r])
  /\ db[r].last_digest = digest(Chain(files[r])[Cardinality(files[r])])

\* _ledger_state succeeds: the ledger verifies and holds at most one Snapshot.
LedgerReadable(r) ==
  verify_run(files[r]) /\ Cardinality(SnapshotsIn(files[r])) <= 1

\* Deviation: recovery asks the index instead of the ledger.
ObservedInIndex(r) == db[r].snapshot # None

Observed(r) == SnapshotsIn(files[r]) # {}

\* _verification(...).status = "VALID"
VerificationValid(r) == Observed(r) /\ IndexMatches(r) /\ SnapshotVerifies(r)

-----------------------------------------------------------------------------
(* Commands begin.                                                         *)

\* acquire_snapshot: non-blocking lease, then create_run with a new UUID.
StartAcquire(p, r) ==
  /\ LeaseFree
  /\ files[r] = {}
  /\ BeginCreate(p, r, "governed")
  /\ lease' = p
  /\ wf' = [wf EXCEPT ![p] = Running(p, "acquire", "create", r)]
  /\ UNCHANGED <<sidecar, published>>

\* create_snapshot (legacy): the same storage operations, no lease.
StartCreateSnapshot(p, r) ==
  /\ files[r] = {}
  /\ BeginCreate(p, r, "plain")
  /\ wf' = [wf EXCEPT ![p] = Running(p, "create_snapshot", "create", r)]
  /\ UNCHANGED <<lease, sidecar, published>>

\* runs cancel: transition_run(..., CANCELLED, ...).
StartCancel(p, r) ==
  /\ BeginTransition(p, r, "cancelled")
  /\ wf' = [wf EXCEPT ![p] = Running(p, "cancel", "cancel", r)]
  /\ UNCHANGED <<lease, sidecar, published>>

\* runs list, runs show, storage status...: a read-write connection is opened
\* and closed, and SQLite removes sidecar files that nobody else uses.
ReadWriteOpen(p) ==
  /\ sidecar
  /\ sidecar' = FALSE
  /\ UNCHANGED <<files, db, op, faults, lease, wf, published>>

\* Deviation: the record is built from the indexed Run (get_run).
StageAppendFromIndex(p, r, t) ==
  LET item == TransitionRecord(db[r].last_sequence, db[r].last_digest,
                               LedgerStatus(files[r]), t, "ledger")
  IN  /\ op[p] = Idle
      /\ NameFree(r, item)
      /\ op' = [op EXCEPT ![p] = [pc |-> "append", run |-> r, item |-> item]]
      /\ UNCHANGED <<files, db, faults>>

\* _append_transition_from_ledger, up to the existence check: the record is
\* built from the ledger on disk, outside any SQLite transaction, and the
\* transition is not validated.
StageAppend(p, r, t) ==
  LET item == TransitionRecord(Cardinality(files[r]),
                               digest(Chain(files[r])[Cardinality(files[r])]),
                               LedgerStatus(files[r]), t, "ledger")
  IN  /\ op[p] = Idle
      /\ NameFree(r, item)
      /\ op' = [op EXCEPT ![p] = [pc |-> "append", run |-> r, item |-> item]]
      /\ UNCHANGED <<files, db, faults>>

Recovering(p, r, step, then) ==
  [Running(p, "recover", step, r) EXCEPT !.then = then]

\* recover_snapshot_acquisition: preflight, lease, ledger state, first step.
\* Paths that only report or raise without changing anything are left out.
StartRecover(p, r) ==
  /\ LeaseFree
  /\ LedgerReadable(r) /\ Governed(files[r])
  /\ lease' = p
  /\ LET status == LedgerStatus(files[r])
     IN  \/ /\ status = "created" \/ (status = "scanning" /\ ~Observed(r))
            /\ StageAppend(p, r, "failed")
            /\ wf' = [wf EXCEPT ![p] = Recovering(p, r, "append", "report")]
         \/ /\ status = "scanning" /\ Observed(r)
            /\ StageAppend(p, r, expected_run_status(SnapshotOf(files[r])))
            /\ wf' = [wf EXCEPT ![p] = Recovering(p, r, "append", "ensure")]
         \/ /\ status \in {"scanned", "partial", "verifying", "verified"}
            /\ wf' = [wf EXCEPT ![p] = Recovering(p, r, "ensure", "recheck")]
            /\ UNCHANGED storeVars
         \/ /\ status \in {"failed", "cancelled"}
            /\ ~SidecarPresent(p) /\ ~IndexMatches(r)
            /\ wf' = [wf EXCEPT ![p] = Recovering(p, r, "replay", "report")]
            /\ UNCHANGED storeVars
  /\ UNCHANGED <<sidecar, published>>

StartCommand(p) ==
  /\ wf[p] = NoCommand
  /\ \/ "acquire" \in Commands /\ \E r \in Runs : StartAcquire(p, r)
     \/ "create_snapshot" \in Commands /\ \E r \in Runs : StartCreateSnapshot(p, r)
     \/ "cancel" \in Commands /\ \E r \in Runs : StartCancel(p, r)

-----------------------------------------------------------------------------
(* Storage operations inside a command.                                    *)

\* The status that the transition of a step asks for.
StepTarget(w) == IF w.step = "close" THEN expected_run_status(w.snap) ELSE w.step

TransitionSteps == {"scanning", "close", "verifying", "verified"}

\* The step after a committed storage operation.
NextStep(w) ==
  CASE w.step = "create" -> "scanning"
    [] w.step = "scanning" -> "observe"
    [] w.step = "persist" -> "close"
    [] w.step = "close" -> IF w.cmd = "acquire" THEN "verify" ELSE "done"
    [] w.step = "verifying" -> "verified"
    [] w.step = "verified" -> "publish"
    [] w.step = "cancel" -> "done"

BeginOperation(p) ==
  /\ \/ wf[p].step \in TransitionSteps
          /\ BeginTransition(p, wf[p].run, StepTarget(wf[p]))
     \/ wf[p].step = "persist" /\ BeginPersist(p, wf[p].run, wf[p].snap)
  /\ UNCHANGED <<lease, sidecar, wf, published>>

\* The record a step of a command would publish, and whether its storage
\* operation gets as far as publishing it.
StepRecord(w) ==
  LET row == db[w.run]
  IN  IF w.step = "persist"
      THEN SnapshotRecord(row.last_sequence, row.last_digest, w.snap)
      ELSE TransitionRecord(row.last_sequence, row.last_digest, row.status,
                            StepTarget(w), "index")

Admitted(w) ==
  /\ WriteLockFree
  /\ db[w.run].status # "absent"
  /\ w.step # "persist" => validate_transition(db[w.run].status, StepTarget(w))
  /\ NameFree(w.run, StepRecord(w))

\* The storage operation raises before it publishes: lock time-out, unknown
\* Run, transition not allowed, or a file of that name exists.  The command
\* ends; its connection is closed, so SQLite removes stale sidecars.
OperationRefused(p) ==
  /\ op[p] = Idle
  /\ wf[p].step \in TransitionSteps \cup {"persist"}
  /\ ~Admitted(wf[p])
  /\ Leave(p)
  /\ sidecar' = FALSE
  /\ UNCHANGED <<files, db, op, faults, published>>

PublishOperation(p) == Publish(p) /\ UNCHANGED <<lease, sidecar, wf, published>>

\* Commit, close the connection (SQLite removes the sidecars), go on.
CommitOperation(p) ==
  /\ Commit(p)
  /\ sidecar' = FALSE
  /\ IF NextStep(wf[p]) = "done" THEN Leave(p) ELSE Goto(p, NextStep(wf[p]))
  /\ UNCHANGED published

-----------------------------------------------------------------------------
(* The other steps of acquisition.                                         *)

\* The scope is scanned: a budget or an unreadable entry makes it partial.
Observe(p) ==
  /\ wf[p].step = "observe"
  /\ \E c \in SnapshotStatus :
       wf' = [wf EXCEPT ![p].step = "persist", ![p].snap = c]
  /\ sidecar' = FALSE
  /\ UNCHANGED <<files, db, op, faults, lease, published>>

\* The scope root is no longer the directory that was bound: the command
\* ends and leaves the Run to recovery.
RootChanged(p) ==
  /\ wf[p].step = "observe" /\ wf[p].cmd = "acquire"
  /\ Leave(p)
  /\ sidecar' = FALSE
  /\ UNCHANGED <<files, db, op, faults, published>>

\* _writer_handoff, then the guarded verify_snapshot.
VerifyObservation(p) ==
  /\ wf[p].step = "verify"
  /\ IF ~OthersWriting(p) /\ SnapshotVerifies(wf[p].run)
     THEN Goto(p, "verifying")
     ELSE Leave(p)
  /\ sidecar' = IF OthersWriting(p) THEN sidecar ELSE FALSE
  /\ UNCHANGED <<files, db, op, faults, published>>

\* _writer_handoff, then the terminal publication gate: the report is
\* returned only if the ledger is verified and the index agrees with it.
Report(p) ==
  LET r == wf[p].run
  IN  /\ wf[p].step = "publish"
      /\ published' =
           IF /\ ~OthersWriting(p)
              /\ LedgerReadable(r)
              /\ LedgerStatus(files[r]) = "verified"
              /\ VerificationValid(r)
           THEN [published EXCEPT ![r] = SnapshotOf(files[r])]
           ELSE published
      /\ Leave(p)
      /\ sidecar' = IF OthersWriting(p) THEN sidecar ELSE FALSE
      /\ UNCHANGED <<files, db, op, faults>>

\* The steps of the KeyboardInterrupt handler.
HandlerSteps == {"interrupted", "append", "replay", "backup", "install"}

\* KeyboardInterrupt inside the leased block: the open transaction is rolled
\* back, _safe_writer_handoff runs, and the handler looks at the ledger.
Interrupt(p) ==
  /\ wf[p].cmd = "acquire" /\ wf[p].step \notin HandlerSteps
  /\ faults < MaxFaults /\ faults' = faults + 1
  /\ op' = [op EXCEPT ![p] = Idle]
  /\ Goto(p, "interrupted")
  /\ sidecar' = IF OthersWriting(p) THEN sidecar ELSE FALSE
  /\ UNCHANGED <<files, db, published>>

\* The handler cancels a Run that has no durable Snapshot; any other is left
\* to recovery.
HandleInterrupt(p) ==
  LET r == wf[p].run
  IN  /\ wf[p].step = "interrupted"
      /\ \/ /\ LedgerReadable(r) /\ ~Observed(r)
            /\ LedgerStatus(files[r]) \in {"created", "scanning"}
            /\ StageAppend(p, r, "cancelled")
            /\ wf' = [wf EXCEPT ![p].step = "append", ![p].then = "report"]
            /\ UNCHANGED lease
         \/ /\ ~(/\ LedgerReadable(r) /\ ~Observed(r)
                 /\ LedgerStatus(files[r]) \in {"created", "scanning"})
            /\ Leave(p)
            /\ UNCHANGED storeVars
      /\ UNCHANGED <<sidecar, published>>

-----------------------------------------------------------------------------
(* Recovery: append from the ledger, project, resume.                      *)

\* os.replace of a record staged by StageAppend.  A closing record without a
\* Snapshot is followed by a rebuild, any other by _ensure_verified_projection.
PublishAppend(p) ==
  /\ op[p].pc = "append"
  /\ files' = Replaced(op[p].run, op[p].item)
  /\ op' = [op EXCEPT ![p] = Idle]
  /\ wf' = IF wf[p].then = "report"
           THEN [wf EXCEPT ![p].step = "replay"]
           ELSE [wf EXCEPT ![p].step = "ensure", ![p].then = "recheck"]
  /\ UNCHANGED <<db, faults, lease, sidecar, published>>

\* Deviation: a Run found in verifying begins verification again.
ResumeFromStart(r) ==
  IF LedgerStatus(files[r]) \in {"scanned", "partial", "verifying"}
  THEN "verifying" ELSE "publish"

\* Where recovery continues once the projection is verified.
ResumeStep(r) ==
  LET status == LedgerStatus(files[r])
  IN  IF status \in {"scanned", "partial"} THEN "verifying"
      ELSE IF status = "verifying" THEN "verified" ELSE "publish"

\* _ensure_verified_projection: verify under a guarded read; if the answer is
\* not VALID, rebuild the index.  A guarded read raises when sidecars exist.
Ensure(p) ==
  LET r == wf[p].run
  IN  /\ wf[p].step = "ensure"
      /\ IF SidecarPresent(p) \/ ~LedgerReadable(r) \/ ~Observed(r)
         THEN Leave(p)
         ELSE Goto(p, IF VerificationValid(r) THEN ResumeStep(r) ELSE "replay")
      /\ UNCHANGED <<files, db, op, faults, sidecar, published>>

Recheck(p) ==
  LET r == wf[p].run
  IN  /\ wf[p].step = "recheck"
      /\ IF ~SidecarPresent(p) /\ LedgerReadable(r) /\ VerificationValid(r)
         THEN Goto(p, ResumeStep(r))
         ELSE Leave(p)
      /\ UNCHANGED <<files, db, op, faults, sidecar, published>>

\* replay_classified_operational_index: a candidate database from all of the
\* Evidence, or nothing when any of it is unclassified.
Replay(p) ==
  /\ wf[p].step = "replay"
  /\ IF ClassificationComplete(files)
     THEN /\ wf' = [wf EXCEPT ![p].step = "backup",
                              ![p].candidate =
                                 [r \in Runs |-> IF files[r] = {} THEN NoRow
                                                 ELSE ReplayedRow(files[r])]]
          /\ UNCHANGED lease
     ELSE Leave(p)
  /\ UNCHANGED <<files, db, op, faults, sidecar, published>>

\* create_snapshot_index_backup: needs a checkpoint, so no open transaction.
Backup(p) ==
  /\ wf[p].step = "backup"
  /\ IF OthersWriting(p)
     THEN Leave(p) /\ UNCHANGED sidecar
     ELSE /\ wf' = [wf EXCEPT ![p].step = "install", ![p].backup = db]
          /\ sidecar' = FALSE
          /\ UNCHANGED lease
  /\ UNCHANGED <<files, db, op, faults, published>>

\* replace_snapshot_index: under the write lock, the candidate replaces the
\* official database if that is still the one that was backed up.
Install(p) ==
  /\ wf[p].step = "install"
  /\ IF OthersWriting(p) \/ db # wf[p].backup
     THEN /\ Leave(p)
          /\ sidecar' = IF OthersWriting(p) THEN sidecar ELSE FALSE
          /\ UNCHANGED db
     ELSE /\ db' = wf[p].candidate
          /\ sidecar' = FALSE
          /\ IF wf[p].then = "report"
             THEN Leave(p)
             ELSE /\ wf' = [wf EXCEPT ![p].step = "recheck",
                                      ![p].candidate = EmptyDb,
                                      ![p].backup = EmptyDb]
                  /\ UNCHANGED lease
  /\ UNCHANGED <<files, op, faults, published>>

-----------------------------------------------------------------------------
(* Failures.                                                               *)

\* The steps that work on the official index through a read-write
\* connection; the others use files, a candidate or an immutable reader.
OpensIndex == {"create", "scanning", "observe", "persist", "close", "verify",
               "verifying", "verified", "publish", "cancel", "backup",
               "install", "recheck"}

\* An exception ends the command: the transaction rolls back, an open
\* connection closes, and acquire_snapshot tries a last _writer_handoff.
Fail(p) ==
  /\ wf[p] # NoCommand
  /\ faults < MaxFaults /\ faults' = faults + 1
  /\ op' = [op EXCEPT ![p] = Idle]
  /\ Leave(p)
  /\ sidecar' \in
       IF InTransaction(p) THEN {FALSE}
       ELSE IF wf[p].cmd = "acquire" /\ wf[p].step \notin HandlerSteps
            THEN {sidecar /\ OthersWriting(p)}
       ELSE IF wf[p].step \in OpensIndex THEN {sidecar, FALSE} ELSE {sidecar}
  /\ UNCHANGED <<files, db, published>>

\* The process dies: the lease and the locks are released by the system, and
\* the sidecars of an open connection stay.  In a step that opens the index
\* the connection may or may not have been open at that moment.
Crash(p) ==
  /\ wf[p] # NoCommand
  /\ faults < MaxFaults /\ faults' = faults + 1
  /\ op' = [op EXCEPT ![p] = Idle]
  /\ Leave(p)
  /\ sidecar' \in IF InTransaction(p) THEN {TRUE}
                  ELSE IF wf[p].step \in OpensIndex THEN {sidecar, TRUE} ELSE {sidecar}
  /\ UNCHANGED <<files, db, published>>

-----------------------------------------------------------------------------
AcquisitionInit ==
  /\ Init
  /\ lease = NoProc
  /\ sidecar = FALSE
  /\ wf = [p \in Procs |-> NoCommand]
  /\ published = [r \in Runs |-> None]

\* A command that has begun goes on.
Continue(p) ==
  \/ BeginOperation(p) \/ OperationRefused(p)
  \/ PublishOperation(p) \/ CommitOperation(p)
  \/ Observe(p) \/ RootChanged(p) \/ VerifyObservation(p) \/ Report(p)
  \/ HandleInterrupt(p) \/ PublishAppend(p)
  \/ Ensure(p) \/ Recheck(p) \/ Replay(p) \/ Backup(p) \/ Install(p)

\* The operator recovers a Run.
RecoverRun(r) ==
  /\ "recover" \in Commands
  /\ \E p \in Procs : wf[p] = NoCommand /\ StartRecover(p, r)

\* The operator runs a command that opens the index and changes nothing.
Inspect == "inspect" \in Commands /\ \E p \in Procs : wf[p] = NoCommand /\ ReadWriteOpen(p)

AcquisitionNext ==
  \/ \E p \in Procs : StartCommand(p) \/ Continue(p)
                      \/ Interrupt(p) \/ Fail(p) \/ Crash(p)
  \/ \E r \in Runs : RecoverRun(r)
  \/ Inspect

AcquisitionSpec == AcquisitionInit /\ [][AcquisitionNext]_vars

\* A started process is scheduled until its command ends, unless it fails;
\* failures are bounded.  The operator retries recovery of every Run, and
\* now and then runs some other command.  Starting acquisitions, failing and
\* interrupting are never assumed.
Fairness ==
  /\ \A p \in Procs : WF_vars(Continue(p))
  /\ \A r \in Runs : SF_vars(RecoverRun(r))
  /\ SF_vars(Inspect)

FairSpec == AcquisitionSpec /\ Fairness

-----------------------------------------------------------------------------
(* Properties.                                                             *)

Command == [cmd  : {"none", "acquire", "create_snapshot", "cancel", "recover"},
            step : {"idle", "create", "scanning", "observe", "persist", "close",
                    "verify", "verifying", "verified", "publish", "cancel",
                    "interrupted", "append", "ensure", "recheck", "replay",
                    "backup", "install"},
            run  : Runs \cup {NoRun},
            snap : SnapshotStatus \cup {None},
            then : {"idle", "report", "ensure", "recheck"},
            candidate : [Runs -> Row],
            backup    : [Runs -> Row]]

AcquisitionTypeOK ==
  /\ TypeOK
  /\ lease \in Procs \cup {NoProc}
  /\ sidecar \in BOOLEAN
  /\ wf \in [Procs -> Command]
  /\ published \in [Runs -> SnapshotStatus \cup {None}]

\* Every Run directory on disk passes _verify_run at every moment, whatever
\* crashed or was retried: the sequence numbers stay contiguous, the digest
\* chain stays whole and the transitions stay allowed.  (ARCHITECTURE.md:
\* "Evidence records are canonical JSON with ordered sequence numbers".)
LedgersVerify == \A r \in Runs : files[r] # {} => verify_run(files[r])

\* A COMPLETE or PARTIAL report that the publication gate let out stays true
\* for good: the ledger is verified, holds exactly that one Snapshot, and the
\* index agrees with it, through all later recoveries of other Runs.
PublishedStaysTrue ==
  \A r \in Runs : published[r] # None =>
    /\ LedgerReadable(r)
    /\ LedgerStatus(files[r]) = "verified"
    /\ SnapshotOf(files[r]) = published[r]
    /\ VerificationValid(r)

\* Rebuilding the index during recovery never takes back what some writer
\* had already committed to it.
IndexNeverRegresses ==
  [][\A r \in Runs : db[r].last_sequence <= db'[r].last_sequence]_vars

\* Every governed Run that has become durable is eventually closed, with the
\* index agreeing, under repeated recovery
\* (test_every_durable_prefix_has_explicit_idempotent_recovery).
Settled(r) ==
  /\ LedgerReadable(r)
  /\ LedgerStatus(files[r]) \in {"verified", "failed", "cancelled"}
  /\ IndexMatches(r)

EveryRunSettles == \A r \in Runs : (files[r] # {}) ~> Settled(r)

-----------------------------------------------------------------------------
(* Refinement: what the Evidence of a Run says of it.                      *)

Phase(F) ==
  IF F = {} THEN "absent"
  ELSE IF LedgerStatus(F) \in {"failed", "cancelled", "verified"} THEN LedgerStatus(F)
  ELSE IF SnapshotsIn(F) = {} THEN "open" ELSE "observed"

Contract == INSTANCE AcquisitionContract
  WITH phase    <- [r \in Runs |-> Phase(files[r])],
       snapshot <- [r \in Runs |-> IF SnapshotsIn(files[r]) = {} THEN None
                                   ELSE SnapshotOf(files[r])],
       reported <- published

\* The workflow with its crashes, interrupts and recoveries implements the
\* contract of acquisition: Evidence on disk moves a Run only along the
\* contract's steps, a Run with a durable Snapshot is never failed or
\* cancelled, and only verified Runs are reported.
ImplementsContract == Contract!ContractSpec
=============================================================================
