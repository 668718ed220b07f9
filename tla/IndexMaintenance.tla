-------------------------- MODULE IndexMaintenance --------------------------
(***************************************************************************)
(* Commands that write, replace or read the derived index, at the level of *)
(* files: ordinary writers, the acquisition hand-off, backup and rollback, *)
(* the installation of a replayed candidate, storage init and              *)
(* rebuild-index, and the guarded immutable reader with its admission and  *)
(* release checks (database.py, snapshot_backup.py, snapshot_rollback.py,  *)
(* snapshot_replacement.py, storage.py, snapshot_acquisition.py).          *)
(***************************************************************************)
EXTENDS SqliteFiles

CONSTANTS Commands,   \* the commands that processes may start
          MaxDeaths,  \* bound: processes that end without closing anything
          Serial      \* whether the operator replaces the index one command at a time

CommandsAssumption ==
    /\ Commands \subseteq {"write", "read", "handoff", "backup", "rollback",
                           "install", "rebuild", "init", "discard"}
    /\ MaxDeaths \in Nat /\ Serial \in BOOLEAN

VARIABLES evidence, \* the Evidence on disk, as the rows it justifies
          tmp,      \* the fixed rollback candidate path: a file, or 0
          backup,   \* the backup last published
          op,       \* what each process is doing
          deaths,   \* how many processes have died
          refused   \* whether rebuild-index has turned down valid Evidence

vars == <<name, file, walAt, wal, conn, evidence, tmp, backup, op, deaths, refused>>

Idle == [at |-> "idle"]
At(p, step) == op[p].at = step
Go(p, o) == op' = [op EXCEPT ![p] = o]
Step(p, step) == op' = [op EXCEPT ![p].at = step]
Ready(p, command) == At(p, "idle") /\ command \in Commands

Replacing == {"build", "secure", "connect", "lock", "replace", "unlock", "clean", "validate"}
ReadyToReplace(p, command) ==
    /\ Ready(p, command)
    /\ Serial => \A q \in Process : op[q].at \notin Replacing

-----------------------------------------------------------------------------
(* The admission and release checks of a guarded reader *)

FileDigest(files) == <<name, files[name].stamp>>
Fingerprint == FileDigest(file)
Inventory == <<name # 0, walAt # 0, tmp # 0>>
NoSidecars == walAt = 0

Unchanged(o) == name # 0 /\ Fingerprint = o.fp

-----------------------------------------------------------------------------
(* Writers: create_run and _persist, each inside one IMMEDIATE transaction *)

WriteOpen(p) ==
    /\ Ready(p, "write") /\ Attach(p)
    /\ Go(p, [at |-> "begin"])
    /\ UNCHANGED <<evidence, tmp, backup, deaths, refused>>

\* Deviation: the Evidence is left for after the commit.
WriteBeginUnpublished(p, table, r) ==
    /\ At(p, "begin") /\ Sane(conn[p].file, conn[p].wal)
    /\ wal[conn[p].wal].lock = NoProc
    /\ wal' = [wal EXCEPT ![conn[p].wal].lock = p]
    /\ Go(p, [at |-> "commit", table |-> table, run |-> r])
    /\ UNCHANGED <<name, file, walAt, conn, evidence, tmp, backup, deaths, refused>>

\* BEGIN IMMEDIATE; the Evidence is published before the commit.
WriteBegin(p, table, r) ==
    /\ At(p, "begin") /\ Sane(conn[p].file, conn[p].wal)
    /\ wal[conn[p].wal].lock = NoProc
    /\ r \notin evidence[table]
    /\ table = "snaps" => r \in Visible(conn[p]).runs
    /\ evidence' = [evidence EXCEPT ![table] = @ \cup {r}]
    /\ wal' = [wal EXCEPT ![conn[p].wal].lock = p]
    /\ Go(p, [at |-> "commit", table |-> table, run |-> r])
    /\ UNCHANGED <<name, file, walAt, conn, tmp, backup, deaths, refused>>

WriteCommit(p) ==
    /\ At(p, "commit")
    /\ wal' = [wal EXCEPT ![conn[p].wal] =
                 [frames |-> @.frames \cup
                    {[file |-> conn[p].file, table |-> op[p].table, run |-> op[p].run]},
                  lock |-> NoProc]]
    /\ Go(p, [at |-> "close"])
    /\ UNCHANGED <<name, file, walAt, conn, evidence, tmp, backup, deaths, refused>>

\* conn.close(), on every path; a command may also end without writing.
Close(p) ==
    /\ op[p].at \in {"begin", "close"} /\ Detach(p) /\ Go(p, Idle)
    /\ UNCHANGED <<evidence, tmp, backup, deaths, refused>>

-----------------------------------------------------------------------------
(* _writer_handoff: checkpoint, close, then unlink whatever sidecars are there *)

HandoffOpen(p) ==
    /\ Ready(p, "handoff") /\ Attach(p) /\ Go(p, [at |-> "handoff"])
    /\ UNCHANGED <<evidence, tmp, backup, deaths, refused>>

HandoffCheckpoint(p) ==
    /\ At(p, "handoff") /\ Sane(conn[p].file, conn[p].wal) /\ CanCheckpoint(p)
    /\ file' = Checkpointed(p)
    /\ wal' = [wal EXCEPT ![conn[p].wal].frames = {}]
    /\ Step(p, "handoff_close")
    /\ UNCHANGED <<name, walAt, conn, evidence, tmp, backup, deaths, refused>>

HandoffClose(p) ==
    /\ At(p, "handoff_close") /\ Detach(p) /\ Step(p, "handoff_unlink")
    /\ UNCHANGED <<evidence, tmp, backup, deaths, refused>>

\* StorageBusyError, or a connection that finds the image malformed.
HandoffFail(p) ==
    /\ At(p, "handoff") /\ ~(Sane(conn[p].file, conn[p].wal) /\ CanCheckpoint(p))
    /\ Detach(p) /\ Go(p, Idle)
    /\ UNCHANGED <<evidence, tmp, backup, deaths, refused>>

HandoffUnlink(p) ==
    /\ At(p, "handoff_unlink") /\ walAt' = 0 /\ Go(p, Idle)
    /\ UNCHANGED <<name, file, wal, conn, evidence, tmp, backup, deaths, refused>>

-----------------------------------------------------------------------------
(* create_snapshot_index_backup.  It succeeds only if the content did not    *)
(* change between its identity and its copy, so it is one step.              *)

Quiet == name # 0 /\ TruthSane /\ (walAt # 0 => wal[walAt].lock = NoProc)

PathFrames == IF walAt = 0 THEN {} ELSE wal[walAt].frames
Alone == \A q \in Process : conn[q].file # name

\* What connect, checkpoint and close leave of the file and of the sidecars.
SettledFile == [file EXCEPT ![name] = Merged(name, PathFrames)]
SettledWal ==
    IF walAt = 0 THEN [wal EXCEPT ![FreeWal] = EmptyWal] ELSE [wal EXCEPT ![walAt].frames = {}]
SettledAt == IF Alone THEN 0 ELSE IF walAt = 0 THEN FreeWal ELSE walAt
Settled == file' = SettledFile /\ wal' = SettledWal /\ walAt' = SettledAt

Backup(p) ==
    /\ Ready(p, "backup") /\ Quiet /\ Settled
    /\ backup' = Truth
    /\ UNCHANGED <<name, conn, evidence, tmp, op, deaths, refused>>

-----------------------------------------------------------------------------
(* restore_snapshot_index_from_backup and replace_snapshot_index *)

\* Rollback refuses while its candidate path exists.
RollbackStart(p) ==
    /\ ReadyToReplace(p, "rollback") /\ name # 0 /\ tmp = 0
    /\ Go(p, [at |-> "build", rows |-> backup])
    /\ UNCHANGED <<fileVars, evidence, tmp, backup, deaths, refused>>

\* _build_restore_candidate: the Run rows of the official index now, the
\* Snapshot rows of the backup; foreign keys must hold.
RollbackBuild(p) ==
    /\ At(p, "build") /\ Quiet /\ Len(file) < MaxFile
    /\ wal' = SettledWal /\ walAt' = SettledAt
    /\ LET rows == [runs |-> Truth.runs, snaps |-> op[p].rows.snaps]
       IN  IF rows.snaps \subseteq rows.runs
           THEN /\ file' = IF tmp = 0 THEN Append(SettledFile, NewFile(rows))
                           ELSE [SettledFile EXCEPT ![tmp] =
                                   [rows |-> rows, sane |-> @.sane, stamp |-> @.stamp + 1]]
                /\ tmp' = IF tmp = 0 THEN Len(file') ELSE tmp
                /\ Go(p, [at |-> "connect", how |-> "rollback", cand |-> tmp',
                          digest |-> FileDigest(SettledFile)])
           ELSE file' = SettledFile /\ tmp' = 0 /\ Go(p, Idle)
    /\ UNCHANGED <<name, conn, evidence, backup, deaths, refused>>

\* Replay of the Evidence into a candidate.
InstallReplay(p) ==
    /\ ReadyToReplace(p, "install") /\ name # 0 /\ Len(file) < MaxFile
    /\ file' = Append(file, NewFile(evidence))
    /\ Go(p, [at |-> "secure", cand |-> Len(file')])
    /\ UNCHANGED <<name, walAt, wal, conn, evidence, tmp, backup, deaths, refused>>

\* The backup that replacement insists on.
InstallBackup(p) ==
    /\ At(p, "secure") /\ Quiet /\ Settled
    /\ Go(p, [at |-> "connect", how |-> "install", cand |-> op[p].cand,
              digest |-> FileDigest(SettledFile)])
    /\ UNCHANGED <<name, conn, evidence, tmp, backup, deaths, refused>>

ReplaceConnect(p) ==
    /\ At(p, "connect") /\ Attach(p) /\ Step(p, "lock")
    /\ UNCHANGED <<evidence, tmp, backup, deaths, refused>>

\* Deviation: the official index is not compared again under the lock.
OfficialUnchecked(p) == TRUE

\* Checkpoint, BEGIN EXCLUSIVE, and the file at the path is what it was.
SameOfficial(p) == FileDigest(Checkpointed(p)) = op[p].digest

ReplaceLock(p) ==
    /\ At(p, "lock") /\ Sane(conn[p].file, conn[p].wal) /\ CanCheckpoint(p)
    /\ SameOfficial(p)
    /\ file' = Checkpointed(p)
    /\ wal' = [wal EXCEPT ![conn[p].wal] = [frames |-> {}, lock |-> p]]
    /\ Step(p, "replace")
    /\ UNCHANGED <<name, walAt, conn, evidence, tmp, backup, deaths, refused>>

\* os.replace(candidate, official), with the lock held
Replace(p) ==
    /\ At(p, "replace")
    /\ op[p].how = "rollback" => tmp # 0
    /\ name' = IF op[p].how = "rollback" THEN tmp ELSE op[p].cand
    /\ tmp' = IF op[p].how = "rollback" THEN 0 ELSE tmp
    /\ Step(p, "unlock")
    /\ UNCHANGED <<file, walAt, wal, conn, evidence, backup, deaths, refused>>

ReplaceUnlock(p) ==
    /\ At(p, "unlock") /\ Detach(p) /\ Step(p, "clean")
    /\ UNCHANGED <<evidence, tmp, backup, deaths, refused>>

\* os.replace has happened: unlink the sidecars at the path; rollback then
\* opens the restored index once more to validate it.
ReplaceClean(p) ==
    /\ At(p, "clean") /\ walAt' = 0
    /\ IF op[p].how = "rollback" THEN Step(p, "validate") ELSE Go(p, Idle)
    /\ UNCHANGED <<name, file, wal, conn, evidence, tmp, backup, deaths, refused>>

RollbackValidate(p) ==
    /\ At(p, "validate")
    /\ IF Quiet THEN Settled ELSE UNCHANGED <<file, wal, walAt>>
    /\ Go(p, Idle)
    /\ UNCHANGED <<name, conn, evidence, tmp, backup, deaths, refused>>

\* Any error before os.replace: the candidate of a rollback is unlinked.
ReplaceFail(p) ==
    /\ op[p].at \in Replacing \ {"unlock", "clean", "validate"}
    /\ IF conn[p] = Closed THEN UNCHANGED fileVars ELSE Detach(p)
    /\ tmp' = IF op[p].at \in {"connect", "lock", "replace"} /\ op[p].how = "rollback" THEN 0 ELSE tmp
    /\ Go(p, Idle)
    /\ UNCHANGED <<evidence, backup, deaths, refused>>

-----------------------------------------------------------------------------
(* storage rebuild-index, storage init, and the operator discarding state.db *)

\* verify_evidence: every Snapshot needs its Run in the index (get_run).
LedgerAccepted ==
    /\ evidence.runs # {}
    /\ evidence.snaps # {} =>
        name # 0 /\ TruthSane /\ evidence.snaps \subseteq Truth.runs

\* Its connections come and go: the last of them clears a leftover WAL.
RebuildVerify(p) ==
    /\ Ready(p, "rebuild")
    /\ IF name # 0 /\ Alone THEN Settled ELSE UNCHANGED <<file, walAt, wal>>
    /\ IF LedgerAccepted
       THEN Go(p, [at |-> "rebuild", runs |-> evidence.runs]) /\ UNCHANGED refused
       ELSE UNCHANGED op /\ refused' = (evidence.runs # {} \/ refused)
    /\ UNCHANGED <<name, conn, evidence, tmp, backup, deaths>>

RebuildBuild(p) ==
    /\ At(p, "rebuild") /\ Len(file) < MaxFile
    /\ file' = Append(file, NewFile([runs |-> op[p].runs,
                                     snaps |-> evidence.snaps \cap op[p].runs]))
    /\ Go(p, [at |-> "rename", cand |-> Len(file')])
    /\ UNCHANGED <<name, walAt, wal, conn, evidence, tmp, backup, deaths, refused>>

\* temp.replace(target): no lock, and the sidecars stay.
RebuildRename(p) ==
    /\ At(p, "rename")
    /\ name' = op[p].cand /\ Go(p, Idle)
    /\ UNCHANGED <<file, walAt, wal, conn, evidence, tmp, backup, deaths, refused>>

InitStorage(p) ==
    /\ Ready(p, "init") /\ name = 0 /\ Len(file) < MaxFile
    /\ file' = Append(file, NewFile(NoRows)) /\ name' = Len(file')
    /\ UNCHANGED <<walAt, wal, conn, evidence, tmp, backup, op, deaths, refused>>

\* Nobody is connected: state.db and what is beside it are removed.
Discard ==
    /\ "discard" \in Commands /\ name # 0 /\ \A p \in Process : At(p, "idle")
    /\ name' = 0 /\ walAt' = 0
    /\ UNCHANGED <<file, wal, conn, evidence, tmp, backup, op, deaths, refused>>

-----------------------------------------------------------------------------
(* _GuardedReadSession *)

ReadStart(p) ==
    /\ Ready(p, "read") /\ NoSidecars
    /\ Go(p, [at |-> "inventory"])
    /\ UNCHANGED <<fileVars, evidence, tmp, backup, deaths, refused>>

ReadInventory(p) ==
    /\ At(p, "inventory")
    /\ Go(p, [at |-> "fingerprint", inv |-> Inventory])
    /\ UNCHANGED <<fileVars, evidence, tmp, backup, deaths, refused>>

ReadFingerprint(p) ==
    /\ At(p, "fingerprint") /\ name # 0
    /\ Go(p, [at |-> "open", inv |-> op[p].inv, fp |-> Fingerprint])
    /\ UNCHANGED <<fileVars, evidence, tmp, backup, deaths, refused>>

\* mode=ro&immutable=1: the file alone, no WAL and no lock.
ReadOpen(p) ==
    /\ At(p, "open") /\ name # 0 /\ file[name].sane
    /\ Go(p, [at |-> "admit", inv |-> op[p].inv, fp |-> op[p].fp, file |-> name])
    /\ UNCHANGED <<fileVars, evidence, tmp, backup, deaths, refused>>

ReadAdmit(p) ==
    /\ At(p, "admit") /\ Unchanged(op[p]) /\ Step(p, "sidecars")
    /\ UNCHANGED <<fileVars, evidence, tmp, backup, deaths, refused>>

ReadSidecars(p) ==
    /\ At(p, "sidecars") /\ NoSidecars /\ name # 0
    /\ Go(p, [at |-> "reading", inv |-> op[p].inv, fp |-> op[p].fp,
              file |-> op[p].file, got |-> {}, asOf |-> Truth])
    /\ UNCHANGED <<fileVars, evidence, tmp, backup, deaths, refused>>

\* One query of the operation.
ReadRows(p) ==
    /\ At(p, "reading") /\ op' = [op EXCEPT ![p].got = @ \cup {file[op[p].file].rows}]
    /\ UNCHANGED <<fileVars, evidence, tmp, backup, deaths, refused>>

ReadDone(p) ==
    /\ At(p, "reading") /\ op[p].got # {} /\ Step(p, "release_fingerprint")
    /\ UNCHANGED <<fileVars, evidence, tmp, backup, deaths, refused>>

ReleaseFingerprint(p) ==
    /\ At(p, "release_fingerprint") /\ Unchanged(op[p]) /\ Step(p, "release_sidecars")
    /\ UNCHANGED <<fileVars, evidence, tmp, backup, deaths, refused>>

ReleaseSidecars(p) ==
    /\ At(p, "release_sidecars") /\ NoSidecars /\ Step(p, "release_inventory")
    /\ UNCHANGED <<fileVars, evidence, tmp, backup, deaths, refused>>

ReleaseInventory(p) ==
    /\ At(p, "release_inventory") /\ Inventory = op[p].inv /\ Step(p, "released")
    /\ UNCHANGED <<fileVars, evidence, tmp, backup, deaths, refused>>

\* The result is published, or any check has raised.
ReadEnd(p) ==
    /\ op[p].at \in {"inventory", "fingerprint", "open", "admit", "sidecars", "reading",
                     "release_fingerprint", "release_sidecars", "release_inventory", "released"}
    /\ Go(p, Idle)
    /\ UNCHANGED <<fileVars, evidence, tmp, backup, deaths, refused>>

-----------------------------------------------------------------------------
(* Process death *)

Die(p) ==
    /\ ~At(p, "idle") /\ deaths < MaxDeaths
    /\ Vanish(p) /\ Go(p, Idle) /\ deaths' = deaths + 1
    /\ UNCHANGED <<evidence, tmp, backup, refused>>

Init ==
    /\ FilesInit
    /\ evidence = NoRows /\ tmp = 0 /\ backup = NoRows
    /\ op = [p \in Process |-> Idle] /\ deaths = 0 /\ refused = FALSE

Write(p) ==
    \/ WriteOpen(p) \/ WriteCommit(p) \/ Close(p)
    \/ \E table \in {"runs", "snaps"}, r \in Run : WriteBegin(p, table, r)

Handoff(p) ==
    \/ HandoffOpen(p) \/ HandoffCheckpoint(p) \/ HandoffClose(p) \/ HandoffFail(p)
    \/ HandoffUnlink(p)

ReplaceIndex(p) ==
    \/ Backup(p) \/ RollbackStart(p) \/ RollbackBuild(p) \/ InstallReplay(p) \/ InstallBackup(p)
    \/ ReplaceConnect(p) \/ ReplaceLock(p) \/ Replace(p) \/ ReplaceUnlock(p) \/ ReplaceFail(p)
    \/ ReplaceClean(p) \/ RollbackValidate(p)

Rebuild(p) == RebuildVerify(p) \/ RebuildBuild(p) \/ RebuildRename(p) \/ InitStorage(p)

Read(p) ==
    \/ ReadStart(p) \/ ReadInventory(p) \/ ReadFingerprint(p) \/ ReadOpen(p) \/ ReadAdmit(p)
    \/ ReadSidecars(p) \/ ReadRows(p) \/ ReadDone(p) \/ ReleaseFingerprint(p)
    \/ ReleaseSidecars(p) \/ ReleaseInventory(p) \/ ReadEnd(p)

Next ==
    \/ \E p \in Process : Write(p) \/ Handoff(p) \/ ReplaceIndex(p) \/ Rebuild(p) \/ Read(p) \/ Die(p)
    \/ Discard

Spec == Init /\ [][Next]_vars

-----------------------------------------------------------------------------
(* Properties *)

\* The files, the sidecars and the connections keep their types.
IndexTypeOK ==
    /\ FilesTypeOK
    /\ evidence \in Rows /\ backup \in Rows /\ tmp \in 0..Len(file)
    /\ deaths \in 0..MaxDeaths /\ refused \in BOOLEAN

\* What a guarded read publishes, whatever queries it ran and whatever others
\* did meanwhile, is what the whole index said at one moment after admission
\* began (database.py: "a result valid only after release checks").
ReadsAreConsistent ==
    \A p \in Process : At(p, "released") => op[p].got = {op[p].asOf}

\* Whatever file state.db names, its rows have Evidence and its Snapshots have
\* their Runs: no replacement, rollback, hand-off or death makes up a row.
IndexBacked ==
    name # 0 /\ TruthSane =>
        /\ Truth.runs \subseteq evidence.runs
        /\ Truth.snaps \subseteq evidence.snaps \cap Truth.runs

\* No process that opens the index applies the WAL of another file to it, and
\* no such WAL is ever merged into it.
IndexSane ==
    name # 0 =>
        /\ file[name].sane
        /\ \A p \in Process : conn[p].file = name => Sane(name, conn[p].wal)

\* A rollback replaces Snapshot rows only: the Run rows of the new index are
\* those the old one had at the moment of os.replace.
RollbackStep ==
    \A p \in Process :
        At(p, "replace") /\ op[p].how = "rollback" /\ name' # name
            => file[name'].rows.runs = Truth.runs

RollbackKeepsRuns == [][RollbackStep]_vars

\* Removing the sidecars after a hand-off removes no committed row from the
\* index that the paths name (snapshot_acquisition.py: "one self-contained
\* schema-v3 database").
HandoffKeepsRows ==
    [][\A p \in Process : At(p, "handoff_unlink") /\ op'[p] = Idle => Truth' = Truth]_vars

\* rebuild-index accepts every ledger that is valid.
RebuildNeverRefused == ~refused
=============================================================================
