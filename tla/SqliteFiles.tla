---------------------------- MODULE SqliteFiles ----------------------------
(***************************************************************************)
(* The derived index as files: what the path state.db names, the WAL (with *)
(* its -shm) beside it, and the connections of the processes that use      *)
(* them.  SQLite itself is not part of the repository; its definitions say *)
(* what the program relies on, observed with the version it runs on:       *)
(*   - a connection keeps the file and the WAL it opened, whatever the     *)
(*     paths name later;                                                   *)
(*   - a WAL found at the path is applied to whatever file is opened there;*)
(*   - the write lock lives in the -shm, so in the WAL it belongs to;      *)
(*   - the last connection to a file that is still in its place copies the *)
(*     WAL into the file and removes it; one to a moved file does not.     *)
(* Rows are reduced to which Runs have a Run row and which have a Snapshot.*)
(***************************************************************************)
EXTENDS Naturals, FiniteSets, Sequences

CONSTANTS Process,  \* operating-system processes that use the index
          Run,      \* Runs that may be created
          NoProc,   \* nobody
          MaxFile   \* bound: how many database files are ever made

FilesAssumption ==
    IsFiniteSet(Process) /\ MaxFile \in Nat \ {0} /\ NoProc \notin Process

VARIABLES name,     \* the file that the path state.db names, 0 if none
          file,     \* the database files made so far
          walAt,    \* the WAL at the path state.db-wal, 0 if none
          wal,      \* the WALs
          conn      \* the connection of each process to the official index

fileVars == <<name, file, walAt, wal, conn>>

Rows == [runs: SUBSET Run, snaps: SUBSET Run]
NoRows == [runs |-> {}, snaps |-> {}]
Wals == 1..(Cardinality(Process) + 1)
Frame == [file: 1..MaxFile, table: {"runs", "snaps"}, run: Run]
EmptyWal == [frames |-> {}, lock |-> NoProc]
Closed == [file |-> 0, wal |-> 0]

NewFile(rows) == [rows |-> rows, sane |-> TRUE, stamp |-> 0]

FilesTypeOK ==
    /\ file \in Seq([rows: Rows, sane: BOOLEAN, stamp: Nat])
    /\ name \in 0..Len(file) /\ Len(file) <= MaxFile
    /\ walAt \in {0} \cup Wals
    /\ wal \in [Wals -> [frames: SUBSET Frame, lock: Process \cup {NoProc}]]
    /\ conn \in [Process -> [file: 0..Len(file), wal: {0} \cup Wals]]
    /\ \A w \in Wals : wal[w].lock # NoProc => conn[wal[w].lock].wal = w

FilesInit ==
    /\ file = <<NewFile(NoRows)>> /\ name = 1
    /\ walAt = 0 /\ wal = [w \in Wals |-> EmptyWal]
    /\ conn = [p \in Process |-> Closed]

-----------------------------------------------------------------------------
(* Reading *)

WithFrames(rows, frames) ==
    [t \in {"runs", "snaps"} |-> rows[t] \cup {f.run : f \in {g \in frames : g.table = t}}]

\* Frames of another file make SQLite report a malformed image.
Sane(i, w) == file[i].sane /\ \A f \in wal[w].frames : f.file = i

\* What connection c sees.
Visible(c) == WithFrames(file[c.file].rows, wal[c.wal].frames)

\* What a process that opens the index now would see.
Truth ==
    IF walAt = 0 THEN file[name].rows
    ELSE WithFrames(file[name].rows, wal[walAt].frames)

TruthSane == IF walAt = 0 THEN file[name].sane ELSE Sane(name, walAt)

-----------------------------------------------------------------------------
(* Connections *)

FreeWal == CHOOSE w \in Wals : w # walAt /\ \A p \in Process : conn[p].wal # w

\* database.connect: the journal_mode pragma already attaches the WAL.
Attach(p) ==
    /\ name # 0
    /\ LET w == IF walAt # 0 THEN walAt ELSE FreeWal
       IN  /\ conn' = [conn EXCEPT ![p] = [file |-> name, wal |-> w]]
           /\ walAt' = w
           /\ wal' = IF walAt # 0 THEN wal ELSE [wal EXCEPT ![w] = EmptyWal]
    /\ UNCHANGED <<name, file>>

Merged(i, frames) ==
    [rows |-> WithFrames(file[i].rows, frames),
     sane |-> file[i].sane /\ \A f \in frames : f.file = i,
     stamp |-> IF frames = {} THEN file[i].stamp ELSE file[i].stamp + 1]

\* Deviation: the lock outlives the connection.
LockLeaked(w, p) == wal
Unlocked(w, p) == IF wal[w].lock = p THEN [wal EXCEPT ![w].lock = NoProc] ELSE wal

LastOn(p) ==
    /\ conn[p].file = name
    /\ \A q \in Process \ {p} : conn[q].file # name

\* conn.close()
Detach(p) ==
    /\ conn' = [conn EXCEPT ![p] = Closed]
    /\ wal' = Unlocked(conn[p].wal, p)
    /\ IF LastOn(p)
       THEN /\ file' = [file EXCEPT ![name] = Merged(name, wal[conn[p].wal].frames)]
            /\ walAt' = 0
       ELSE UNCHANGED <<file, walAt>>
    /\ UNCHANGED name

\* PRAGMA wal_checkpoint(TRUNCATE) answers busy while another process writes.
CanCheckpoint(p) == wal[conn[p].wal].lock \in {NoProc, p}
Checkpointed(p) == [file EXCEPT ![conn[p].file] = Merged(conn[p].file, wal[conn[p].wal].frames)]

\* The process ends: its connection goes without a checkpoint.
Vanish(p) ==
    /\ conn' = [conn EXCEPT ![p] = Closed]
    /\ wal' = IF conn[p].wal = 0 THEN wal ELSE Unlocked(conn[p].wal, p)
    /\ UNCHANGED <<name, file, walAt>>
=============================================================================
