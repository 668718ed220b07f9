----------------------- MODULE IndexMaintenanceProofs -----------------------
(***************************************************************************)
(* Theorems of IndexMaintenance, for any finite set of processes, any sets *)
(* of Runs and commands, and any number of files and deaths: a guarded     *)
(* read releases one state of the index, Evidence backs every row of the   *)
(* file that state.db names, and a rollback keeps the Run rows.            *)
(*                                                                         *)
(* None of these is inductive.  A file that state.db has stopped naming,   *)
(* or does not name yet, is touched by nobody who could name it again      *)
(* (Fresh), and a file's rows change with its stamp only; so a fingerprint *)
(* that still fits after the last query was right all along (ReadersSee).  *)
(* Rows come from a commit whose Evidence was written first or from a file *)
(* or frames that were justified before (Known), and neither a checkpoint  *)
(* nor a merge can separate a Snapshot's row from its Run's (RowsWhole).   *)
(* While a rollback waits to replace the index, an unchanged stamp means   *)
(* that its candidate still has the Run rows of the index, and from the    *)
(* exclusive lock on nobody can change either (RollbackHolds).             *)
(***************************************************************************)
EXTENDS IndexMaintenance, FiniteSetTheorems, SequenceTheorems, TLAPS

-----------------------------------------------------------------------------
(* What a process knows at each of its steps.                              *)

Plain == {"idle", "begin", "close", "handoff", "handoff_close", "handoff_unlink", "inventory"}
Swapping == {"connect", "lock", "replace", "unlock", "clean", "validate"}
Reading == {"reading", "release_fingerprint", "release_sidecars", "release_inventory", "released"}

FileRecord == [rows: Rows, sane: BOOLEAN, stamp: Nat]
Places == BOOLEAN \X BOOLEAN \X BOOLEAN
Digests == Nat \X Nat

Writes == [at: {"commit"}, table: {"runs", "snaps"}, run: Run]
Swaps == [at: Swapping, how: {"rollback", "install"}, cand: Nat, digest: Digests]
Opened == [at: {"open"}, inv: Places, fp: Digests]
Admitted == [at: {"admit", "sidecars"}, inv: Places, fp: Digests, file: Nat]
Reads == [at: Reading, inv: Places, fp: Digests, file: Nat, got: SUBSET Rows, asOf: Rows]

Ops ==
  [at: Plain] \cup Writes \cup [at: {"build"}, rows: Rows] \cup [at: {"rebuild"}, runs: SUBSET Run]
  \cup [at: {"secure", "rename"}, cand: Nat] \cup Swaps
  \cup [at: {"fingerprint"}, inv: Places] \cup Opened \cup Admitted \cup Reads

OpTypeOK == op \in [Process -> Ops]

\* The steps at which a process is connected.
Connected == {"begin", "commit", "close", "handoff", "handoff_close", "lock", "replace", "unlock"}
Fit(p) ==
  IF op[p].at \in Connected THEN conn[p].file # 0 /\ conn[p].wal # 0 ELSE conn[p] = Closed
ConnectionsFit ==
  \A p \in Process : Fit(p)

Hypotheses == FilesAssumption /\ CommandsAssumption

TypeInvariant == Hypotheses /\ IndexTypeOK /\ OpTypeOK /\ ConnectionsFit

-----------------------------------------------------------------------------
(* The files that a process has made and that no path names yet.           *)

HasCandidate(o) ==
  \/ o.at \in {"secure", "rename"}
  \/ o.at \in {"connect", "lock", "replace"} /\ o.how = "install"

Fingerprinted == {"open", "admit", "sidecars"} \cup Reading
Untouched(i) ==
  /\ i # name
  /\ \A p \in Process :
       /\ conn[p].file # i
       /\ op[p].at \in Fingerprinted => op[p].fp[1] # i
  /\ \A w \in Wals : \A f \in wal[w].frames : f.file # i

Fresh ==
  /\ \A w \in Wals : \A f \in wal[w].frames : f.file \in 1..Len(file)
  /\ tmp # 0 => Untouched(tmp)
  /\ \A p \in Process : HasCandidate(op[p]) =>
       /\ op[p].cand \in 1..Len(file) /\ op[p].cand # tmp /\ Untouched(op[p].cand)
       /\ \A q \in Process \ {p} : HasCandidate(op[q]) => op[q].cand # op[p].cand

\* As long as the path names the file of the fingerprint and its stamp is
\* the same, what was read is what that file holds.
Still(o) == name = o.fp[1] /\ file[name].stamp = o.fp[2]
ReaderSees(o) ==
  /\ o.at \in Fingerprinted => o.fp[1] \in 1..Len(file) /\ o.fp[2] <= file[o.fp[1]].stamp
  /\ o.at \in Fingerprinted \ {"open"} => o.file \in 1..Len(file)
  /\ o.at \in {"admit", "sidecars"} /\ Still(o) => o.file = o.fp[1]
  /\ o.at \in {"reading", "release_fingerprint"} /\ Still(o) =>
       o.file = o.fp[1] /\ o.asOf = file[name].rows /\ o.got \subseteq {o.asOf}
  /\ o.at = "release_fingerprint" => o.got # {}
  /\ o.at \in {"release_sidecars", "release_inventory", "released"} => o.got = {o.asOf}
ReadersSee == \A p \in Process : ReaderSees(op[p])

-----------------------------------------------------------------------------
Whole(rows) == rows.snaps \subseteq rows.runs
Justified(rows) == rows.runs \subseteq evidence.runs /\ rows.snaps \subseteq evidence.snaps

Known ==
  /\ Whole(evidence) /\ Justified(backup)
  /\ \A i \in 1..Len(file) : Justified(file[i].rows)
  /\ \A w \in Wals : \A f \in wal[w].frames : f.run \in evidence[f.table]
  /\ \A p \in Process :
       /\ At(p, "commit") => op[p].run \in evidence[op[p].table]
       /\ At(p, "build") => Justified(op[p].rows)
       /\ At(p, "rebuild") => op[p].runs \subseteq evidence.runs

InUse(w) == w = walAt \/ \E p \in Process : conn[p] = [file |-> name, wal |-> w]
IsPending(i) == i = tmp \/ \E p \in Process : HasCandidate(op[p]) /\ op[p].cand = i
RowsWhole ==
  /\ \A i \in 1..Len(file) : (i = name \/ IsPending(i)) /\ file[i].sane => Whole(file[i].rows)
  /\ \A w \in Wals : name # 0 /\ InUse(w) /\ Sane(name, w) =>
       Whole(WithFrames(file[name].rows, wal[w].frames))
CommitFits(p) ==
  At(p, "commit") =>
    /\ wal[conn[p].wal].lock = p
    /\ op[p].table = "snaps" /\ conn[p].file = name /\ Sane(name, conn[p].wal) =>
         op[p].run \in Visible(conn[p]).runs
CommitsFit == \A p \in Process : CommitFits(p)

-----------------------------------------------------------------------------
(* What every step leaves alone: a file only grows, and nobody connects to *)
(* or writes frames of a file that no path has named.                      *)

FilesGrow ==
  /\ Len(file') >= Len(file)
  /\ \A i \in 1..Len(file) : i # tmp =>
       /\ file'[i].stamp >= file[i].stamp
       /\ file'[i].stamp = file[i].stamp => file'[i].rows = file[i].rows
FramesAreOfConnections ==
  \A w \in Wals : \A f \in wal'[w].frames :
    f \in wal[w].frames \/ \E q \in Process : conn[q].file # 0 /\ f.file = conn[q].file
FilesMove ==
  /\ FilesGrow /\ FramesAreOfConnections
  /\ \A q \in Process : conn'[q].file \in {0, name, conn[q].file}
OthersWait(p) == \A q \in Process \ {p} : op'[q] = op[q] /\ conn'[q] = conn[q]

\* A step that gives no file a name and fingerprints none but the one named.
Safe(p) == TypeInvariant' /\ FilesMove /\ OthersWait(p)
Ordinary(p) ==
  /\ tmp' \in {tmp, 0} /\ name' \in {name, 0}
  /\ HasCandidate(op'[p]) => HasCandidate(op[p]) /\ op'[p].cand = op[p].cand
Unread(p) == op'[p].at \notin Fingerprinted
Sighted(p) ==
  op'[p].at \in Fingerprinted =>
    \/ op'[p].fp[1] = name
    \/ op[p].at \in Fingerprinted /\ op'[p].fp[1] = op[p].fp[1]

-----------------------------------------------------------------------------
(* Files, WALs and connections: types.                                     *)

LEMMA MergedType ==
  ASSUME NEW r \in Rows, NEW frames \in SUBSET Frame
  PROVE  WithFrames(r, frames) \in Rows
BY DEF Rows, WithFrames, Frame

LEMMA NoFramesNoRows ==
  ASSUME NEW r \in Rows
  PROVE  WithFrames(r, {}) = r
BY DEF Rows, WithFrames, Frame

LEMMA FilesAreRecords ==
  ASSUME FilesTypeOK
  PROVE  /\ file \in Seq(FileRecord) /\ Len(file) \in Nat
         /\ \A i \in 1..Len(file) :
              /\ file[i] \in FileRecord /\ file[i].rows \in Rows
              /\ file[i].stamp \in Nat /\ file[i].sane \in BOOLEAN
<1>1. file \in Seq(FileRecord)
  BY DEF FilesTypeOK, FileRecord
<1>2. \A i \in 1..Len(file) : file[i] \in FileRecord
  BY <1>1
<1>3. \A r \in FileRecord : r.rows \in Rows /\ r.stamp \in Nat /\ r.sane \in BOOLEAN
  BY DEF FileRecord
<1> QED
  BY <1>1, <1>2, <1>3

LEMMA MergedIsFile ==
  ASSUME FilesTypeOK, NEW i \in 1..Len(file), NEW frames \in SUBSET Frame
  PROVE  Merged(i, frames) \in FileRecord
<1>1. file[i] \in FileRecord
  BY FilesAreRecords
<1>2. WithFrames(file[i].rows, frames) \in Rows
  BY <1>1, MergedType DEF FileRecord
<1> QED
  BY <1>1, <1>2 DEF FileRecord, Merged

LEMMA FromOne ==
  ASSUME NEW m \in Nat
  PROVE  IsFiniteSet(1..m) /\ Cardinality(1..m) = m
<1>1. IsFiniteSet(1..m) /\ Cardinality(1..m) = IF 1 > m THEN 0 ELSE m - 1 + 1
  BY FS_Interval, 1 \in Int, m \in Int
<1> QED
  BY <1>1

\* A WAL that nobody uses can always be found: there is one more than there
\* are processes.
LEMMA FreeWalExists ==
  ASSUME FilesTypeOK, FilesAssumption, walAt = 0
  PROVE  FreeWal \in Wals /\ \A p \in Process : conn[p].wal # FreeWal
<1> DEFINE Used == {conn[p].wal : p \in Process}
           n == Cardinality(Process)
           f == [p \in Process |-> conn[p].wal]
<1>1. IsFiniteSet(Used) /\ Cardinality(Used) <= n
  <2>1. f \in Surjection(Process, Used)
    BY DEF Surjection
  <2> HIDE DEF f, Used
  <2> QED
    BY <2>1, FS_Surjection DEF FilesAssumption
<1>2. n \in Nat /\ Cardinality(Used) \in Nat
  BY <1>1, FS_CardinalityType DEF FilesAssumption
<1>3. IsFiniteSet(Wals) /\ Cardinality(Wals) = n + 1
  <2>1. n + 1 \in Nat
    BY <1>2
  <2> HIDE DEF n
  <2>2. IsFiniteSet(1..(n + 1)) /\ Cardinality(1..(n + 1)) = n + 1
    BY <2>1, FromOne
  <2> QED
    BY <2>2 DEF Wals, n
<1>4. ~ Wals \subseteq Used
  BY <1>1, <1>2, <1>3, FS_Subset
<1>5. PICK w \in Wals : w \notin Used
  BY <1>4
<1>6. w # walAt /\ \A p \in Process : conn[p].wal # w
  BY <1>2, <1>5 DEF Wals
<1>7. FreeWal \in Wals /\ FreeWal # walAt /\ \A p \in Process : conn[p].wal # FreeWal
  BY <1>6 DEF FreeWal
<1> QED
  BY <1>7

\* A file of the sequence is replaced by another one.
LEMMA FileReplaced ==
  ASSUME FilesTypeOK, NEW i \in 1..Len(file), NEW r \in FileRecord
  PROVE  /\ [file EXCEPT ![i] = r] \in Seq(FileRecord)
         /\ Len([file EXCEPT ![i] = r]) = Len(file)
         /\ \A j \in 1..Len(file) : [file EXCEPT ![i] = r][j] = IF j = i THEN r ELSE file[j]
BY FilesAreRecords, ExceptSeq

LEMMA FileAdded ==
  ASSUME FilesTypeOK, NEW r \in FileRecord
  PROVE  /\ Append(file, r) \in Seq(FileRecord)
         /\ Len(Append(file, r)) = Len(file) + 1
         /\ \A j \in 1..Len(file) : Append(file, r)[j] = file[j]
         /\ Append(file, r)[Len(file) + 1] = r
BY FilesAreRecords

-----------------------------------------------------------------------------
(* What the operations on files and WALs do.                               *)

LEMMA WalsAreRecords ==
  ASSUME FilesTypeOK
  PROVE  /\ \A w \in Wals : wal[w].frames \in SUBSET Frame /\ wal[w].lock \in Process \cup {NoProc}
         /\ \A w \in Wals : wal[w] = [frames |-> wal[w].frames, lock |-> wal[w].lock]
         /\ \A p \in Process : /\ conn[p].file \in 0..Len(file) /\ conn[p].wal \in {0} \cup Wals
                               /\ conn[p] = [file |-> conn[p].file, wal |-> conn[p].wal]
         /\ name \in 0..Len(file) /\ walAt \in {0} \cup Wals /\ Len(file) \in Nat
         /\ 0 \notin Wals
<1>1. \A w \in Wals : wal[w] \in [frames: SUBSET Frame, lock: Process \cup {NoProc}]
  BY DEF FilesTypeOK
<1>2. \A p \in Process : conn[p] \in [file: 0..Len(file), wal: {0} \cup Wals]
  BY DEF FilesTypeOK
<1>3. 0 \notin Wals
  BY DEF Wals
<1> QED
  BY <1>1, <1>2, <1>3, FilesAreRecords DEF FilesTypeOK

\* The types of the files, from those of the parts.
LEMMA FilesTypeIntro ==
  ASSUME file' \in Seq(FileRecord), Len(file') <= MaxFile, name' \in 0..Len(file'),
         walAt' \in {0} \cup Wals,
         wal' \in [Wals -> [frames: SUBSET Frame, lock: Process \cup {NoProc}]],
         conn' \in [Process -> [file: 0..Len(file'), wal: {0} \cup Wals]],
         \A w \in Wals : wal'[w].lock # NoProc => conn'[wal'[w].lock].wal = w
  PROVE  FilesTypeOK'
BY DEF FilesTypeOK, FileRecord, Wals

\* Nothing about the files changes.
LEMMA FilesSame ==
  ASSUME FilesTypeOK, UNCHANGED fileVars
  PROVE  FilesTypeOK'
BY DEF FilesTypeOK, fileVars, Wals

\* A connection opens: a new WAL, or the one at the path.
LEMMA AttachDoes ==
  ASSUME FilesTypeOK, FilesAssumption, NEW p \in Process, conn[p] = Closed, Attach(p)
  PROVE  /\ FilesTypeOK' /\ name' = name /\ file' = file /\ name \in 1..Len(file)
         /\ walAt' \in Wals
         /\ conn'[p] = [file |-> name, wal |-> walAt']
         /\ \A q \in Process \ {p} : conn'[q] = conn[q]
         /\ walAt # 0 => walAt' = walAt /\ wal' = wal
         /\ walAt = 0 => /\ \A q \in Process : conn[q].wal # walAt'
                         /\ wal'[walAt'] = EmptyWal
                         /\ \A w \in Wals \ {walAt'} : wal'[w] = wal[w]
<1> DEFINE w == IF walAt # 0 THEN walAt ELSE FreeWal
<1>1. /\ name # 0 /\ conn' = [conn EXCEPT ![p] = [file |-> name, wal |-> w]] /\ walAt' = w
      /\ wal' = IF walAt # 0 THEN wal ELSE [wal EXCEPT ![w] = EmptyWal]
      /\ name' = name /\ file' = file
  BY DEF Attach
<1>2. /\ \A v \in Wals : wal[v].frames \in SUBSET Frame /\ wal[v].lock \in Process \cup {NoProc}
      /\ walAt \in {0} \cup Wals /\ name \in 0..Len(file) /\ Len(file) \in Nat /\ 0 \notin Wals
      /\ \A q \in Process : conn[q].wal \in {0} \cup Wals
  BY WalsAreRecords
<1>3. w \in Wals /\ (walAt = 0 => \A q \in Process : conn[q].wal # w)
  BY <1>2, FreeWalExists
<1>4. name \in 1..Len(file)
  BY <1>1, <1>2
<1> HIDE DEF w
<1>5. conn \in [Process -> [file: 0..Len(file), wal: {0} \cup Wals]]
  BY DEF FilesTypeOK
<1>6. /\ conn' \in [Process -> [file: 0..Len(file), wal: {0} \cup Wals]]
      /\ conn'[p] = [file |-> name, wal |-> w] /\ \A q \in Process \ {p} : conn'[q] = conn[q]
  BY <1>1, <1>2, <1>3, <1>5
<1>7. wal \in [Wals -> [frames: SUBSET Frame, lock: Process \cup {NoProc}]]
  BY DEF FilesTypeOK
<1>8. EmptyWal \in [frames: SUBSET Frame, lock: Process \cup {NoProc}] /\ EmptyWal.lock = NoProc
  BY DEF EmptyWal
<1>9. /\ wal' \in [Wals -> [frames: SUBSET Frame, lock: Process \cup {NoProc}]]
      /\ walAt # 0 => wal' = wal
      /\ walAt = 0 => wal'[w] = EmptyWal /\ \A v \in Wals \ {w} : wal'[v] = wal[v]
  BY <1>1, <1>3, <1>7, <1>8
<1>10. \A v \in Wals : wal'[v].lock # NoProc => conn'[wal'[v].lock].wal = v
  <2> SUFFICES ASSUME NEW v \in Wals, wal'[v].lock # NoProc
               PROVE  conn'[wal'[v].lock].wal = v
    OBVIOUS
  <2>1. wal'[v] = wal[v]
    BY <1>8, <1>9
  <2>2. conn[wal[v].lock].wal = v /\ wal[v].lock \in Process
    BY <1>2, <2>1 DEF FilesTypeOK
  <2>3. wal[v].lock # p
    BY <1>2, <2>2 DEF Closed
  <2> QED
    BY <1>6, <2>1, <2>2, <2>3
<1>11. file' \in Seq(FileRecord) /\ Len(file') = Len(file) /\ Len(file) <= MaxFile
  BY <1>1, FilesAreRecords DEF FilesTypeOK
<1>12. FilesTypeOK'
  <2>1. name' \in 0..Len(file') /\ Len(file') <= MaxFile /\ walAt' \in {0} \cup Wals
    BY <1>1, <1>2, <1>3, <1>11
  <2>2. conn' \in [Process -> [file: 0..Len(file'), wal: {0} \cup Wals]]
    BY <1>6, <1>11
  <2> QED
    BY <1>9, <1>10, <1>11, <2>1, <2>2, FilesTypeIntro, Zenon
<1>13. walAt' = w /\ file' = file /\ name' = name /\ (walAt # 0 => w = walAt)
  BY <1>1 DEF w
<1> QED
  BY <1>3, <1>4, <1>6, <1>9, <1>12, <1>13

\* What merging frames into a file leaves of it.
LEMMA MergedDoes ==
  ASSUME FilesTypeOK, NEW i \in 1..Len(file), NEW frames \in SUBSET Frame
  PROVE  /\ Merged(i, frames) \in FileRecord
         /\ Merged(i, frames).rows = WithFrames(file[i].rows, frames)
         /\ Merged(i, frames).stamp >= file[i].stamp
         /\ Merged(i, frames).stamp = file[i].stamp =>
              frames = {} /\ Merged(i, frames).rows = file[i].rows
         /\ frames = {} => Merged(i, frames) = file[i]
         /\ Merged(i, frames).sane => file[i].sane /\ \A f \in frames : f.file = i
<1>1. file[i].rows \in Rows /\ file[i].stamp \in Nat /\ file[i] \in FileRecord
  BY FilesAreRecords
<1>2. WithFrames(file[i].rows, {}) = file[i].rows
  BY <1>1, NoFramesNoRows
<1>3. file[i] = [rows |-> file[i].rows, sane |-> file[i].sane, stamp |-> file[i].stamp]
  BY <1>1 DEF FileRecord
<1>4. file[i].sane \in BOOLEAN
  BY <1>1 DEF FileRecord
<1>5. /\ Merged(i, frames).rows = WithFrames(file[i].rows, frames)
      /\ Merged(i, frames).stamp = IF frames = {} THEN file[i].stamp ELSE file[i].stamp + 1
      /\ Merged(i, frames).sane = (file[i].sane /\ \A f \in frames : f.file = i)
  BY DEF Merged
<1>6. frames = {} => Merged(i, frames) = file[i]
  BY <1>2, <1>3, <1>4 DEF Merged
<1>7. Merged(i, frames).sane => file[i].sane /\ \A f \in frames : f.file = i
  BY <1>5, Zenon
<1>8. /\ Merged(i, frames).stamp >= file[i].stamp
      /\ Merged(i, frames).stamp = file[i].stamp => frames = {}
  BY <1>1, <1>5
<1> QED
  BY <1>2, <1>5, <1>6, <1>7, <1>8, MergedIsFile

\* A connection closes; the last one to the file in place copies its WAL.
LEMMA DetachDoes ==
  ASSUME FilesTypeOK, NEW p \in Process, conn[p].file # 0, conn[p].wal # 0, Detach(p)
  PROVE  /\ FilesTypeOK' /\ name' = name /\ Len(file') = Len(file)
         /\ conn'[p] = Closed
         /\ \A q \in Process \ {p} : conn'[q] = conn[q]
         /\ \A w \in Wals : /\ wal'[w].frames = wal[w].frames
                            /\ wal[w].lock # p => wal'[w].lock = wal[w].lock
         /\ \/ file' = file /\ walAt' = walAt
            \/ /\ LastOn(p) /\ name \in 1..Len(file) /\ walAt' = 0
               /\ file'[name] = Merged(name, wal[conn[p].wal].frames)
               /\ \A i \in 1..Len(file) \ {name} : file'[i] = file[i]
<1> DEFINE v == conn[p].wal
<1>1. /\ conn' = [conn EXCEPT ![p] = Closed] /\ wal' = Unlocked(v, p) /\ name' = name
  BY DEF Detach
<1>2. /\ \A w \in Wals : wal[w].frames \in SUBSET Frame /\ wal[w].lock \in Process \cup {NoProc}
      /\ walAt \in {0} \cup Wals /\ name \in 0..Len(file) /\ Len(file) \in Nat
      /\ v \in Wals
  BY WalsAreRecords
<1>3. /\ conn \in [Process -> [file: 0..Len(file), wal: {0} \cup Wals]]
      /\ wal \in [Wals -> [frames: SUBSET Frame, lock: Process \cup {NoProc}]]
  BY DEF FilesTypeOK
<1> HIDE DEF v
<1>4. /\ conn' \in [Process -> [file: 0..Len(file), wal: {0} \cup Wals]]
      /\ conn'[p] = Closed /\ \A q \in Process \ {p} : conn'[q] = conn[q]
  BY <1>1, <1>2, <1>3 DEF Closed
<1>5. /\ wal' \in [Wals -> [frames: SUBSET Frame, lock: Process \cup {NoProc}]]
      /\ \A w \in Wals : /\ wal'[w].frames = wal[w].frames
                         /\ wal[w].lock # p => wal'[w].lock = wal[w].lock
                         /\ wal'[w].lock # NoProc => wal'[w].lock = wal[w].lock
      /\ wal'[v].lock # p \/ p = NoProc
  BY <1>1, <1>2, <1>3 DEF Unlocked
<1>6. \A w \in Wals : wal'[w].lock # NoProc => conn'[wal'[w].lock].wal = w
  <2> SUFFICES ASSUME NEW w \in Wals, wal'[w].lock # NoProc
               PROVE  conn'[wal'[w].lock].wal = w
    OBVIOUS
  <2>1. wal'[w].lock = wal[w].lock /\ wal[w].lock \in Process
    BY <1>2, <1>5
  <2>2. conn[wal[w].lock].wal = w
    BY <2>1 DEF FilesTypeOK
  <2>3. wal[w].lock # p
    BY <1>5, <2>1, <2>2 DEF v
  <2> QED
    BY <1>4, <2>1, <2>2, <2>3
<1>7. file \in Seq(FileRecord) /\ Len(file) <= MaxFile
  BY FilesAreRecords DEF FilesTypeOK
<1>8. \/ file' = file /\ walAt' = walAt
      \/ /\ LastOn(p) /\ name \in 1..Len(file) /\ walAt' = 0
         /\ file' = [file EXCEPT ![name] = Merged(name, wal[v].frames)]
  BY <1>2 DEF Detach, LastOn, v
<1>9. /\ file' \in Seq(FileRecord) /\ Len(file') = Len(file)
      /\ \/ file' = file /\ walAt' = walAt
         \/ /\ LastOn(p) /\ name \in 1..Len(file) /\ walAt' = 0
            /\ file'[name] = Merged(name, wal[v].frames)
            /\ \A i \in 1..Len(file) \ {name} : file'[i] = file[i]
  <2>1. CASE file' = file /\ walAt' = walAt
    BY <1>7, <2>1
  <2>2. CASE /\ LastOn(p) /\ name \in 1..Len(file) /\ walAt' = 0
             /\ file' = [file EXCEPT ![name] = Merged(name, wal[v].frames)]
    <3> DEFINE r == Merged(name, wal[v].frames)
    <3>1. r \in FileRecord
      BY <1>2, <2>2, MergedIsFile
    <3> HIDE DEF r
    <3>2. /\ [file EXCEPT ![name] = r] \in Seq(FileRecord)
          /\ Len([file EXCEPT ![name] = r]) = Len(file)
          /\ \A j \in 1..Len(file) : [file EXCEPT ![name] = r][j] = IF j = name THEN r ELSE file[j]
      BY <2>2, <3>1, FileReplaced
    <3>3. file' = [file EXCEPT ![name] = r]
      BY <2>2 DEF r
    <3>4. file' \in Seq(FileRecord) /\ Len(file') = Len(file) /\ file'[name] = r
          /\ \A i \in 1..Len(file) \ {name} : file'[i] = file[i]
      BY <2>2, <3>2, <3>3
    <3> QED
      BY <2>2, <3>4 DEF r
  <2> QED
    BY <1>8, <2>1, <2>2
<1>10. FilesTypeOK'
  <2>1. name' \in 0..Len(file') /\ Len(file') <= MaxFile /\ walAt' \in {0} \cup Wals
    BY <1>1, <1>2, <1>7, <1>9
  <2>2. conn' \in [Process -> [file: 0..Len(file'), wal: {0} \cup Wals]]
    BY <1>4, <1>9
  <2> QED
    BY <1>5, <1>6, <1>9, <2>1, <2>2, FilesTypeIntro, Zenon
<1> QED
  BY <1>1, <1>4, <1>5, <1>9, <1>10 DEF v

\* connect, checkpoint and close, when nobody else is at work.
LEMMA SettledDoes ==
  ASSUME FilesTypeOK, FilesAssumption, name # 0, wal' = SettledWal, walAt' = SettledAt
  PROVE  /\ name \in 1..Len(file)
         /\ SettledFile \in Seq(FileRecord) /\ Len(SettledFile) = Len(file)
         /\ SettledFile[name] = Merged(name, PathFrames)
         /\ \A i \in 1..Len(file) \ {name} : SettledFile[i] = file[i]
         /\ PathFrames \in SUBSET Frame
         /\ wal' \in [Wals -> [frames: SUBSET Frame, lock: Process \cup {NoProc}]]
         /\ \A w \in Wals : wal'[w].frames \subseteq wal[w].frames
         /\ \A w \in Wals : \/ wal'[w].lock = wal[w].lock
                            \/ /\ walAt = 0 /\ wal'[w] = EmptyWal
                               /\ \A q \in Process : conn[q].wal # w
         /\ walAt # 0 => wal'[walAt] = [frames |-> {}, lock |-> wal[walAt].lock]
         /\ \A w \in Wals : \/ wal'[w] = wal[w]
                            \/ w = walAt
                            \/ walAt = 0 /\ \A q \in Process : conn[q].wal # w
         /\ walAt = 0 /\ ~ Alone => walAt' \in Wals /\ wal'[walAt'] = EmptyWal
                                    /\ \A q \in Process : conn[q].wal # walAt'
         /\ walAt' = IF Alone THEN 0 ELSE IF walAt = 0 THEN FreeWal ELSE walAt
         /\ walAt' \in {0} \cup Wals
<1> DEFINE free == FreeWal
<1>1. /\ \A w \in Wals : wal[w].frames \in SUBSET Frame /\ wal[w].lock \in Process \cup {NoProc}
      /\ walAt \in {0} \cup Wals /\ name \in 1..Len(file)
  BY WalsAreRecords
<1>2. PathFrames \in SUBSET Frame
  BY <1>1 DEF PathFrames
<1>3. /\ SettledFile \in Seq(FileRecord) /\ Len(SettledFile) = Len(file)
      /\ SettledFile[name] = Merged(name, PathFrames)
      /\ \A i \in 1..Len(file) \ {name} : SettledFile[i] = file[i]
  <2> DEFINE r == Merged(name, PathFrames)
  <2>1. r \in FileRecord
    BY <1>1, <1>2, MergedIsFile
  <2>2. SettledFile = [file EXCEPT ![name] = r]
    BY DEF SettledFile
  <2> HIDE DEF r
  <2>3. /\ [file EXCEPT ![name] = r] \in Seq(FileRecord)
        /\ Len([file EXCEPT ![name] = r]) = Len(file)
        /\ \A j \in 1..Len(file) : [file EXCEPT ![name] = r][j] = IF j = name THEN r ELSE file[j]
    BY <1>1, <2>1, FileReplaced
  <2>4. SettledFile[name] = r
    BY <1>1, <2>2, <2>3
  <2> QED
    BY <2>2, <2>3, <2>4 DEF r
<1>4. wal \in [Wals -> [frames: SUBSET Frame, lock: Process \cup {NoProc}]]
  BY DEF FilesTypeOK
<1>5. CASE walAt = 0
  <2>1. free \in Wals /\ \A p \in Process : conn[p].wal # free
    BY <1>5, FreeWalExists
  <2>2. wal' = [wal EXCEPT ![free] = EmptyWal] /\ walAt' = IF Alone THEN 0 ELSE free
    BY <1>5 DEF SettledWal, SettledAt
  <2>3. free = FreeWal
    OBVIOUS
  <2> HIDE DEF free
  <2>4. EmptyWal \in [frames: SUBSET Frame, lock: Process \cup {NoProc}] /\ EmptyWal.frames = {}
    BY DEF EmptyWal
  <2>5. /\ wal' \in [Wals -> [frames: SUBSET Frame, lock: Process \cup {NoProc}]]
        /\ wal'[free] = EmptyWal /\ \A w \in Wals \ {free} : wal'[w] = wal[w]
    BY <1>4, <2>1, <2>2, <2>4
  <2>6. \A w \in Wals : wal'[w].frames \subseteq wal[w].frames
    BY <2>4, <2>5
  <2>7. \A w \in Wals : \/ wal'[w].lock = wal[w].lock
                        \/ /\ walAt = 0 /\ wal'[w] = EmptyWal
                           /\ \A q \in Process : conn[q].wal # w
    BY <1>5, <2>1, <2>5
  <2>8. \A w \in Wals : \/ wal'[w] = wal[w]
                        \/ w = walAt
                        \/ walAt = 0 /\ \A q \in Process : conn[q].wal # w
    BY <1>5, <2>1, <2>5
  <2>9. ~ Alone => walAt' \in Wals /\ wal'[walAt'] = EmptyWal
                   /\ \A q \in Process : conn[q].wal # walAt'
    BY <2>1, <2>2, <2>5
  <2>10. walAt' \in {0} \cup Wals
    BY <2>1, <2>2
  <2>11. walAt' = IF Alone THEN 0 ELSE IF walAt = 0 THEN FreeWal ELSE walAt
    BY <1>5, <2>2, <2>3
  <2> QED
    BY <1>1, <1>2, <1>3, <1>5, <2>5, <2>6, <2>7, <2>8, <2>9, <2>10, <2>11
<1>6. CASE walAt # 0
  <2>1. wal' = [wal EXCEPT ![walAt].frames = {}] /\ walAt' = IF Alone THEN 0 ELSE walAt
    BY <1>6 DEF SettledWal, SettledAt
  <2>2. walAt \in Wals
    BY <1>1, <1>6
  <2>3. /\ wal' \in [Wals -> [frames: SUBSET Frame, lock: Process \cup {NoProc}]]
        /\ wal'[walAt] = [frames |-> {}, lock |-> wal[walAt].lock]
        /\ \A w \in Wals \ {walAt} : wal'[w] = wal[w]
    BY <1>4, <2>1, <2>2
  <2>4. \A w \in Wals : wal'[w].frames \subseteq wal[w].frames /\ wal'[w].lock = wal[w].lock
    BY <2>3
  <2>5. walAt' \in {0} \cup Wals
    BY <2>1, <2>2
  <2> QED
    BY <1>1, <1>2, <1>3, <1>6, <2>1, <2>3, <2>4, <2>5
<1> QED
  BY <1>5, <1>6

LEMMA SettledTypes ==
  ASSUME FilesTypeOK, FilesAssumption, name # 0, Settled, UNCHANGED <<name, conn>>
  PROVE  FilesTypeOK' /\ Len(file') = Len(file)
<1>1. /\ name \in 1..Len(file)
      /\ SettledFile \in Seq(FileRecord) /\ Len(SettledFile) = Len(file)
      /\ wal' \in [Wals -> [frames: SUBSET Frame, lock: Process \cup {NoProc}]]
      /\ \A w \in Wals : \/ wal'[w].lock = wal[w].lock
                         \/ /\ walAt = 0 /\ wal'[w] = EmptyWal
                            /\ \A q \in Process : conn[q].wal # w
      /\ walAt' \in {0} \cup Wals
  BY SettledDoes DEF Settled
<1>2. file' = SettledFile /\ name' = name /\ conn' = conn
  BY DEF Settled
<1>3. Len(file) <= MaxFile /\ conn \in [Process -> [file: 0..Len(file), wal: {0} \cup Wals]]
  BY DEF FilesTypeOK
<1>4. \A w \in Wals : wal'[w].lock # NoProc => conn'[wal'[w].lock].wal = w
  BY <1>1, <1>2 DEF FilesTypeOK, EmptyWal
<1>5. /\ file' \in Seq(FileRecord) /\ Len(file') <= MaxFile /\ name' \in 0..Len(file')
      /\ conn' \in [Process -> [file: 0..Len(file'), wal: {0} \cup Wals]]
  <2>1. Len(file') = Len(file) /\ file' \in Seq(FileRecord)
    BY <1>1, <1>2
  <2>2. name' \in 0..Len(file)
    BY <1>1, <1>2
  <2> QED
    BY <1>2, <1>3, <2>1, <2>2
<1>6. FilesTypeOK'
  BY <1>1, <1>4, <1>5, FilesTypeIntro, Zenon
<1> QED
  BY <1>1, <1>2, <1>6

\* A checkpoint copies the frames of the connection's WAL into its file.
LEMMA CheckpointDoes ==
  ASSUME FilesTypeOK, NEW p \in Process, conn[p].file # 0, conn[p].wal # 0
  PROVE  /\ conn[p].file \in 1..Len(file) /\ conn[p].wal \in Wals
         /\ Checkpointed(p) \in Seq(FileRecord) /\ Len(Checkpointed(p)) = Len(file)
         /\ Checkpointed(p)[conn[p].file] = Merged(conn[p].file, wal[conn[p].wal].frames)
         /\ \A i \in 1..Len(file) \ {conn[p].file} : Checkpointed(p)[i] = file[i]
<1> DEFINE k == conn[p].file
           r == Merged(k, wal[conn[p].wal].frames)
<1>1. k \in 1..Len(file) /\ conn[p].wal \in Wals
  <2>1. conn[p].file \in 0..Len(file) /\ conn[p].wal \in {0} \cup Wals /\ Len(file) \in Nat
    BY WalsAreRecords
  <2> QED
    BY <2>1
<1>2. wal[conn[p].wal].frames \in SUBSET Frame
  BY <1>1, WalsAreRecords
<1>3. r \in FileRecord
  BY <1>1, <1>2, MergedIsFile
<1>4. Checkpointed(p) = [file EXCEPT ![k] = r]
  BY DEF Checkpointed
<1> HIDE DEF k, r
<1>5. /\ [file EXCEPT ![k] = r] \in Seq(FileRecord)
      /\ Len([file EXCEPT ![k] = r]) = Len(file)
      /\ \A j \in 1..Len(file) : [file EXCEPT ![k] = r][j] = IF j = k THEN r ELSE file[j]
  BY <1>1, <1>3, FileReplaced
<1>6. Checkpointed(p)[k] = r /\ \A i \in 1..Len(file) \ {k} : Checkpointed(p)[i] = file[i]
  BY <1>1, <1>4, <1>5
<1>7. Checkpointed(p) \in Seq(FileRecord) /\ Len(Checkpointed(p)) = Len(file)
  BY <1>4, <1>5
<1> QED
  BY <1>1, <1>6, <1>7 DEF k, r

\* A process goes: so does its connection, with the lock it held.
LEMMA VanishDoes ==
  ASSUME FilesTypeOK, NEW p \in Process, Vanish(p)
  PROVE  /\ FilesTypeOK' /\ name' = name /\ file' = file /\ walAt' = walAt
         /\ conn'[p] = Closed
         /\ \A q \in Process \ {p} : conn'[q] = conn[q]
         /\ \A w \in Wals : /\ wal'[w].frames = wal[w].frames
                            /\ wal[w].lock # p => wal'[w].lock = wal[w].lock
<1> DEFINE v == conn[p].wal
<1>1. /\ conn' = [conn EXCEPT ![p] = Closed] /\ name' = name /\ file' = file /\ walAt' = walAt
      /\ wal' = IF v = 0 THEN wal ELSE Unlocked(v, p)
  BY DEF Vanish
<1>2. /\ \A w \in Wals : wal[w].frames \in SUBSET Frame /\ wal[w].lock \in Process \cup {NoProc}
      /\ walAt \in {0} \cup Wals /\ name \in 0..Len(file) /\ Len(file) \in Nat
      /\ v \in {0} \cup Wals /\ 0 \notin Wals
  BY WalsAreRecords
<1>3. /\ conn \in [Process -> [file: 0..Len(file), wal: {0} \cup Wals]]
      /\ wal \in [Wals -> [frames: SUBSET Frame, lock: Process \cup {NoProc}]]
  BY DEF FilesTypeOK
<1> HIDE DEF v
<1>4. /\ conn' \in [Process -> [file: 0..Len(file), wal: {0} \cup Wals]]
      /\ conn'[p] = Closed /\ \A q \in Process \ {p} : conn'[q] = conn[q]
  BY <1>1, <1>2, <1>3 DEF Closed
<1>5. /\ wal' \in [Wals -> [frames: SUBSET Frame, lock: Process \cup {NoProc}]]
      /\ \A w \in Wals : /\ wal'[w].frames = wal[w].frames
                         /\ wal[w].lock # p => wal'[w].lock = wal[w].lock
                         /\ wal'[w].lock # NoProc => wal'[w].lock = wal[w].lock
      /\ v # 0 => wal'[v].lock # p \/ p = NoProc
  BY <1>1, <1>2, <1>3 DEF Unlocked
<1>6. \A w \in Wals : wal'[w].lock # NoProc => conn'[wal'[w].lock].wal = w
  <2> SUFFICES ASSUME NEW w \in Wals, wal'[w].lock # NoProc
               PROVE  conn'[wal'[w].lock].wal = w
    OBVIOUS
  <2>1. wal'[w].lock = wal[w].lock /\ wal[w].lock \in Process
    BY <1>2, <1>5
  <2>2. conn[wal[w].lock].wal = w
    BY <2>1 DEF FilesTypeOK
  <2>3. wal[w].lock # p
    BY <1>2, <1>5, <2>1, <2>2 DEF v
  <2> QED
    BY <1>4, <2>1, <2>2, <2>3
<1>7. file' \in Seq(FileRecord) /\ Len(file') <= MaxFile /\ Len(file') = Len(file)
  BY <1>1, FilesAreRecords DEF FilesTypeOK
<1>8. FilesTypeOK'
  <2>1. name' \in 0..Len(file') /\ walAt' \in {0} \cup Wals
    BY <1>1, <1>2, <1>7
  <2>2. conn' \in [Process -> [file: 0..Len(file'), wal: {0} \cup Wals]]
    BY <1>4, <1>7
  <2> QED
    BY <1>5, <1>6, <1>7, <2>1, <2>2, FilesTypeIntro, Zenon
<1> QED
  BY <1>1, <1>4, <1>5, <1>8

-----------------------------------------------------------------------------
(* What a process knows.                                                   *)

LEMMA KnownAt ==
  ASSUME OpTypeOK, NEW p \in Process
  PROVE  /\ op[p].at \in Plain => op[p] = [at |-> op[p].at]
         /\ At(p, "commit") => op[p].table \in {"runs", "snaps"} /\ op[p].run \in Run
         /\ At(p, "build") => op[p].rows \in Rows
         /\ At(p, "rebuild") => op[p].runs \in SUBSET Run
         /\ op[p].at \in {"secure", "rename"} => op[p].cand \in Nat
         /\ op[p].at \in Swapping => op[p] \in Swaps
         /\ At(p, "fingerprint") => op[p].inv \in Places
         /\ At(p, "open") => op[p] \in Opened
         /\ op[p].at \in {"admit", "sidecars"} => op[p] \in Admitted
         /\ op[p].at \in Reading => op[p] \in Reads
<1>1. op[p] \in Ops
  BY DEF OpTypeOK
<1> QED
  BY <1>1 DEF Ops, Plain, Writes, Swapping, Swaps, Opened, Admitted, Reading, Reads, At

LEMMA OpGoes ==
  ASSUME OpTypeOK, NEW p \in Process, NEW o \in Ops, Go(p, o)
  PROVE  OpTypeOK' /\ op'[p] = o /\ \A q \in Process \ {p} : op'[q] = op[q]
BY DEF OpTypeOK, Go, Ops, Writes, Swaps, Opened, Admitted, Reads

LEMMA OpSteps ==
  ASSUME OpTypeOK, NEW p \in Process, NEW s, Step(p, s),
         [op[p] EXCEPT !.at = s] \in Ops
  PROVE  /\ OpTypeOK' /\ op'[p] = [op[p] EXCEPT !.at = s]
         /\ \A q \in Process \ {p} : op'[q] = op[q]
<1> DEFINE o == [op[p] EXCEPT !.at = s]
<1>1. op' = [op EXCEPT ![p] = o]
  BY DEF Step
<1> HIDE DEF o
<1> QED
  BY <1>1, OpGoes DEF Go, o

\* A step to another place of the same kind changes nothing else.
LEMMA PlainStep ==
  ASSUME OpTypeOK, NEW p \in Process, NEW s \in Plain, op[p].at \in Plain, Step(p, s)
  PROVE  OpTypeOK' /\ op'[p] = [at |-> s] /\ \A q \in Process \ {p} : op'[q] = op[q]
<1>1. op[p] = [at |-> op[p].at]
  BY KnownAt
<1>2. [op[p] EXCEPT !.at = s] = [at |-> s]
  BY <1>1
<1>3. [at |-> s] \in Ops
  BY DEF Ops
<1> QED
  BY <1>2, <1>3, OpSteps

LEMMA SwapStep ==
  ASSUME OpTypeOK, NEW p \in Process, NEW s \in Swapping, op[p].at \in Swapping, Step(p, s)
  PROVE  /\ OpTypeOK' /\ op'[p].at = s /\ op'[p].how = op[p].how /\ op'[p].cand = op[p].cand
         /\ op'[p].digest = op[p].digest
         /\ \A q \in Process \ {p} : op'[q] = op[q]
<1>1. op[p] \in Swaps
  BY KnownAt
<1> DEFINE o == [op[p] EXCEPT !.at = s]
<1>2. /\ o \in Swaps /\ o.at = s /\ o.how = op[p].how /\ o.cand = op[p].cand
      /\ o.digest = op[p].digest
  BY <1>1 DEF Swaps
<1>3. o \in Ops
  BY <1>2 DEF Ops
<1> HIDE DEF o
<1> QED
  BY <1>2, <1>3, OpSteps DEF o

LEMMA AdmitStep ==
  ASSUME OpTypeOK, NEW p \in Process, At(p, "admit"), Step(p, "sidecars")
  PROVE  /\ OpTypeOK' /\ op'[p].at = "sidecars" /\ op'[p].fp = op[p].fp /\ op'[p].file = op[p].file
         /\ op'[p].inv = op[p].inv
         /\ \A q \in Process \ {p} : op'[q] = op[q]
<1>1. op[p] \in Admitted
  BY KnownAt DEF At
<1> DEFINE o == [op[p] EXCEPT !.at = "sidecars"]
<1>2. o \in Admitted /\ o.at = "sidecars" /\ o.fp = op[p].fp /\ o.file = op[p].file /\ o.inv = op[p].inv
  BY <1>1 DEF Admitted
<1>3. o \in Ops
  BY <1>2 DEF Ops
<1> HIDE DEF o
<1> QED
  BY <1>2, <1>3, OpSteps DEF o

LEMMA ReadingStep ==
  ASSUME OpTypeOK, NEW p \in Process, NEW s \in Reading, op[p].at \in Reading, Step(p, s)
  PROVE  /\ OpTypeOK' /\ op'[p].at = s /\ op'[p].fp = op[p].fp /\ op'[p].file = op[p].file
         /\ op'[p].got = op[p].got /\ op'[p].asOf = op[p].asOf /\ op'[p].inv = op[p].inv
         /\ \A q \in Process \ {p} : op'[q] = op[q]
<1>1. op[p] \in Reads
  BY KnownAt
<1> DEFINE o == [op[p] EXCEPT !.at = s]
<1>2. /\ o \in Reads /\ o.at = s /\ o.fp = op[p].fp /\ o.file = op[p].file
      /\ o.got = op[p].got /\ o.asOf = op[p].asOf /\ o.inv = op[p].inv
  BY <1>1 DEF Reads
<1>3. o \in Ops
  BY <1>2 DEF Ops
<1> HIDE DEF o
<1> QED
  BY <1>2, <1>3, OpSteps DEF o

-----------------------------------------------------------------------------
(* How the operations on files and WALs move them.                         *)

LEMMA GrowsByMerging ==
  ASSUME FilesTypeOK, NEW i \in 1..Len(file), NEW frames \in SUBSET Frame,
         Len(file') = Len(file), file'[i] = Merged(i, frames),
         \A j \in 1..Len(file) \ {i} : file'[j] = file[j]
  PROVE  FilesGrow
<1>1. /\ Merged(i, frames).stamp >= file[i].stamp
      /\ Merged(i, frames).stamp = file[i].stamp => Merged(i, frames).rows = file[i].rows
  BY MergedDoes
<1>2. Len(file) \in Nat /\ \A j \in 1..Len(file) : file[j].stamp \in Nat
  BY FilesAreRecords
<1> HIDE DEF Merged
<1>3. \A j \in 1..Len(file) : /\ file'[j].stamp >= file[j].stamp
                              /\ file'[j].stamp = file[j].stamp => file'[j].rows = file[j].rows
  BY <1>1, <1>2
<1> QED
  BY <1>2, <1>3 DEF FilesGrow

LEMMA GrowsNot ==
  ASSUME FilesTypeOK, file' = file
  PROVE  FilesGrow
<1>1. Len(file) \in Nat /\ \A j \in 1..Len(file) : file[j].stamp \in Nat
  BY FilesAreRecords
<1> QED
  BY <1>1 DEF FilesGrow

LEMMA SameMoves ==
  ASSUME FilesTypeOK, UNCHANGED fileVars
  PROVE  FilesTypeOK' /\ FilesMove /\ Len(file') = Len(file)
BY GrowsNot, FilesSame DEF FilesMove, FramesAreOfConnections, fileVars

LEMMA AttachMoves ==
  ASSUME FilesTypeOK, FilesAssumption, NEW p \in Process, conn[p] = Closed, Attach(p)
  PROVE  FilesMove
<1>1. /\ file' = file /\ walAt' \in Wals
      /\ conn'[p] = [file |-> name, wal |-> walAt']
      /\ \A q \in Process \ {p} : conn'[q] = conn[q]
      /\ walAt # 0 => wal' = wal
      /\ walAt = 0 => /\ wal'[walAt'] = EmptyWal
                      /\ \A w \in Wals \ {walAt'} : wal'[w] = wal[w]
  BY AttachDoes
<1>2. FramesAreOfConnections
  BY <1>1 DEF FramesAreOfConnections, EmptyWal
<1>3. \A q \in Process : conn'[q].file \in {0, name, conn[q].file}
  BY <1>1
<1> QED
  BY <1>1, <1>2, <1>3, GrowsNot DEF FilesMove

LEMMA DetachMoves ==
  ASSUME FilesTypeOK, NEW p \in Process, conn[p].file # 0, conn[p].wal # 0, Detach(p)
  PROVE  FilesMove
<1>1. /\ Len(file') = Len(file) /\ conn'[p] = Closed
      /\ \A q \in Process \ {p} : conn'[q] = conn[q]
      /\ \A w \in Wals : wal'[w].frames = wal[w].frames
      /\ \/ file' = file
         \/ /\ name \in 1..Len(file)
            /\ file'[name] = Merged(name, wal[conn[p].wal].frames)
            /\ \A i \in 1..Len(file) \ {name} : file'[i] = file[i]
  BY DetachDoes
<1>2. conn[p].wal \in Wals /\ wal[conn[p].wal].frames \in SUBSET Frame
  BY WalsAreRecords
<1>3. FilesGrow
  BY <1>1, <1>2, GrowsByMerging, GrowsNot
<1>4. FramesAreOfConnections
  BY <1>1 DEF FramesAreOfConnections
<1>5. \A q \in Process : conn'[q].file \in {0, name, conn[q].file}
  BY <1>1 DEF Closed
<1> QED
  BY <1>3, <1>4, <1>5 DEF FilesMove

LEMMA SettledMoves ==
  ASSUME FilesTypeOK, FilesAssumption, name # 0, Settled, UNCHANGED <<name, conn>>
  PROVE  FilesMove
<1>1. /\ name \in 1..Len(file) /\ Len(SettledFile) = Len(file)
      /\ SettledFile[name] = Merged(name, PathFrames)
      /\ \A i \in 1..Len(file) \ {name} : SettledFile[i] = file[i]
      /\ PathFrames \in SUBSET Frame
      /\ \A w \in Wals : wal'[w].frames \subseteq wal[w].frames
  BY SettledDoes DEF Settled
<1>2. file' = SettledFile /\ conn' = conn
  BY DEF Settled
<1>3. FilesGrow
  BY <1>1, <1>2, GrowsByMerging
<1>4. FramesAreOfConnections /\ \A q \in Process : conn'[q].file \in {0, name, conn[q].file}
  BY <1>1, <1>2 DEF FramesAreOfConnections
<1> QED
  BY <1>3, <1>4 DEF FilesMove

\* A checkpoint, which may also take or keep the lock of the WAL it empties.
LEMMA CheckpointMoves ==
  ASSUME FilesTypeOK, NEW p \in Process, conn[p].file # 0, conn[p].wal # 0,
         NEW l \in {wal[conn[p].wal].lock, p},
         file' = Checkpointed(p), wal' = [wal EXCEPT ![conn[p].wal] = [frames |-> {}, lock |-> l]],
         UNCHANGED <<name, walAt, conn>>
  PROVE  FilesTypeOK' /\ FilesMove /\ Len(file') = Len(file)
<1> DEFINE v == conn[p].wal
<1>1. /\ conn[p].file \in 1..Len(file) /\ v \in Wals
      /\ file' \in Seq(FileRecord) /\ Len(file') = Len(file)
      /\ file'[conn[p].file] = Merged(conn[p].file, wal[v].frames)
      /\ \A i \in 1..Len(file) \ {conn[p].file} : file'[i] = file[i]
  BY CheckpointDoes
<1>2. /\ \A w \in Wals : wal[w].frames \in SUBSET Frame /\ wal[w].lock \in Process \cup {NoProc}
      /\ walAt \in {0} \cup Wals /\ name \in 0..Len(file)
  BY WalsAreRecords
<1>3. FilesGrow
  BY <1>1, <1>2, GrowsByMerging
<1>4. wal \in [Wals -> [frames: SUBSET Frame, lock: Process \cup {NoProc}]]
  BY DEF FilesTypeOK
<1>5. /\ wal' \in [Wals -> [frames: SUBSET Frame, lock: Process \cup {NoProc}]]
      /\ wal'[v] = [frames |-> {}, lock |-> l] /\ \A w \in Wals \ {v} : wal'[w] = wal[w]
  BY <1>1, <1>2, <1>4
<1>6. FramesAreOfConnections /\ \A q \in Process : conn'[q].file \in {0, name, conn[q].file}
  BY <1>1, <1>5 DEF FramesAreOfConnections
<1>7. \A w \in Wals : wal'[w].lock # NoProc => conn'[wal'[w].lock].wal = w
  BY <1>1, <1>5 DEF FilesTypeOK
<1>8. FilesTypeOK'
  <2>1. name' \in 0..Len(file') /\ Len(file') <= MaxFile /\ walAt' \in {0} \cup Wals
    BY <1>1, <1>2 DEF FilesTypeOK
  <2>2. conn' \in [Process -> [file: 0..Len(file'), wal: {0} \cup Wals]]
    BY <1>1 DEF FilesTypeOK
  <2> QED
    BY <1>1, <1>5, <1>7, <2>1, <2>2, FilesTypeIntro, Zenon
<1> QED
  BY <1>1, <1>3, <1>6, <1>8 DEF FilesMove

-----------------------------------------------------------------------------
(* Types: what is left to say of a step of one process.                    *)

LEMMA StepTypes ==
  ASSUME TypeInvariant, NEW p \in Process, FilesTypeOK', OpTypeOK', OthersWait(p), Fit(p)',
         evidence' \in Rows, backup' \in Rows, tmp' \in 0..Len(file'),
         deaths' \in 0..MaxDeaths, refused' \in BOOLEAN
  PROVE  TypeInvariant'
<1>1. ConnectionsFit'
  BY DEF TypeInvariant, ConnectionsFit, OthersWait, Fit
<1> QED
  BY <1>1 DEF TypeInvariant, IndexTypeOK, Hypotheses, FilesAssumption, CommandsAssumption

\* The same for a step that leaves the Evidence and the candidate path alone.
LEMMA FileStepTypes ==
  ASSUME TypeInvariant, NEW p \in Process, FilesTypeOK', OpTypeOK', OthersWait(p), Fit(p)',
         Len(file') >= Len(file), UNCHANGED <<evidence, tmp, backup, deaths, refused>>
  PROVE  TypeInvariant'
<1>1. Len(file) \in Nat /\ Len(file') \in Nat
  BY FilesAreRecords DEF TypeInvariant, IndexTypeOK, FilesTypeOK
<1>2. evidence' \in Rows /\ backup' \in Rows /\ tmp' \in 0..Len(file')
      /\ deaths' \in 0..MaxDeaths /\ refused' \in BOOLEAN
  BY <1>1 DEF TypeInvariant, IndexTypeOK
<1> QED
  BY <1>2, StepTypes

\* A step that opens, uses or closes no connection.
LEMMA QuietStepTypes ==
  ASSUME TypeInvariant, NEW p \in Process, UNCHANGED fileVars, OpTypeOK',
         \A q \in Process \ {p} : op'[q] = op[q],
         op[p].at \notin Connected, op'[p].at \notin Connected,
         UNCHANGED <<evidence, tmp, backup, deaths, refused>>
  PROVE  TypeInvariant' /\ FilesMove /\ OthersWait(p)
<1>1. FilesTypeOK' /\ FilesMove /\ Len(file') >= Len(file)
  BY SameMoves, FilesAreRecords DEF TypeInvariant, IndexTypeOK
<1>2. OthersWait(p) /\ Fit(p)'
  BY DEF OthersWait, Fit, fileVars, TypeInvariant, ConnectionsFit
<1> QED
  BY <1>1, <1>2, FileStepTypes

\* Facts of the invariant that every step uses.
LEMMA TypeFacts ==
  ASSUME TypeInvariant
  PROVE  /\ FilesTypeOK /\ OpTypeOK /\ FilesAssumption /\ Len(file) \in Nat
         /\ evidence \in Rows /\ backup \in Rows /\ tmp \in 0..Len(file)
         /\ \A p \in Process : Fit(p)
BY FilesAreRecords DEF TypeInvariant, IndexTypeOK, Hypotheses, ConnectionsFit

LEMMA Attaching ==
  ASSUME TypeInvariant, NEW p \in Process, op[p].at \notin Connected, Attach(p), OpTypeOK',
         op'[p].at \in Connected, \A q \in Process \ {p} : op'[q] = op[q],
         UNCHANGED <<evidence, tmp, backup, deaths, refused>>
  PROVE  TypeInvariant' /\ FilesMove /\ OthersWait(p)
<1>1. conn[p] = Closed /\ FilesTypeOK /\ FilesAssumption
  BY TypeFacts DEF Fit
<1>2. /\ FilesTypeOK' /\ file' = file /\ name \in 1..Len(file) /\ walAt' \in Wals
      /\ conn'[p] = [file |-> name, wal |-> walAt']
      /\ \A q \in Process \ {p} : conn'[q] = conn[q]
  BY <1>1, AttachDoes
<1>3. Fit(p)' /\ OthersWait(p)
  BY <1>2 DEF Fit, OthersWait, Wals
<1>4. FilesMove /\ Len(file') >= Len(file)
  BY <1>1, <1>2, AttachMoves, TypeFacts
<1> QED
  BY <1>2, <1>3, <1>4, FileStepTypes

LEMMA Detaching ==
  ASSUME TypeInvariant, NEW p \in Process, op[p].at \in Connected, Detach(p), OpTypeOK',
         op'[p].at \notin Connected, \A q \in Process \ {p} : op'[q] = op[q],
         UNCHANGED <<evidence, backup, deaths, refused>>, tmp' \in {0, tmp}
  PROVE  TypeInvariant' /\ FilesMove /\ OthersWait(p)
<1>1. conn[p].file # 0 /\ conn[p].wal # 0 /\ FilesTypeOK
  BY TypeFacts DEF Fit
<1>2. /\ FilesTypeOK' /\ Len(file') = Len(file) /\ conn'[p] = Closed
      /\ \A q \in Process \ {p} : conn'[q] = conn[q]
  BY <1>1, DetachDoes
<1>3. Fit(p)' /\ OthersWait(p)
  BY <1>2 DEF Fit, OthersWait
<1>4. FilesMove /\ tmp' \in 0..Len(file')
  BY <1>1, <1>2, DetachMoves, TypeFacts
<1>5. /\ evidence' \in Rows /\ backup' \in Rows /\ deaths' \in 0..MaxDeaths /\ refused' \in BOOLEAN
  BY DEF TypeInvariant, IndexTypeOK
<1> QED
  BY <1>2, <1>3, <1>4, <1>5, StepTypes

\* A step that settles the index, or leaves it alone.
LEMMA Settling ==
  ASSUME TypeInvariant, NEW p \in Process, name # 0, Settled, OpTypeOK',
         op[p].at \notin Connected, op'[p].at \notin Connected,
         \A q \in Process \ {p} : op'[q] = op[q],
         UNCHANGED <<name, conn, evidence, tmp, deaths>>, backup' \in Rows, refused' \in BOOLEAN
  PROVE  TypeInvariant' /\ FilesMove /\ OthersWait(p)
<1>1. FilesTypeOK' /\ Len(file') = Len(file) /\ FilesMove
  BY SettledTypes, SettledMoves, TypeFacts
<1>2. Fit(p)' /\ OthersWait(p)
  BY TypeFacts DEF Fit, OthersWait
<1>3. evidence' \in Rows /\ tmp' \in 0..Len(file') /\ deaths' \in 0..MaxDeaths
  BY <1>1, TypeFacts DEF TypeInvariant, IndexTypeOK
<1> QED
  BY <1>1, <1>2, <1>3, StepTypes

\* A file is added that no path names yet, or that the path names at once.
LEMMA Adding ==
  ASSUME TypeInvariant, NEW p \in Process, NEW r \in FileRecord, Len(file) < MaxFile,
         file' = Append(file, r), name' \in {name, Len(file) + 1}, OpTypeOK',
         op[p].at \notin Connected, op'[p].at \notin Connected,
         \A q \in Process \ {p} : op'[q] = op[q],
         UNCHANGED <<walAt, wal, conn, evidence, tmp, backup, deaths, refused>>
  PROVE  TypeInvariant' /\ FilesMove /\ OthersWait(p)
<1>1. /\ FilesTypeOK /\ Len(file) \in Nat /\ name \in 0..Len(file) /\ walAt \in {0} \cup Wals
      /\ MaxFile \in Nat
  BY TypeFacts, WalsAreRecords DEF FilesAssumption
<1>2. /\ file' \in Seq(FileRecord) /\ Len(file') = Len(file) + 1
      /\ \A j \in 1..Len(file) : file'[j] = file[j]
  BY <1>1, FileAdded
<1>3. FilesTypeOK'
  <2>1. name' \in 0..Len(file') /\ Len(file') <= MaxFile /\ walAt' \in {0} \cup Wals
    BY <1>1, <1>2
  <2>2. conn' \in [Process -> [file: 0..Len(file'), wal: {0} \cup Wals]]
    <3>1. \A q \in Process : conn[q] \in [file: 0..Len(file), wal: {0} \cup Wals]
      BY <1>1 DEF FilesTypeOK
    <3>2. \A q \in Process : conn[q] \in [file: 0..Len(file'), wal: {0} \cup Wals]
      BY <1>1, <1>2, <3>1
    <3> QED
      BY <1>1, <3>2 DEF FilesTypeOK
  <2>3. /\ wal' \in [Wals -> [frames: SUBSET Frame, lock: Process \cup {NoProc}]]
        /\ \A w \in Wals : wal'[w].lock # NoProc => conn'[wal'[w].lock].wal = w
    BY <1>1 DEF FilesTypeOK
  <2> QED
    BY <1>2, <2>1, <2>2, <2>3, FilesTypeIntro, Zenon
<1>4. FilesMove
  <2>1. FilesGrow
    BY <1>1, <1>2, FilesAreRecords DEF FilesGrow
  <2>2. FramesAreOfConnections /\ \A q \in Process : conn'[q].file \in {0, name, conn[q].file}
    BY DEF FramesAreOfConnections
  <2> QED
    BY <2>1, <2>2 DEF FilesMove
<1>5. Fit(p)' /\ OthersWait(p)
  BY TypeFacts DEF Fit, OthersWait
<1>6. Len(file') >= Len(file)
  BY <1>1, <1>2
<1> QED
  BY <1>3, <1>4, <1>5, <1>6, FileStepTypes

-----------------------------------------------------------------------------
(* The steps of writers and of the hand-off.                               *)

LEMMA ConnectedFacts ==
  ASSUME TypeInvariant, NEW p \in Process, op[p].at \in Connected
  PROVE  /\ conn[p].file \in 1..Len(file) /\ conn[p].file # 0
         /\ conn[p].wal \in Wals /\ conn[p].wal # 0
<1>1. conn[p].file # 0 /\ conn[p].wal # 0
  BY TypeFacts DEF Fit
<1>2. conn[p].file \in 0..Len(file) /\ conn[p].wal \in {0} \cup Wals /\ Len(file) \in Nat
  BY TypeFacts, WalsAreRecords
<1> QED
  BY <1>1, <1>2

LEMMA WriteOpenSafe ==
  ASSUME TypeInvariant, NEW p \in Process, WriteOpen(p)
  PROVE  Safe(p) /\ Ordinary(p) /\ Unread(p)
<1> DEFINE o == [at |-> "begin"]
<1>1. o \in Ops
  BY DEF Ops, Plain
<1>2. OpTypeOK' /\ op'[p] = o /\ \A q \in Process \ {p} : op'[q] = op[q]
  BY <1>1, OpGoes, TypeFacts DEF WriteOpen
<1>3. op[p].at \notin Connected /\ op'[p].at \in Connected
  BY <1>2 DEF WriteOpen, Ready, At, Connected
<1>4. Safe(p)
  BY <1>2, <1>3, Attaching DEF WriteOpen, Safe
<1> QED
  BY <1>2, <1>4 DEF WriteOpen, Attach, Ordinary, Unread, HasCandidate, Fingerprinted, Reading

LEMMA WriteBeginSafe ==
  ASSUME TypeInvariant, NEW p \in Process, NEW table \in {"runs", "snaps"}, NEW r \in Run,
         WriteBegin(p, table, r)
  PROVE  Safe(p) /\ Ordinary(p) /\ Unread(p)
<1> DEFINE o == [at |-> "commit", table |-> table, run |-> r]
           v == conn[p].wal
<1>1. o \in Ops
  BY DEF Ops, Writes
<1>2. OpTypeOK' /\ op'[p] = o /\ \A q \in Process \ {p} : op'[q] = op[q]
  BY <1>1, OpGoes, TypeFacts DEF WriteBegin
<1>3. /\ op[p].at \in Connected /\ op'[p].at \in Connected /\ v \in Wals
      /\ conn[p].file # 0 /\ v # 0
  <2>1. op[p].at \in Connected /\ op'[p].at \in Connected
    BY <1>2 DEF WriteBegin, At, Connected
  <2> QED
    BY <2>1, ConnectedFacts
<1>4. /\ wal' = [wal EXCEPT ![v].lock = p] /\ wal[v].lock = NoProc
      /\ UNCHANGED <<name, file, walAt, conn>>
  BY DEF WriteBegin
<1>5. wal \in [Wals -> [frames: SUBSET Frame, lock: Process \cup {NoProc}]]
  BY TypeFacts DEF FilesTypeOK
<1> HIDE DEF v
<1>6. /\ wal' \in [Wals -> [frames: SUBSET Frame, lock: Process \cup {NoProc}]]
      /\ wal'[v].lock = p /\ \A w \in Wals \ {v} : wal'[w] = wal[w]
      /\ \A w \in Wals : wal'[w].frames = wal[w].frames
  BY <1>3, <1>4, <1>5
<1>7. \A w \in Wals : wal'[w].lock # NoProc => conn'[wal'[w].lock].wal = w
  BY <1>4, <1>6, TypeFacts DEF FilesTypeOK, v
<1>8. FilesTypeOK'
  <2>1. /\ file' \in Seq(FileRecord) /\ Len(file') <= MaxFile /\ name' \in 0..Len(file')
        /\ walAt' \in {0} \cup Wals /\ conn' \in [Process -> [file: 0..Len(file'), wal: {0} \cup Wals]]
    BY <1>4, FilesAreRecords, TypeFacts DEF FilesTypeOK
  <2> QED
    BY <1>6, <1>7, <2>1, FilesTypeIntro, Zenon
<1>9. FilesMove
  BY <1>4, <1>6, GrowsNot, TypeFacts DEF FilesMove, FramesAreOfConnections
<1>10. OthersWait(p) /\ Fit(p)'
  BY <1>2, <1>3, <1>4 DEF OthersWait, Fit, v
<1>11. evidence' \in Rows
  <2>1. evidence \in Rows /\ evidence' = [evidence EXCEPT ![table] = @ \cup {r}]
    BY TypeFacts DEF WriteBegin
  <2> QED
    BY <2>1 DEF Rows
<1>12. /\ backup' \in Rows /\ tmp' \in 0..Len(file') /\ deaths' \in 0..MaxDeaths
       /\ refused' \in BOOLEAN
  BY <1>4 DEF WriteBegin, TypeInvariant, IndexTypeOK
<1>13. Safe(p)
  BY <1>2, <1>8, <1>9, <1>10, <1>11, <1>12, StepTypes DEF Safe
<1> QED
  BY <1>2, <1>13 DEF WriteBegin, Ordinary, Unread, HasCandidate, Fingerprinted, Reading

LEMMA WriteCommitSafe ==
  ASSUME TypeInvariant, NEW p \in Process, WriteCommit(p)
  PROVE  Safe(p) /\ Ordinary(p) /\ Unread(p)
<1> DEFINE o == [at |-> "close"]
           v == conn[p].wal
           f == [file |-> conn[p].file, table |-> op[p].table, run |-> op[p].run]
<1>1. o \in Ops
  BY DEF Ops, Plain
<1>2. OpTypeOK' /\ op'[p] = o /\ \A q \in Process \ {p} : op'[q] = op[q]
  BY <1>1, OpGoes, TypeFacts DEF WriteCommit
<1>3. /\ op[p].at \in Connected /\ op'[p].at \in Connected /\ v \in Wals
      /\ conn[p].file # 0 /\ v # 0 /\ conn[p].file \in 1..Len(file)
  <2>1. op[p].at \in Connected /\ op'[p].at \in Connected
    BY <1>2 DEF WriteCommit, At, Connected
  <2> QED
    BY <2>1, ConnectedFacts
<1>4. /\ wal' = [wal EXCEPT ![v] = [frames |-> @.frames \cup {f}, lock |-> NoProc]]
      /\ UNCHANGED <<name, file, walAt, conn>>
  BY DEF WriteCommit
<1>5. wal \in [Wals -> [frames: SUBSET Frame, lock: Process \cup {NoProc}]]
  BY TypeFacts DEF FilesTypeOK
<1>6. f \in Frame /\ f.file = conn[p].file
  <2>1. op[p].table \in {"runs", "snaps"} /\ op[p].run \in Run
    BY KnownAt, TypeFacts DEF WriteCommit
  <2>2. conn[p].file \in 1..MaxFile
    BY <1>3, TypeFacts DEF FilesTypeOK, FilesAssumption
  <2> QED
    BY <2>1, <2>2 DEF Frame
<1> HIDE DEF v, f
<1>7. /\ wal' \in [Wals -> [frames: SUBSET Frame, lock: Process \cup {NoProc}]]
      /\ wal'[v] = [frames |-> wal[v].frames \cup {f}, lock |-> NoProc]
      /\ \A w \in Wals \ {v} : wal'[w] = wal[w]
  BY <1>3, <1>4, <1>5, <1>6
<1>8. \A w \in Wals : wal'[w].lock # NoProc => conn'[wal'[w].lock].wal = w
  BY <1>4, <1>7, TypeFacts DEF FilesTypeOK
<1>9. FilesTypeOK'
  <2>1. /\ file' \in Seq(FileRecord) /\ Len(file') <= MaxFile /\ name' \in 0..Len(file')
        /\ walAt' \in {0} \cup Wals /\ conn' \in [Process -> [file: 0..Len(file'), wal: {0} \cup Wals]]
    BY <1>4, FilesAreRecords, TypeFacts DEF FilesTypeOK
  <2> QED
    BY <1>7, <1>8, <2>1, FilesTypeIntro, Zenon
<1>10. FilesMove
  <2>1. FramesAreOfConnections
    BY <1>3, <1>6, <1>7 DEF FramesAreOfConnections
  <2> QED
    BY <1>4, <2>1, GrowsNot, TypeFacts DEF FilesMove
<1>11. OthersWait(p) /\ Fit(p)'
  BY <1>2, <1>3, <1>4 DEF OthersWait, Fit, v
<1>12. UNCHANGED <<evidence, tmp, backup, deaths, refused>> /\ Len(file') >= Len(file)
  BY <1>4, TypeFacts DEF WriteCommit
<1>13. Safe(p)
  BY <1>2, <1>9, <1>10, <1>11, <1>12, FileStepTypes DEF Safe
<1> QED
  BY <1>2, <1>13 DEF WriteCommit, Ordinary, Unread, HasCandidate, Fingerprinted, Reading

LEMMA CloseSafe ==
  ASSUME TypeInvariant, NEW p \in Process, Close(p)
  PROVE  Safe(p) /\ Ordinary(p) /\ Unread(p)
<1>1. Idle \in Ops
  BY DEF Ops, Plain, Idle
<1>2. OpTypeOK' /\ op'[p] = Idle /\ \A q \in Process \ {p} : op'[q] = op[q]
  BY <1>1, OpGoes, TypeFacts DEF Close
<1>3. op[p].at \in Connected /\ op'[p].at \notin Connected
  BY <1>2 DEF Close, Connected, Idle
<1>4. Safe(p)
  BY <1>2, <1>3, Detaching DEF Close, Safe
<1> QED
  BY <1>2, <1>4 DEF Close, Detach, Ordinary, Unread, HasCandidate, Fingerprinted, Reading, Idle

LEMMA HandoffOpenSafe ==
  ASSUME TypeInvariant, NEW p \in Process, HandoffOpen(p)
  PROVE  Safe(p) /\ Ordinary(p) /\ Unread(p)
<1> DEFINE o == [at |-> "handoff"]
<1>1. o \in Ops
  BY DEF Ops, Plain
<1>2. OpTypeOK' /\ op'[p] = o /\ \A q \in Process \ {p} : op'[q] = op[q]
  BY <1>1, OpGoes, TypeFacts DEF HandoffOpen
<1>3. op[p].at \notin Connected /\ op'[p].at \in Connected
  BY <1>2 DEF HandoffOpen, Ready, At, Connected
<1>4. Safe(p)
  BY <1>2, <1>3, Attaching DEF HandoffOpen, Safe
<1> QED
  BY <1>2, <1>4 DEF HandoffOpen, Attach, Ordinary, Unread, HasCandidate, Fingerprinted, Reading

LEMMA HandoffCheckpointSafe ==
  ASSUME TypeInvariant, NEW p \in Process, HandoffCheckpoint(p)
  PROVE  Safe(p) /\ Ordinary(p) /\ Unread(p)
<1>1. OpTypeOK' /\ op'[p] = [at |-> "handoff_close"] /\ \A q \in Process \ {p} : op'[q] = op[q]
  BY PlainStep, TypeFacts DEF HandoffCheckpoint, At, Plain
<1>2. op[p].at \in Connected /\ op'[p].at \in Connected /\ conn[p].file # 0 /\ conn[p].wal # 0
  BY <1>1, TypeFacts DEF HandoffCheckpoint, At, Connected, Fit
<1>3. conn[p].wal \in Wals /\ wal[conn[p].wal] = [frames |-> wal[conn[p].wal].frames, lock |-> wal[conn[p].wal].lock]
  BY <1>2, TypeFacts, WalsAreRecords
<1>4. wal' = [wal EXCEPT ![conn[p].wal] = [frames |-> {}, lock |-> wal[conn[p].wal].lock]]
  <2> DEFINE v == conn[p].wal
  <2>1. wal' = [wal EXCEPT ![v].frames = {}]
    BY DEF HandoffCheckpoint
  <2>2. wal[v] = [frames |-> wal[v].frames, lock |-> wal[v].lock]
    BY <1>3
  <2> HIDE DEF v
  <2>3. [wal[v] EXCEPT !.frames = {}] = [frames |-> {}, lock |-> wal[v].lock]
    BY <2>2
  <2>4. wal' = [wal EXCEPT ![v] = [frames |-> {}, lock |-> wal[v].lock]]
    BY <2>1, <2>3
  <2> QED
    BY <2>4 DEF v
<1>5. FilesTypeOK' /\ FilesMove /\ Len(file') = Len(file)
  <2> DEFINE l == wal[conn[p].wal].lock
  <2>1. l \in {wal[conn[p].wal].lock, p}
    OBVIOUS
  <2>2. wal' = [wal EXCEPT ![conn[p].wal] = [frames |-> {}, lock |-> l]]
    BY <1>4
  <2> HIDE DEF l
  <2> QED
    BY <1>2, <2>1, <2>2, CheckpointMoves, TypeFacts DEF HandoffCheckpoint
<1>6. OthersWait(p) /\ Fit(p)' /\ Len(file') >= Len(file)
  BY <1>1, <1>2, <1>5, TypeFacts DEF OthersWait, Fit, HandoffCheckpoint
<1>7. Safe(p)
  BY <1>1, <1>5, <1>6, FileStepTypes DEF Safe, HandoffCheckpoint
<1> QED
  BY <1>1, <1>7 DEF HandoffCheckpoint, Ordinary, Unread, HasCandidate, Fingerprinted, Reading

LEMMA HandoffCloseSafe ==
  ASSUME TypeInvariant, NEW p \in Process, HandoffClose(p)
  PROVE  Safe(p) /\ Ordinary(p) /\ Unread(p)
<1>1. OpTypeOK' /\ op'[p] = [at |-> "handoff_unlink"] /\ \A q \in Process \ {p} : op'[q] = op[q]
  BY PlainStep, TypeFacts DEF HandoffClose, At, Plain
<1>2. op[p].at \in Connected /\ op'[p].at \notin Connected
  BY <1>1 DEF HandoffClose, At, Connected
<1>3. Safe(p)
  BY <1>1, <1>2, Detaching DEF HandoffClose, Safe
<1> QED
  BY <1>1, <1>3 DEF HandoffClose, Detach, Ordinary, Unread, HasCandidate, Fingerprinted, Reading

LEMMA HandoffFailSafe ==
  ASSUME TypeInvariant, NEW p \in Process, HandoffFail(p)
  PROVE  Safe(p) /\ Ordinary(p) /\ Unread(p)
<1>1. Idle \in Ops
  BY DEF Ops, Plain, Idle
<1>2. OpTypeOK' /\ op'[p] = Idle /\ \A q \in Process \ {p} : op'[q] = op[q]
  BY <1>1, OpGoes, TypeFacts DEF HandoffFail
<1>3. op[p].at \in Connected /\ op'[p].at \notin Connected
  BY <1>2 DEF HandoffFail, Connected, Idle, At
<1>4. Safe(p)
  BY <1>2, <1>3, Detaching DEF HandoffFail, Safe
<1> QED
  BY <1>2, <1>4 DEF HandoffFail, Detach, Ordinary, Unread, HasCandidate, Fingerprinted, Reading, Idle

\* Paths change, the files and WALs do not.
LEMMA Naming ==
  ASSUME TypeInvariant, NEW p \in Process, OpTypeOK', \A q \in Process \ {p} : op'[q] = op[q],
         op[p].at \in Connected <=> op'[p].at \in Connected,
         name' \in 0..Len(file), walAt' \in {walAt, 0}, tmp' \in {tmp, 0},
         UNCHANGED <<file, wal, conn, evidence, backup, deaths, refused>>
  PROVE  Safe(p)
<1>1. FilesTypeOK' /\ FilesMove
  <2>1. FilesTypeOK'
    BY TypeFacts DEF FilesTypeOK, Wals
  <2> QED
    BY <2>1, GrowsNot, TypeFacts DEF FilesMove, FramesAreOfConnections
<1>2. OthersWait(p) /\ Fit(p)'
  BY TypeFacts DEF OthersWait, Fit
<1>3. /\ evidence' \in Rows /\ backup' \in Rows /\ tmp' \in 0..Len(file')
      /\ deaths' \in 0..MaxDeaths /\ refused' \in BOOLEAN
  BY TypeFacts DEF TypeInvariant, IndexTypeOK
<1> QED
  BY <1>1, <1>2, <1>3, StepTypes DEF Safe

LEMMA HandoffUnlinkSafe ==
  ASSUME TypeInvariant, NEW p \in Process, HandoffUnlink(p)
  PROVE  Safe(p) /\ Ordinary(p) /\ Unread(p)
<1>1. Idle \in Ops
  BY DEF Ops, Plain, Idle
<1>2. OpTypeOK' /\ op'[p] = Idle /\ \A q \in Process \ {p} : op'[q] = op[q]
  BY <1>1, OpGoes, TypeFacts DEF HandoffUnlink
<1>3. op[p].at \notin Connected /\ op'[p].at \notin Connected
  BY <1>2 DEF HandoffUnlink, Connected, Idle, At
<1>4. name' \in 0..Len(file)
  BY TypeFacts, WalsAreRecords DEF HandoffUnlink
<1>5. Safe(p)
  BY <1>2, <1>3, <1>4, Naming DEF HandoffUnlink
<1> QED
  BY <1>2, <1>5 DEF HandoffUnlink, Ordinary, Unread, HasCandidate, Fingerprinted, Reading, Idle

-----------------------------------------------------------------------------
(* The steps of backup, rollback and replacement.                          *)

LEMMA FramesKeepRows ==
  ASSUME TypeInvariant, name # 0
  PROVE  Truth \in Rows
<1>1. name \in 1..Len(file) /\ file[name].rows \in Rows
  BY TypeFacts, WalsAreRecords, FilesAreRecords
<1>2. walAt # 0 => wal[walAt].frames \in SUBSET Frame
  BY TypeFacts, WalsAreRecords
<1>3. walAt # 0 => WithFrames(file[name].rows, wal[walAt].frames) \in Rows
  BY <1>1, <1>2, MergedType
<1> QED
  BY <1>1, <1>3 DEF Truth

LEMMA BackupSafe ==
  ASSUME TypeInvariant, NEW p \in Process, Backup(p)
  PROVE  Safe(p) /\ Ordinary(p) /\ Unread(p)
<1>1. name # 0 /\ Settled /\ backup' = Truth /\ op' = op
      /\ UNCHANGED <<name, conn, evidence, tmp, deaths, refused>>
  BY DEF Backup, Quiet
<1>2. backup' \in Rows
  BY <1>1, FramesKeepRows
<1>3. op[p].at \notin Connected /\ op'[p].at \notin Connected /\ OpTypeOK'
      /\ refused' \in BOOLEAN
  BY <1>1, TypeFacts DEF Backup, Ready, At, Connected, OpTypeOK, TypeInvariant, IndexTypeOK
<1>4. Safe(p)
  BY <1>1, <1>2, <1>3, Settling DEF Safe
<1> QED
  BY <1>1, <1>4 DEF Backup, Ready, At, Ordinary, Unread, HasCandidate, Fingerprinted, Reading

LEMMA RollbackStartSafe ==
  ASSUME TypeInvariant, NEW p \in Process, RollbackStart(p)
  PROVE  Safe(p) /\ Ordinary(p) /\ Unread(p)
<1> DEFINE o == [at |-> "build", rows |-> backup]
<1>1. o \in Ops
  BY TypeFacts DEF Ops
<1>2. OpTypeOK' /\ op'[p] = o /\ \A q \in Process \ {p} : op'[q] = op[q]
  BY <1>1, OpGoes, TypeFacts DEF RollbackStart
<1>3. op[p].at \notin Connected /\ op'[p].at \notin Connected
  BY <1>2 DEF RollbackStart, ReadyToReplace, Ready, At, Connected
<1>4. Safe(p)
  BY <1>2, <1>3, QuietStepTypes DEF RollbackStart, Safe
<1> QED
  BY <1>2, <1>4 DEF RollbackStart, fileVars, Ordinary, Unread, HasCandidate, Fingerprinted, Reading

\* The rows of the candidate, and the file it is written to.
BuiltRows(o) == [runs |-> Truth.runs, snaps |-> o.rows.snaps]
Built(p) ==
  /\ file' = IF tmp = 0 THEN Append(SettledFile, NewFile(BuiltRows(op[p])))
             ELSE [SettledFile EXCEPT ![tmp] =
                     [rows |-> BuiltRows(op[p]), sane |-> @.sane, stamp |-> @.stamp + 1]]
  /\ tmp' = IF tmp = 0 THEN Len(file') ELSE tmp
NotBuilt(p) == file' = SettledFile /\ tmp' = 0

LEMMA BuildDoes ==
  ASSUME TypeInvariant, NEW p \in Process, RollbackBuild(p)
  PROVE  /\ name \in 1..Len(file) /\ wal' = SettledWal /\ walAt' = SettledAt
         /\ BuiltRows(op[p]) \in Rows
         /\ SettledFile[name] = Merged(name, PathFrames) /\ PathFrames \in SUBSET Frame
         /\ \A j \in 1..Len(file) \ {tmp, name} : file'[j] = file[j]
         /\ tmp # name => file'[name] = SettledFile[name]
         /\ file' \in Seq(FileRecord)
         /\ \/ /\ NotBuilt(p) /\ op'[p] = Idle /\ Len(file') = Len(file)
               /\ file'[name] = SettledFile[name] /\ (tmp # 0 => file'[tmp] = SettledFile[tmp])
            \/ /\ Whole(BuiltRows(op[p]))
               /\ op'[p] = [at |-> "connect", how |-> "rollback", cand |-> tmp',
                            digest |-> FileDigest(SettledFile)]
               /\ file'[tmp'].rows = BuiltRows(op[p])
               /\ \/ tmp = 0 /\ tmp' = Len(file) + 1 /\ Len(file') = Len(file) + 1
                  \/ tmp # 0 /\ tmp' = tmp /\ Len(file') = Len(file)
         /\ OpTypeOK' /\ \A q \in Process \ {p} : op'[q] = op[q]
<1> DEFINE rows == BuiltRows(op[p])
<1>1. /\ name \in 1..Len(file) /\ wal' = SettledWal /\ walAt' = SettledAt
      /\ SettledFile \in Seq(FileRecord) /\ Len(SettledFile) = Len(file)
      /\ SettledFile[name] = Merged(name, PathFrames) /\ PathFrames \in SUBSET Frame
      /\ \A i \in 1..Len(file) \ {name} : SettledFile[i] = file[i]
  BY SettledDoes, TypeFacts DEF RollbackBuild, Quiet
<1>2. rows \in Rows
  <2>1. Truth \in Rows /\ op[p].rows \in Rows
    BY FramesKeepRows, KnownAt, TypeFacts DEF RollbackBuild, Quiet
  <2> QED
    BY <2>1 DEF BuiltRows, Rows
<1>3. tmp \in 0..Len(file) /\ Len(file) \in Nat
  BY TypeFacts
<1>4. CASE /\ Whole(rows) /\ Built(p)
           /\ Go(p, [at |-> "connect", how |-> "rollback", cand |-> tmp', digest |-> FileDigest(SettledFile)])
  <2> DEFINE o == [at |-> "connect", how |-> "rollback", cand |-> tmp', digest |-> FileDigest(SettledFile)]
  <2>1. /\ file' \in Seq(FileRecord) /\ file'[tmp'].rows = rows
        /\ \A j \in 1..Len(file) \ {tmp} : file'[j] = SettledFile[j]
        /\ \/ tmp = 0 /\ tmp' = Len(file) + 1 /\ Len(file') = Len(file) + 1
           \/ tmp # 0 /\ tmp' = tmp /\ Len(file') = Len(file)
    <3>1. CASE tmp = 0
      <4> DEFINE r == NewFile(rows)
      <4>1. r \in FileRecord /\ r.rows = rows
        BY <1>2 DEF NewFile, FileRecord
      <4>2. file' = Append(SettledFile, r) /\ tmp' = Len(file')
        BY <1>4, <3>1 DEF Built
      <4> HIDE DEF r
      <4>3. /\ file' \in Seq(FileRecord) /\ Len(file') = Len(file) + 1 /\ file'[Len(file) + 1] = r
            /\ \A j \in 1..Len(file) : file'[j] = SettledFile[j]
        BY <1>1, <1>3, <4>1, <4>2
      <4> HIDE DEF rows
      <4> QED
        BY <1>3, <3>1, <4>1, <4>2, <4>3
    <3>2. CASE tmp # 0
      <4> DEFINE r == [rows |-> rows, sane |-> SettledFile[tmp].sane, stamp |-> SettledFile[tmp].stamp + 1]
      <4>1. SettledFile[tmp] \in FileRecord /\ tmp \in 1..Len(SettledFile)
        BY <1>1, <1>3, <3>2
      <4>2. r \in FileRecord /\ r.rows = rows
        BY <1>2, <4>1 DEF FileRecord
      <4>3. tmp' = tmp /\ file' = [SettledFile EXCEPT ![tmp] = r]
        BY <1>4, <3>2 DEF Built
      <4> HIDE DEF r, rows
      <4>4. /\ [SettledFile EXCEPT ![tmp] = r] \in Seq(FileRecord)
            /\ Len([SettledFile EXCEPT ![tmp] = r]) = Len(SettledFile)
            /\ \A j \in 1..Len(SettledFile) : [SettledFile EXCEPT ![tmp] = r][j] = IF j = tmp THEN r ELSE SettledFile[j]
        BY <1>1, <4>1, <4>2, ExceptSeq
      <4> QED
        BY <1>1, <3>2, <4>1, <4>2, <4>3, <4>4
    <3> QED
      BY <3>1, <3>2
  <2>2. o \in Ops
    <3>1. SettledFile[name].stamp \in Nat
      <4>1. SettledFile[name] \in FileRecord
        BY <1>1, <1>3
      <4> QED
        BY <4>1 DEF FileRecord
    <3>2. FileDigest(SettledFile) \in Digests
      BY <1>1, <1>3, <3>1 DEF FileDigest, Digests
    <3>3. tmp' \in Nat
      BY <1>3, <2>1
    <3> QED
      BY <3>2, <3>3 DEF Ops, Swaps, Swapping
  <2>3. OpTypeOK' /\ op'[p] = o /\ \A q \in Process \ {p} : op'[q] = op[q]
    BY <1>4, <2>2, OpGoes, TypeFacts
  <2>4. /\ \A j \in 1..Len(file) \ {tmp, name} : file'[j] = file[j]
        /\ tmp # name => file'[name] = SettledFile[name]
    BY <1>1, <2>1
  <2> QED
    BY <1>1, <1>2, <1>4, <2>1, <2>3, <2>4
<1>5. CASE NotBuilt(p) /\ Go(p, Idle)
  <2>1. Idle \in Ops
    BY DEF Ops, Plain, Idle
  <2>2. OpTypeOK' /\ op'[p] = Idle /\ \A q \in Process \ {p} : op'[q] = op[q]
    BY <1>5, <2>1, OpGoes, TypeFacts
  <2>3. file' = SettledFile
    BY <1>5 DEF NotBuilt
  <2> QED
    BY <1>1, <1>2, <1>5, <2>2, <2>3
<1> QED
  BY <1>4, <1>5 DEF RollbackBuild, Built, NotBuilt, BuiltRows, Whole

LEMMA RollbackBuildSafe ==
  ASSUME TypeInvariant, tmp # name, NEW p \in Process, RollbackBuild(p)
  PROVE  /\ Safe(p) /\ Unread(p) /\ name' = name /\ ~ HasCandidate(op'[p])
         /\ tmp' \in {0, tmp, Len(file) + 1}
<1>1. /\ name \in 1..Len(file) /\ wal' = SettledWal /\ walAt' = SettledAt
      /\ SettledFile[name] = Merged(name, PathFrames) /\ PathFrames \in SUBSET Frame
      /\ \A j \in 1..Len(file) \ {tmp, name} : file'[j] = file[j]
      /\ file'[name] = SettledFile[name]
      /\ file' \in Seq(FileRecord)
      /\ OpTypeOK' /\ \A q \in Process \ {p} : op'[q] = op[q]
  BY BuildDoes
<1>2. /\ Len(file') = Len(file) \/ Len(file') = Len(file) + 1
      /\ tmp' = 0 \/ tmp' = tmp \/ (tmp' = Len(file) + 1 /\ Len(file') = Len(file) + 1)
      /\ op'[p].at \in {"idle", "connect"} /\ ~ HasCandidate(op'[p])
  <2>1. CASE NotBuilt(p) /\ op'[p] = Idle /\ Len(file') = Len(file)
    BY <2>1 DEF NotBuilt, Idle, HasCandidate
  <2>2. CASE /\ op'[p] = [at |-> "connect", how |-> "rollback", cand |-> tmp',
                         digest |-> FileDigest(SettledFile)]
             /\ \/ tmp = 0 /\ tmp' = Len(file) + 1 /\ Len(file') = Len(file) + 1
                \/ tmp # 0 /\ tmp' = tmp /\ Len(file') = Len(file)
    <3>1. op'[p].at = "connect" /\ op'[p].how = "rollback"
      BY <2>2
    <3>2. ~ HasCandidate(op'[p])
      BY <3>1 DEF HasCandidate
    <3> QED
      BY <2>2, <3>1, <3>2
  <2> QED
    BY <2>1, <2>2, BuildDoes
<1>3. /\ wal' \in [Wals -> [frames: SUBSET Frame, lock: Process \cup {NoProc}]]
      /\ \A w \in Wals : wal'[w].frames \subseteq wal[w].frames
      /\ \A w \in Wals : \/ wal'[w].lock = wal[w].lock
                         \/ /\ walAt = 0 /\ wal'[w] = EmptyWal
                            /\ \A q \in Process : conn[q].wal # w
      /\ walAt' \in {0} \cup Wals
  BY <1>1, SettledDoes, TypeFacts
<1>4. /\ FilesTypeOK /\ Len(file) \in Nat /\ tmp \in 0..Len(file) /\ MaxFile \in Nat
      /\ Len(file) < MaxFile /\ conn' = conn /\ name' = name
      /\ UNCHANGED <<evidence, backup, deaths, refused>>
  BY TypeFacts DEF RollbackBuild, FilesAssumption
<1>5. FilesTypeOK'
  <2>1. name' \in 0..Len(file') /\ Len(file') <= MaxFile
    BY <1>1, <1>2, <1>4
  <2>2. conn' \in [Process -> [file: 0..Len(file'), wal: {0} \cup Wals]]
    <3>1. \A q \in Process : conn[q] \in [file: 0..Len(file), wal: {0} \cup Wals]
      BY <1>4 DEF FilesTypeOK
    <3>2. \A q \in Process : conn[q] \in [file: 0..Len(file'), wal: {0} \cup Wals]
      BY <1>2, <1>4, <3>1
    <3> QED
      BY <1>4, <3>2 DEF FilesTypeOK
  <2>3. \A w \in Wals : wal'[w].lock # NoProc => conn'[wal'[w].lock].wal = w
    BY <1>3, <1>4 DEF FilesTypeOK, EmptyWal
  <2> QED
    BY <1>1, <1>3, <2>1, <2>2, <2>3, FilesTypeIntro, Zenon
<1>6. FilesMove
  <2>1. /\ Merged(name, PathFrames).stamp >= file[name].stamp
        /\ Merged(name, PathFrames).stamp = file[name].stamp =>
             Merged(name, PathFrames).rows = file[name].rows
    BY <1>1, <1>4, MergedDoes
  <2>2. \A i \in 1..Len(file) : file[i].stamp \in Nat
    BY <1>4, FilesAreRecords
  <2> HIDE DEF Merged
  <2>3. \A i \in 1..Len(file) : i # tmp =>
          /\ file'[i].stamp >= file[i].stamp
          /\ file'[i].stamp = file[i].stamp => file'[i].rows = file[i].rows
    BY <1>1, <2>1, <2>2
  <2>4. FilesGrow
    BY <1>2, <1>4, <2>3 DEF FilesGrow
  <2> QED
    BY <1>3, <1>4, <2>4 DEF FilesMove, FramesAreOfConnections
<1>7. OthersWait(p) /\ Fit(p)'
  BY <1>1, <1>2, <1>4, TypeFacts DEF OthersWait, Fit, RollbackBuild, At, Connected
<1>8. /\ evidence' \in Rows /\ backup' \in Rows /\ tmp' \in 0..Len(file')
      /\ deaths' \in 0..MaxDeaths /\ refused' \in BOOLEAN
  BY <1>2, <1>4 DEF TypeInvariant, IndexTypeOK
<1>9. Safe(p)
  BY <1>1, <1>5, <1>6, <1>7, <1>8, StepTypes DEF Safe
<1> QED
  BY <1>2, <1>4, <1>9 DEF Unread, Fingerprinted, Reading

LEMMA InstallReplaySafe ==
  ASSUME TypeInvariant, NEW p \in Process, InstallReplay(p)
  PROVE  /\ Safe(p) /\ Unread(p) /\ name' = name /\ tmp' = tmp
         /\ op'[p] = [at |-> "secure", cand |-> Len(file) + 1] /\ Len(file') = Len(file) + 1
<1> DEFINE r == NewFile(evidence)
           o == [at |-> "secure", cand |-> Len(file) + 1]
<1>1. r \in FileRecord /\ Len(file) \in Nat
  BY TypeFacts DEF NewFile, FileRecord
<1>2. file' = Append(file, r) /\ Len(file') = Len(file) + 1
  BY <1>1, FileAdded, TypeFacts DEF InstallReplay
<1>3. o \in Ops /\ Go(p, o)
  BY <1>1, <1>2 DEF Ops, InstallReplay
<1> HIDE DEF r
<1>4. OpTypeOK' /\ op'[p] = o /\ \A q \in Process \ {p} : op'[q] = op[q]
  BY <1>3, OpGoes, TypeFacts
<1>5. op[p].at \notin Connected /\ op'[p].at \notin Connected
  BY <1>4 DEF InstallReplay, ReadyToReplace, Ready, At, Connected
<1>6. Safe(p)
  BY <1>1, <1>2, <1>4, <1>5, Adding DEF InstallReplay, Safe
<1> QED
  BY <1>2, <1>4, <1>6 DEF InstallReplay, Unread, Fingerprinted, Reading

LEMMA InstallBackupSafe ==
  ASSUME TypeInvariant, NEW p \in Process, InstallBackup(p)
  PROVE  Safe(p) /\ Ordinary(p) /\ Unread(p)
<1> DEFINE o == [at |-> "connect", how |-> "install", cand |-> op[p].cand,
                 digest |-> FileDigest(SettledFile)]
<1>1. /\ name # 0 /\ Settled /\ Go(p, o) /\ At(p, "secure")
      /\ UNCHANGED <<name, conn, evidence, tmp, backup, deaths, refused>>
  BY DEF InstallBackup, Quiet
<1>2. o \in Ops
  <2>1. name \in 1..Len(file) /\ SettledFile \in Seq(FileRecord) /\ Len(SettledFile) = Len(file)
    BY <1>1, SettledDoes, TypeFacts DEF Settled
  <2>2. SettledFile[name].stamp \in Nat /\ name \in Nat
    <3>1. SettledFile[name] \in FileRecord /\ name \in Nat
      BY <2>1, TypeFacts
    <3> QED
      BY <3>1 DEF FileRecord
  <2>3. FileDigest(SettledFile) \in Digests
    BY <2>2 DEF FileDigest, Digests
  <2>4. op[p].cand \in Nat
    BY <1>1, KnownAt, TypeFacts DEF At
  <2> QED
    BY <2>3, <2>4 DEF Ops, Swaps, Swapping
<1>3. OpTypeOK' /\ op'[p] = o /\ \A q \in Process \ {p} : op'[q] = op[q]
  BY <1>1, <1>2, OpGoes, TypeFacts
<1>4. op[p].at \notin Connected /\ op'[p].at \notin Connected
  BY <1>1, <1>3 DEF At, Connected
<1>5. backup' \in Rows /\ refused' \in BOOLEAN
  BY <1>1 DEF TypeInvariant, IndexTypeOK
<1>6. Safe(p)
  BY <1>1, <1>3, <1>4, <1>5, Settling DEF Safe
<1> QED
  BY <1>1, <1>3, <1>6 DEF At, Ordinary, Unread, HasCandidate, Fingerprinted, Reading

LEMMA ReplaceConnectSafe ==
  ASSUME TypeInvariant, NEW p \in Process, ReplaceConnect(p)
  PROVE  Safe(p) /\ Ordinary(p) /\ Unread(p)
<1>1. /\ OpTypeOK' /\ op'[p].at = "lock" /\ op'[p].how = op[p].how /\ op'[p].cand = op[p].cand
      /\ \A q \in Process \ {p} : op'[q] = op[q]
  BY SwapStep, TypeFacts DEF ReplaceConnect, At, Swapping
<1>2. op[p].at \notin Connected /\ op'[p].at \in Connected
  BY <1>1 DEF ReplaceConnect, At, Connected
<1>3. Safe(p)
  BY <1>1, <1>2, Attaching DEF ReplaceConnect, Safe
<1> QED
  BY <1>1, <1>3 DEF ReplaceConnect, Attach, At, Ordinary, Unread, HasCandidate, Fingerprinted, Reading

LEMMA ReplaceLockSafe ==
  ASSUME TypeInvariant, NEW p \in Process, ReplaceLock(p)
  PROVE  Safe(p) /\ Ordinary(p) /\ Unread(p)
<1>1. /\ OpTypeOK' /\ op'[p].at = "replace" /\ op'[p].how = op[p].how /\ op'[p].cand = op[p].cand
      /\ \A q \in Process \ {p} : op'[q] = op[q]
  BY SwapStep, TypeFacts DEF ReplaceLock, At, Swapping
<1>2. op[p].at \in Connected /\ op'[p].at \in Connected
  BY <1>1 DEF ReplaceLock, At, Connected
<1>3. conn[p].file # 0 /\ conn[p].wal # 0
  BY <1>2, ConnectedFacts
<1>4. FilesTypeOK' /\ FilesMove /\ Len(file') = Len(file)
  BY <1>3, CheckpointMoves, TypeFacts DEF ReplaceLock
<1>5. OthersWait(p) /\ Fit(p)' /\ Len(file') >= Len(file)
  BY <1>1, <1>2, <1>3, <1>4, TypeFacts DEF OthersWait, Fit, ReplaceLock
<1>6. Safe(p)
  BY <1>1, <1>4, <1>5, FileStepTypes DEF Safe, ReplaceLock
<1> QED
  BY <1>1, <1>6 DEF ReplaceLock, At, Ordinary, Unread, HasCandidate, Fingerprinted, Reading

LEMMA ReplaceSafe ==
  ASSUME TypeInvariant, Fresh, NEW p \in Process, Replace(p)
  PROVE  /\ Safe(p) /\ Unread(p) /\ ~ HasCandidate(op'[p]) /\ walAt' = walAt
         /\ \/ name' = tmp /\ tmp # 0 /\ tmp' = 0
            \/ name' = op[p].cand /\ HasCandidate(op[p]) /\ tmp' = tmp
<1>1. /\ OpTypeOK' /\ op'[p].at = "unlock" /\ \A q \in Process \ {p} : op'[q] = op[q]
  BY SwapStep, TypeFacts DEF Replace, At, Swapping
<1>2. op[p].at \in Connected /\ op'[p].at \in Connected
  BY <1>1 DEF Replace, At, Connected
<1>3. /\ \/ name' = tmp /\ tmp # 0 /\ tmp' = 0
         \/ name' = op[p].cand /\ HasCandidate(op[p]) /\ tmp' = tmp
  <2>1. op[p].how \in {"rollback", "install"}
    <3>1. op[p] \in Swaps
      BY KnownAt, TypeFacts DEF Replace, At, Swapping
    <3> QED
      BY <3>1 DEF Swaps
  <2> QED
    BY <2>1 DEF Replace, HasCandidate, At
<1>4. name' \in 0..Len(file)
  BY <1>3, TypeFacts DEF Fresh
<1>5. Safe(p)
  BY <1>1, <1>2, <1>3, <1>4, Naming DEF Replace
<1> QED
  BY <1>1, <1>3, <1>5 DEF Replace, Unread, HasCandidate, Fingerprinted, Reading

LEMMA ReplaceUnlockSafe ==
  ASSUME TypeInvariant, NEW p \in Process, ReplaceUnlock(p)
  PROVE  Safe(p) /\ Ordinary(p) /\ Unread(p)
<1>1. /\ OpTypeOK' /\ op'[p].at = "clean" /\ \A q \in Process \ {p} : op'[q] = op[q]
  BY SwapStep, TypeFacts DEF ReplaceUnlock, At, Swapping
<1>2. op[p].at \in Connected /\ op'[p].at \notin Connected
  BY <1>1 DEF ReplaceUnlock, At, Connected
<1>3. Safe(p)
  BY <1>1, <1>2, Detaching DEF ReplaceUnlock, Safe
<1> QED
  BY <1>1, <1>3 DEF ReplaceUnlock, Detach, Ordinary, Unread, HasCandidate, Fingerprinted, Reading

LEMMA ReplaceCleanSafe ==
  ASSUME TypeInvariant, NEW p \in Process, ReplaceClean(p)
  PROVE  Safe(p) /\ Ordinary(p) /\ Unread(p)
<1>1. /\ OpTypeOK' /\ op'[p].at \in {"validate", "idle"}
      /\ \A q \in Process \ {p} : op'[q] = op[q]
  <2>1. CASE op[p].how = "rollback"
    BY <2>1, SwapStep, TypeFacts DEF ReplaceClean, At, Swapping
  <2>2. CASE op[p].how # "rollback"
    <3>1. Idle \in Ops
      BY DEF Ops, Plain, Idle
    <3>2. OpTypeOK' /\ op'[p] = Idle /\ \A q \in Process \ {p} : op'[q] = op[q]
      BY <2>2, <3>1, OpGoes, TypeFacts DEF ReplaceClean
    <3> QED
      BY <3>2 DEF Idle
  <2> QED
    BY <2>1, <2>2
<1>2. op[p].at \notin Connected /\ op'[p].at \notin Connected
  BY <1>1 DEF ReplaceClean, At, Connected
<1>3. name' \in 0..Len(file)
  BY TypeFacts, WalsAreRecords DEF ReplaceClean
<1>4. Safe(p)
  BY <1>1, <1>2, <1>3, Naming DEF ReplaceClean
<1> QED
  BY <1>1, <1>4 DEF ReplaceClean, Ordinary, Unread, HasCandidate, Fingerprinted, Reading

LEMMA RollbackValidateSafe ==
  ASSUME TypeInvariant, NEW p \in Process, RollbackValidate(p)
  PROVE  Safe(p) /\ Ordinary(p) /\ Unread(p)
<1>1. Idle \in Ops
  BY DEF Ops, Plain, Idle
<1>2. OpTypeOK' /\ op'[p] = Idle /\ \A q \in Process \ {p} : op'[q] = op[q]
  BY <1>1, OpGoes, TypeFacts DEF RollbackValidate
<1>3. op[p].at \notin Connected /\ op'[p].at \notin Connected
  BY <1>2 DEF RollbackValidate, Connected, Idle, At
<1>4. backup' \in Rows /\ refused' \in BOOLEAN
  BY DEF RollbackValidate, TypeInvariant, IndexTypeOK
<1>5. ASSUME Quiet PROVE Safe(p)
  <2>1. Settled /\ name # 0 /\ UNCHANGED <<name, conn, evidence, tmp, deaths>>
    <3>1. Settled
      BY <1>5 DEF RollbackValidate
    <3> QED
      BY <1>5, <3>1 DEF RollbackValidate, Quiet
  <2> QED
    BY <1>2, <1>3, <1>4, <2>1, Settling DEF Safe
<1>6. ASSUME ~ Quiet PROVE Safe(p)
  <2>1. UNCHANGED fileVars /\ UNCHANGED <<evidence, tmp, backup, deaths, refused>>
    <3>1. UNCHANGED <<file, wal, walAt>>
      BY <1>6 DEF RollbackValidate
    <3> QED
      BY <3>1 DEF RollbackValidate, fileVars
  <2> QED
    BY <1>2, <1>3, <2>1, QuietStepTypes DEF Safe
<1>7. Safe(p)
  BY <1>5, <1>6
<1> QED
  BY <1>2, <1>7 DEF RollbackValidate, Ordinary, Unread, HasCandidate, Fingerprinted, Reading, Idle

LEMMA ReplaceFailSafe ==
  ASSUME TypeInvariant, NEW p \in Process, ReplaceFail(p)
  PROVE  Safe(p) /\ Ordinary(p) /\ Unread(p)
<1>1. Idle \in Ops
  BY DEF Ops, Plain, Idle
<1>2. OpTypeOK' /\ op'[p] = Idle /\ \A q \in Process \ {p} : op'[q] = op[q]
  BY <1>1, OpGoes, TypeFacts DEF ReplaceFail
<1>3. op'[p].at \notin Connected /\ tmp' \in {0, tmp}
  BY <1>2 DEF ReplaceFail, Connected, Idle
<1>4. ASSUME conn[p] = Closed PROVE Safe(p)
  <2>1. op[p].at \notin Connected
    BY <1>4, TypeFacts DEF Fit, Closed
  <2>2. name' \in 0..Len(file) /\ UNCHANGED <<name, file, walAt, wal, conn>>
    <3>1. UNCHANGED fileVars
      BY <1>4 DEF ReplaceFail
    <3> QED
      BY <3>1, TypeFacts, WalsAreRecords DEF fileVars
  <2>3. UNCHANGED <<evidence, backup, deaths, refused>>
    BY DEF ReplaceFail
  <2> QED
    BY <1>2, <1>3, <2>1, <2>2, <2>3, Naming
<1>5. ASSUME conn[p] # Closed PROVE Safe(p)
  <2>1. op[p].at \in Connected
    BY <1>5, TypeFacts DEF Fit
  <2>2. Detach(p)
    BY <1>5 DEF ReplaceFail
  <2>3. UNCHANGED <<evidence, backup, deaths, refused>>
    BY DEF ReplaceFail
  <2> QED
    BY <1>2, <1>3, <2>1, <2>2, <2>3, Detaching DEF Safe
<1>6. Safe(p)
  BY <1>4, <1>5
<1>7. name' = name
  BY DEF ReplaceFail, fileVars, Detach
<1> QED
  BY <1>2, <1>3, <1>6, <1>7 DEF Ordinary, Unread, HasCandidate, Fingerprinted, Reading, Idle

-----------------------------------------------------------------------------
(* rebuild-index, init, a discarded index, and death.                      *)

LEMMA RebuildVerifySafe ==
  ASSUME TypeInvariant, NEW p \in Process, RebuildVerify(p)
  PROVE  Safe(p) /\ Ordinary(p) /\ Unread(p)
<1>1. /\ OpTypeOK' /\ \A q \in Process \ {p} : op'[q] = op[q]
      /\ op'[p] = op[p] \/ op'[p].at = "rebuild"
  <2>1. CASE LedgerAccepted
    <3> DEFINE o == [at |-> "rebuild", runs |-> evidence.runs]
    <3>1. o \in Ops
      BY TypeFacts DEF Ops, Rows
    <3> QED
      BY <2>1, <3>1, OpGoes, TypeFacts DEF RebuildVerify
  <2>2. CASE ~ LedgerAccepted
    BY <2>2, TypeFacts DEF RebuildVerify, OpTypeOK
  <2> QED
    BY <2>1, <2>2
<1>2. op[p].at = "idle" /\ op[p].at \notin Connected /\ op'[p].at \notin Connected
  BY <1>1 DEF RebuildVerify, Ready, Connected, At
<1>3. backup' \in Rows /\ refused' \in BOOLEAN
  BY DEF RebuildVerify, TypeInvariant, IndexTypeOK
<1>4. ASSUME name # 0 /\ Alone PROVE Safe(p)
  <2>1. Settled
    BY <1>4 DEF RebuildVerify
  <2>2. UNCHANGED <<name, conn, evidence, tmp, deaths>>
    BY DEF RebuildVerify
  <2> QED
    BY <1>1, <1>2, <1>3, <1>4, <2>1, <2>2, Settling DEF Safe
<1>5. ASSUME ~ (name # 0 /\ Alone) PROVE Safe(p)
  <2>1. UNCHANGED fileVars /\ UNCHANGED <<evidence, tmp, backup, deaths>>
    <3>1. UNCHANGED <<file, wal, walAt>>
      BY <1>5 DEF RebuildVerify
    <3> QED
      BY <3>1 DEF RebuildVerify, fileVars
  <2>2. FilesTypeOK' /\ FilesMove /\ Len(file') = Len(file)
    BY <2>1, SameMoves, TypeFacts
  <2>3. OthersWait(p) /\ Fit(p)' /\ tmp' \in 0..Len(file') /\ evidence' \in Rows
        /\ deaths' \in 0..MaxDeaths
    <3>1. conn' = conn /\ evidence' = evidence /\ tmp' = tmp /\ deaths' = deaths
      BY <2>1 DEF fileVars
    <3>2. OthersWait(p) /\ Fit(p)'
      BY <1>1, <1>2, <3>1, TypeFacts DEF OthersWait, Fit
    <3> QED
      BY <2>2, <3>1, <3>2, TypeFacts DEF TypeInvariant, IndexTypeOK
  <2> QED
    BY <1>1, <1>3, <2>2, <2>3, StepTypes DEF Safe
<1>6. Safe(p)
  BY <1>4, <1>5
<1> QED
  BY <1>1, <1>2, <1>6 DEF RebuildVerify, Ordinary, Unread, HasCandidate, Fingerprinted, Reading

LEMMA RebuildBuildSafe ==
  ASSUME TypeInvariant, NEW p \in Process, RebuildBuild(p)
  PROVE  /\ Safe(p) /\ Unread(p) /\ name' = name /\ tmp' = tmp
         /\ op'[p] = [at |-> "rename", cand |-> Len(file) + 1] /\ Len(file') = Len(file) + 1
<1> DEFINE r == NewFile([runs |-> op[p].runs, snaps |-> evidence.snaps \cap op[p].runs])
           o == [at |-> "rename", cand |-> Len(file) + 1]
<1>1. r \in FileRecord /\ Len(file) \in Nat
  <2>1. op[p].runs \in SUBSET Run
    BY KnownAt, TypeFacts DEF RebuildBuild
  <2> QED
    BY <2>1, TypeFacts DEF NewFile, FileRecord, Rows
<1>2. file' = Append(file, r) /\ Len(file') = Len(file) + 1
  BY <1>1, FileAdded, TypeFacts DEF RebuildBuild
<1>3. o \in Ops /\ Go(p, o)
  BY <1>1, <1>2 DEF Ops, RebuildBuild
<1> HIDE DEF r
<1>4. OpTypeOK' /\ op'[p] = o /\ \A q \in Process \ {p} : op'[q] = op[q]
  BY <1>3, OpGoes, TypeFacts
<1>5. op[p].at \notin Connected /\ op'[p].at \notin Connected
  BY <1>4 DEF RebuildBuild, At, Connected
<1>6. Safe(p)
  BY <1>1, <1>2, <1>4, <1>5, Adding DEF RebuildBuild, Safe
<1> QED
  BY <1>2, <1>4, <1>6 DEF RebuildBuild, Unread, Fingerprinted, Reading

LEMMA RebuildRenameSafe ==
  ASSUME TypeInvariant, Fresh, NEW p \in Process, RebuildRename(p)
  PROVE  /\ Safe(p) /\ Unread(p) /\ ~ HasCandidate(op'[p]) /\ HasCandidate(op[p])
         /\ name' = op[p].cand /\ tmp' = tmp
<1>1. Idle \in Ops
  BY DEF Ops, Plain, Idle
<1>2. OpTypeOK' /\ op'[p] = Idle /\ \A q \in Process \ {p} : op'[q] = op[q]
  BY <1>1, OpGoes, TypeFacts DEF RebuildRename
<1>3. op[p].at \notin Connected /\ op'[p].at \notin Connected /\ HasCandidate(op[p])
  BY <1>2 DEF RebuildRename, Connected, Idle, At, HasCandidate
<1>4. name' = op[p].cand /\ op[p].cand \in 1..Len(file) /\ Len(file) \in Nat
  BY <1>3, TypeFacts DEF RebuildRename, Fresh
<1>5. Safe(p)
  BY <1>2, <1>3, <1>4, Naming DEF RebuildRename
<1> QED
  BY <1>2, <1>3, <1>4, <1>5 DEF RebuildRename, Unread, HasCandidate, Fingerprinted, Reading, Idle

LEMMA InitStorageSafe ==
  ASSUME TypeInvariant, NEW p \in Process, InitStorage(p)
  PROVE  /\ Safe(p) /\ Unread(p) /\ op' = op /\ tmp' = tmp /\ ~ HasCandidate(op'[p])
         /\ name' = Len(file) + 1 /\ Len(file') = Len(file) + 1
<1> DEFINE r == NewFile(NoRows)
<1>1. r \in FileRecord /\ Len(file) \in Nat
  BY TypeFacts DEF NewFile, FileRecord, Rows, NoRows
<1>2. file' = Append(file, r) /\ Len(file') = Len(file) + 1 /\ name' = Len(file) + 1
  BY <1>1, FileAdded, TypeFacts DEF InitStorage
<1>3. OpTypeOK' /\ op' = op /\ op[p].at = "idle"
  BY TypeFacts DEF InitStorage, OpTypeOK, Ready, At
<1> HIDE DEF r
<1>4. op[p].at \notin Connected /\ op'[p].at \notin Connected
  BY <1>3 DEF Connected
<1>5. Safe(p)
  BY <1>1, <1>2, <1>3, <1>4, Adding DEF InitStorage, Safe
<1> QED
  BY <1>2, <1>3, <1>5 DEF InitStorage, Unread, HasCandidate, Fingerprinted, Reading

LEMMA DiscardSafe ==
  ASSUME TypeInvariant, NEW p \in Process, Discard
  PROVE  Safe(p) /\ Ordinary(p) /\ Unread(p)
<1>1. OpTypeOK' /\ op' = op /\ op[p].at = "idle" /\ 0 \in 0..Len(file)
  BY TypeFacts DEF Discard, OpTypeOK, At
<1>2. Safe(p)
  BY <1>1, Naming DEF Discard
<1> QED
  BY <1>1, <1>2 DEF Discard, Ordinary, Unread, HasCandidate, Fingerprinted, Reading

LEMMA DieSafe ==
  ASSUME TypeInvariant, NEW p \in Process, Die(p)
  PROVE  Safe(p) /\ Ordinary(p) /\ Unread(p)
<1>1. Idle \in Ops
  BY DEF Ops, Plain, Idle
<1>2. OpTypeOK' /\ op'[p] = Idle /\ \A q \in Process \ {p} : op'[q] = op[q]
  BY <1>1, OpGoes, TypeFacts DEF Die
<1>3. /\ FilesTypeOK' /\ name' = name /\ file' = file /\ conn'[p] = Closed
      /\ \A q \in Process \ {p} : conn'[q] = conn[q]
      /\ \A w \in Wals : wal'[w].frames = wal[w].frames
  BY VanishDoes, TypeFacts DEF Die
<1>4. FilesMove
  BY <1>3, GrowsNot, TypeFacts DEF FilesMove, FramesAreOfConnections, Closed
<1>5. OthersWait(p) /\ Fit(p)'
  BY <1>2, <1>3 DEF OthersWait, Fit, Idle, Connected
<1>6. /\ evidence' \in Rows /\ backup' \in Rows /\ tmp' \in 0..Len(file')
      /\ refused' \in BOOLEAN
  BY <1>3 DEF Die, TypeInvariant, IndexTypeOK
<1>7. deaths' \in 0..MaxDeaths
  BY DEF Die, TypeInvariant, IndexTypeOK, Hypotheses, CommandsAssumption
<1>8. Safe(p)
  BY <1>2, <1>3, <1>4, <1>5, <1>6, <1>7, StepTypes DEF Safe
<1> QED
  BY <1>2, <1>3, <1>8 DEF Die, Ordinary, Unread, HasCandidate, Fingerprinted, Reading, Idle

-----------------------------------------------------------------------------
(* The guarded reader.                                                     *)

\* A step of a reader: nothing but what it knows changes.
LEMMA Looking ==
  ASSUME TypeInvariant, NEW p \in Process, UNCHANGED fileVars, OpTypeOK',
         \A q \in Process \ {p} : op'[q] = op[q],
         op[p].at \notin Connected, op'[p].at \notin Connected, ~ HasCandidate(op'[p]),
         UNCHANGED <<evidence, tmp, backup, deaths, refused>>
  PROVE  Safe(p) /\ Ordinary(p)
<1>1. Safe(p)
  BY QuietStepTypes DEF Safe
<1> QED
  BY <1>1 DEF Ordinary, fileVars

LEMMA ReadStartSafe ==
  ASSUME TypeInvariant, ReadersSee, NEW p \in Process, ReadStart(p)
  PROVE  Safe(p) /\ Ordinary(p) /\ Sighted(p) /\ ReaderSees(op[p])'
<1> DEFINE o == [at |-> "inventory"]
<1>1. o \in Ops
  BY DEF Ops, Plain
<1>2. OpTypeOK' /\ op'[p] = o /\ \A q \in Process \ {p} : op'[q] = op[q]
  BY <1>1, OpGoes, TypeFacts DEF ReadStart
<1>3. op[p].at \notin Connected /\ op'[p].at \notin Connected /\ ~ HasCandidate(op'[p])
  BY <1>2 DEF ReadStart, Ready, At, Connected, HasCandidate
<1> QED
  BY <1>2, <1>3, Looking DEF ReadStart, Sighted, ReaderSees, Fingerprinted, Reading

LEMMA ReadInventorySafe ==
  ASSUME TypeInvariant, ReadersSee, NEW p \in Process, ReadInventory(p)
  PROVE  Safe(p) /\ Ordinary(p) /\ Sighted(p) /\ ReaderSees(op[p])'
<1> DEFINE o == [at |-> "fingerprint", inv |-> Inventory]
<1>1. o \in Ops
  BY DEF Ops, Places, Inventory
<1>2. OpTypeOK' /\ op'[p] = o /\ \A q \in Process \ {p} : op'[q] = op[q]
  BY <1>1, OpGoes, TypeFacts DEF ReadInventory
<1>3. op[p].at \notin Connected /\ op'[p].at \notin Connected /\ ~ HasCandidate(op'[p])
  BY <1>2 DEF ReadInventory, At, Connected, HasCandidate
<1> QED
  BY <1>2, <1>3, Looking DEF ReadInventory, Sighted, ReaderSees, Fingerprinted, Reading

LEMMA ReadFingerprintSafe ==
  ASSUME TypeInvariant, ReadersSee, NEW p \in Process, ReadFingerprint(p)
  PROVE  Safe(p) /\ Ordinary(p) /\ Sighted(p) /\ ReaderSees(op[p])'
<1> DEFINE o == [at |-> "open", inv |-> op[p].inv, fp |-> Fingerprint]
<1>1. name \in 1..Len(file) /\ name \in Nat /\ file[name].stamp \in Nat
  <2>1. name \in 1..Len(file) /\ Len(file) \in Nat
    BY TypeFacts, WalsAreRecords DEF ReadFingerprint
  <2> QED
    BY <2>1, TypeFacts, FilesAreRecords
<1>2. Fingerprint = <<name, file[name].stamp>>
  BY DEF Fingerprint, FileDigest
<1>3. o \in Ops
  <2>1. Fingerprint \in Digests
    BY <1>1, <1>2 DEF Digests
  <2>2. op[p].inv \in Places
    BY KnownAt, TypeFacts DEF ReadFingerprint
  <2> QED
    BY <2>1, <2>2 DEF Ops, Opened
<1>4. OpTypeOK' /\ op'[p] = o /\ \A q \in Process \ {p} : op'[q] = op[q]
  BY <1>3, OpGoes, TypeFacts DEF ReadFingerprint
<1>5. op[p].at \notin Connected /\ op'[p].at \notin Connected /\ ~ HasCandidate(op'[p])
  BY <1>4 DEF ReadFingerprint, At, Connected, HasCandidate
<1>6. op'[p].at = "open" /\ op'[p].fp = <<name, file[name].stamp>>
  BY <1>2, <1>4
<1>7. name' = name /\ file' = file
  BY DEF ReadFingerprint, fileVars
<1>8. ReaderSees(op[p])'
  BY <1>1, <1>6, <1>7 DEF ReaderSees, Reading
<1> QED
  BY <1>4, <1>5, <1>6, <1>8, Looking DEF ReadFingerprint, Sighted

LEMMA ReadOpenSafe ==
  ASSUME TypeInvariant, ReadersSee, NEW p \in Process, ReadOpen(p)
  PROVE  Safe(p) /\ Ordinary(p) /\ Sighted(p) /\ ReaderSees(op[p])'
<1> DEFINE o == [at |-> "admit", inv |-> op[p].inv, fp |-> op[p].fp, file |-> name]
<1>1. o \in Ops
  <2>1. name \in Nat
    BY TypeFacts, WalsAreRecords
  <2>2. op[p] \in Opened
    BY KnownAt, TypeFacts DEF ReadOpen
  <2> QED
    BY <2>1, <2>2 DEF Ops, Opened, Admitted
<1>2. OpTypeOK' /\ op'[p] = o /\ \A q \in Process \ {p} : op'[q] = op[q]
  BY <1>1, OpGoes, TypeFacts DEF ReadOpen
<1>3. op[p].at \notin Connected /\ op'[p].at \notin Connected /\ ~ HasCandidate(op'[p])
  BY <1>2 DEF ReadOpen, At, Connected, HasCandidate
<1>4. /\ op[p].at \in Fingerprinted /\ op'[p].at = "admit" /\ op'[p].fp = op[p].fp
      /\ op'[p].file = name
  BY <1>2 DEF ReadOpen, At, Fingerprinted
<1>5. op[p].fp[1] \in 1..Len(file) /\ op[p].fp[2] <= file[op[p].fp[1]].stamp
  BY <1>4 DEF ReadersSee, ReaderSees
<1>6. name' = name /\ file' = file
  BY DEF ReadOpen, fileVars
<1>7. name \in 1..Len(file)
  BY TypeFacts, WalsAreRecords DEF ReadOpen
<1>8. ReaderSees(op[p])'
  BY <1>4, <1>5, <1>6, <1>7 DEF ReaderSees, Still, Reading
<1> QED
  BY <1>2, <1>3, <1>4, <1>8, Looking DEF ReadOpen, Sighted

LEMMA ReadAdmitSafe ==
  ASSUME TypeInvariant, ReadersSee, NEW p \in Process, ReadAdmit(p)
  PROVE  Safe(p) /\ Ordinary(p) /\ Sighted(p) /\ ReaderSees(op[p])'
<1>1. /\ OpTypeOK' /\ op'[p].at = "sidecars" /\ op'[p].fp = op[p].fp /\ op'[p].file = op[p].file
      /\ \A q \in Process \ {p} : op'[q] = op[q]
  BY AdmitStep, TypeFacts DEF ReadAdmit
<1>2. op[p].at \notin Connected /\ op'[p].at \notin Connected /\ ~ HasCandidate(op'[p])
  BY <1>1 DEF ReadAdmit, At, Connected, HasCandidate
<1>3. op[p].at = "admit" /\ op[p].at \in Fingerprinted /\ name' = name /\ file' = file
  BY DEF ReadAdmit, At, fileVars, Fingerprinted
<1>4. ReaderSees(op[p])
  BY DEF ReadersSee
<1>5. ReaderSees(op[p])'
  BY <1>1, <1>3, <1>4 DEF ReaderSees, Still, Fingerprinted, Reading
<1> QED
  BY <1>1, <1>2, <1>3, <1>5, Looking DEF ReadAdmit, Sighted

LEMMA ReadSidecarsSafe ==
  ASSUME TypeInvariant, ReadersSee, NEW p \in Process, ReadSidecars(p)
  PROVE  Safe(p) /\ Ordinary(p) /\ Sighted(p) /\ ReaderSees(op[p])'
<1> DEFINE o == [at |-> "reading", inv |-> op[p].inv, fp |-> op[p].fp,
                 file |-> op[p].file, got |-> {}, asOf |-> Truth]
<1>1. o \in Ops
  <2>1. Truth \in Rows
    BY FramesKeepRows DEF ReadSidecars
  <2>2. op[p] \in Admitted
    BY KnownAt, TypeFacts DEF ReadSidecars, At
  <2> QED
    BY <2>1, <2>2 DEF Ops, Admitted, Reads, Reading
<1>2. OpTypeOK' /\ op'[p] = o /\ \A q \in Process \ {p} : op'[q] = op[q]
  BY <1>1, OpGoes, TypeFacts DEF ReadSidecars
<1>3. op[p].at \notin Connected /\ op'[p].at \notin Connected /\ ~ HasCandidate(op'[p])
  BY <1>2 DEF ReadSidecars, At, Connected, HasCandidate
<1>4. /\ op[p].at = "sidecars" /\ op[p].at \in Fingerprinted /\ op'[p].at = "reading"
      /\ op'[p].fp = op[p].fp /\ op'[p].file = op[p].file /\ op'[p].got = {} /\ op'[p].asOf = Truth
  BY <1>2 DEF ReadSidecars, At, Fingerprinted
<1>5. Truth = file[name].rows
  BY DEF ReadSidecars, NoSidecars, Truth
<1>6. name' = name /\ file' = file
  BY DEF ReadSidecars, fileVars
<1>7. ReaderSees(op[p])
  BY DEF ReadersSee
<1>8. ReaderSees(op[p])'
  BY <1>4, <1>5, <1>6, <1>7 DEF ReaderSees, Still, Reading, Fingerprinted
<1> QED
  BY <1>2, <1>3, <1>4, <1>8, Looking DEF ReadSidecars, Sighted

LEMMA ReadRowsSafe ==
  ASSUME TypeInvariant, ReadersSee, NEW p \in Process, ReadRows(p)
  PROVE  Safe(p) /\ Ordinary(p) /\ Sighted(p) /\ ReaderSees(op[p])'
<1> DEFINE o == [op[p] EXCEPT !.got = @ \cup {file[op[p].file].rows}]
<1>1. op[p] \in Reads /\ op[p].at = "reading" /\ op[p].at \in Fingerprinted
  BY KnownAt, TypeFacts DEF ReadRows, At, Reading, Fingerprinted
<1>2. ReaderSees(op[p])
  BY DEF ReadersSee
<1>3. name' = name /\ file' = file
  BY DEF ReadRows, fileVars
<1>4. file[op[p].file].rows \in Rows
  <2>1. op[p].file \in 1..Len(file)
    BY <1>1, <1>2 DEF ReaderSees
  <2> QED
    BY <2>1, TypeFacts, FilesAreRecords
<1>5. /\ o \in Reads /\ o.at = "reading" /\ o.fp = op[p].fp /\ o.file = op[p].file
      /\ o.asOf = op[p].asOf /\ o.got = op[p].got \cup {file[op[p].file].rows}
  BY <1>1, <1>4 DEF Reads
<1>6. o \in Ops /\ Go(p, o)
  BY <1>5 DEF Ops, ReadRows, Go
<1> HIDE DEF o
<1>7. OpTypeOK' /\ op'[p] = o /\ \A q \in Process \ {p} : op'[q] = op[q]
  BY <1>6, OpGoes, TypeFacts
<1>8. op[p].at \notin Connected /\ op'[p].at \notin Connected /\ ~ HasCandidate(op'[p])
  BY <1>1, <1>5, <1>7 DEF Connected, HasCandidate
<1>9. ReaderSees(op[p])'
  BY <1>1, <1>2, <1>3, <1>5, <1>7 DEF ReaderSees, Still, Reading, Fingerprinted
<1> QED
  BY <1>1, <1>5, <1>7, <1>8, <1>9, Looking DEF ReadRows, Sighted

\* The steps that only move on: what they need to know is in the last conjunct.
LEMMA MovingOn ==
  ASSUME TypeInvariant, ReadersSee, NEW p \in Process, NEW s \in Reading, op[p].at \in Reading,
         Step(p, s), UNCHANGED <<fileVars, evidence, tmp, backup, deaths, refused>>,
         s = "release_fingerprint" => op[p].at = "reading" /\ op[p].got # {},
         s \in {"release_sidecars", "release_inventory", "released"} => op[p].got = {op[p].asOf},
         s # "reading"
  PROVE  Safe(p) /\ Ordinary(p) /\ Sighted(p) /\ ReaderSees(op[p])'
<1>1. /\ OpTypeOK' /\ op'[p].at = s /\ op'[p].fp = op[p].fp /\ op'[p].file = op[p].file
      /\ op'[p].got = op[p].got /\ op'[p].asOf = op[p].asOf
      /\ \A q \in Process \ {p} : op'[q] = op[q]
  BY ReadingStep, TypeFacts
<1>2. op[p].at \notin Connected /\ op'[p].at \notin Connected /\ ~ HasCandidate(op'[p])
  BY <1>1 DEF Reading, Connected, HasCandidate
<1>3. op[p].at \in Fingerprinted /\ op[p].at # "open" /\ name' = name /\ file' = file
  BY DEF Fingerprinted, Reading, fileVars
<1>4. ReaderSees(op[p])
  BY DEF ReadersSee
<1>5. ReaderSees(op[p])'
  BY <1>1, <1>3, <1>4 DEF ReaderSees, Still, Fingerprinted, Reading
<1> QED
  BY <1>1, <1>2, <1>3, <1>5, Looking DEF Sighted

LEMMA ReadDoneSafe ==
  ASSUME TypeInvariant, ReadersSee, NEW p \in Process, ReadDone(p)
  PROVE  Safe(p) /\ Ordinary(p) /\ Sighted(p) /\ ReaderSees(op[p])'
BY MovingOn DEF ReadDone, At, Reading

LEMMA ReleaseFingerprintSafe ==
  ASSUME TypeInvariant, ReadersSee, NEW p \in Process, ReleaseFingerprint(p)
  PROVE  Safe(p) /\ Ordinary(p) /\ Sighted(p) /\ ReaderSees(op[p])'
<1>1. op[p] \in Reads /\ op[p].at = "release_fingerprint" /\ op[p].at \in Reading
  BY KnownAt, TypeFacts DEF ReleaseFingerprint, At, Reading
<1>2. Still(op[p])
  <2>1. op[p].fp = <<name, file[name].stamp>>
    BY DEF ReleaseFingerprint, Unchanged, Fingerprint, FileDigest
  <2> QED
    BY <2>1 DEF Still
<1>3. op[p].got \subseteq {op[p].asOf} /\ op[p].got # {}
  BY <1>1, <1>2 DEF ReadersSee, ReaderSees
<1> QED
  BY <1>1, <1>3, MovingOn DEF ReleaseFingerprint, Reading

LEMMA ReleaseSidecarsSafe ==
  ASSUME TypeInvariant, ReadersSee, NEW p \in Process, ReleaseSidecars(p)
  PROVE  Safe(p) /\ Ordinary(p) /\ Sighted(p) /\ ReaderSees(op[p])'
<1>1. op[p].got = {op[p].asOf} /\ op[p].at \in Reading
  BY DEF ReadersSee, ReaderSees, ReleaseSidecars, At, Reading
<1> QED
  BY <1>1, MovingOn DEF ReleaseSidecars, Reading

LEMMA ReleaseInventorySafe ==
  ASSUME TypeInvariant, ReadersSee, NEW p \in Process, ReleaseInventory(p)
  PROVE  Safe(p) /\ Ordinary(p) /\ Sighted(p) /\ ReaderSees(op[p])'
<1>1. op[p].got = {op[p].asOf} /\ op[p].at \in Reading
  BY DEF ReadersSee, ReaderSees, ReleaseInventory, At, Reading
<1> QED
  BY <1>1, MovingOn DEF ReleaseInventory, Reading

LEMMA ReadEndSafe ==
  ASSUME TypeInvariant, ReadersSee, NEW p \in Process, ReadEnd(p)
  PROVE  Safe(p) /\ Ordinary(p) /\ Sighted(p) /\ ReaderSees(op[p])'
<1>1. Idle \in Ops
  BY DEF Ops, Plain, Idle
<1>2. OpTypeOK' /\ op'[p] = Idle /\ \A q \in Process \ {p} : op'[q] = op[q]
  BY <1>1, OpGoes, TypeFacts DEF ReadEnd
<1>3. op[p].at \notin Connected /\ op'[p].at \notin Connected /\ ~ HasCandidate(op'[p])
  BY <1>2 DEF ReadEnd, Idle, Connected, HasCandidate
<1> QED
  BY <1>2, <1>3, Looking DEF ReadEnd, Sighted, ReaderSees, Fingerprinted, Reading, Idle

-----------------------------------------------------------------------------
(* The path names a file at most once: what it names next is what it named *)
(* before, nothing, or a file that nobody has opened, written frames for   *)
(* or taken the fingerprint of.                                            *)

Renames(p) ==
  /\ \/ tmp' \in {0, tmp}
     \/ /\ tmp' = Len(file) + 1 /\ tmp' <= Len(file')
        /\ name' = name /\ ~ HasCandidate(op'[p])
  /\ HasCandidate(op'[p]) =>
       \/ HasCandidate(op[p]) /\ op'[p].cand = op[p].cand
       \/ op'[p].cand = Len(file) + 1 /\ op'[p].cand <= Len(file') /\ tmp' = tmp
  /\ \/ name' \in {0, name}
     \/ name' = tmp /\ tmp' = 0
     \/ name' = op[p].cand /\ HasCandidate(op[p])
     \/ name' = Len(file) + 1 /\ tmp' = tmp
  /\ name' \in {0, name} \/ ~ HasCandidate(op'[p])
Moves(p) == Safe(p) /\ Sighted(p) /\ Renames(p)

LEMMA NewIsUntouched ==
  ASSUME TypeInvariant, Fresh, ReadersSee
  PROVE  Untouched(Len(file) + 1) /\ Len(file) \in Nat
<1>1. name \in 0..Len(file) /\ Len(file) \in Nat /\ \A p \in Process : conn[p].file \in 0..Len(file)
  BY TypeFacts, WalsAreRecords
<1>2. \A w \in Wals : \A f \in wal[w].frames : f.file \in 1..Len(file)
  BY DEF Fresh
<1>3. \A p \in Process : op[p].at \in Fingerprinted => op[p].fp[1] \in 1..Len(file)
  BY DEF ReadersSee, ReaderSees
<1> QED
  BY <1>1, <1>2, <1>3 DEF Untouched

LEMMA UntouchedKept ==
  ASSUME NEW p \in Process, OthersWait(p), FilesMove, Sighted(p),
         NEW i, Untouched(i), i # 0, name' # i
  PROVE  /\ \A q \in Process : /\ conn'[q].file # i
                               /\ op'[q].at \in Fingerprinted => op'[q].fp[1] # i
         /\ \A w \in Wals : \A f \in wal'[w].frames : f.file # i
<1>1. \A q \in Process : conn'[q].file # i
  BY DEF FilesMove, Untouched
<1>2. \A w \in Wals : \A f \in wal'[w].frames : f.file # i
  BY DEF FilesMove, FramesAreOfConnections, Untouched
<1>3. \A q \in Process : op'[q].at \in Fingerprinted => op'[q].fp[1] # i
  BY DEF OthersWait, Sighted, Untouched
<1> QED
  BY <1>1, <1>2, <1>3

\* What the path names next.
LEMMA NamedOnce ==
  ASSUME TypeInvariant, Fresh, ReadersSee, NEW p \in Process, Moves(p)
  PROVE  name' \in {0, name} \/ Untouched(name')
<1>1. CASE name' = tmp
  BY <1>1 DEF Fresh
<1>2. CASE name' = op[p].cand /\ HasCandidate(op[p])
  BY <1>2 DEF Fresh
<1>3. CASE name' = Len(file) + 1
  BY <1>3, NewIsUntouched
<1> QED
  BY <1>1, <1>2, <1>3 DEF Moves, Renames

LEMMA FreshKept ==
  ASSUME TypeInvariant, Fresh, ReadersSee, NEW p \in Process, Moves(p)
  PROVE  Fresh'
<1> DEFINE new == Len(file) + 1
<1>1. /\ name \in 0..Len(file) /\ tmp \in 0..Len(file) /\ Len(file) \in Nat /\ Len(file') \in Nat
      /\ Len(file') >= Len(file) /\ tmp' \in 0..Len(file')
      /\ \A q \in Process : conn[q].file \in 0..Len(file)
  <2>1. TypeInvariant' /\ FilesGrow
    BY DEF Moves, Safe, FilesMove
  <2>2. Len(file') \in Nat /\ tmp' \in 0..Len(file')
    BY <2>1 DEF TypeInvariant, IndexTypeOK, FilesTypeOK
  <2> QED
    BY <2>1, <2>2, TypeFacts, WalsAreRecords DEF FilesGrow
<1>2. \A w \in Wals : \A f \in wal'[w].frames : f.file \in 1..Len(file')
  <2> SUFFICES ASSUME NEW w \in Wals, NEW f \in wal'[w].frames
               PROVE  f.file \in 1..Len(file')
    OBVIOUS
  <2>1. f \in wal[w].frames \/ \E q \in Process : conn[q].file # 0 /\ f.file = conn[q].file
    BY DEF Moves, Safe, FilesMove, FramesAreOfConnections
  <2>2. f.file \in 1..Len(file)
    BY <1>1, <2>1 DEF Fresh
  <2> QED
    BY <1>1, <2>2
<1>3. \A i : i # 0 /\ Untouched(i) /\ name' # i =>
        /\ \A q \in Process : /\ conn'[q].file # i
                              /\ op'[q].at \in Fingerprinted => op'[q].fp[1] # i
        /\ \A w \in Wals : \A f \in wal'[w].frames : f.file # i
  BY UntouchedKept DEF Moves, Safe
<1>4. Untouched(new) /\ new # 0 /\ new > Len(file)
  BY <1>1, NewIsUntouched
<1> HIDE DEF new
\* The candidates after the step.
<1>5. ASSUME NEW q \in Process, HasCandidate(op'[q])
      PROVE  /\ op'[q].cand \in 1..Len(file') /\ op'[q].cand # 0 /\ Untouched(op'[q].cand)
             /\ \/ HasCandidate(op[q]) /\ op'[q].cand = op[q].cand
                \/ q = p /\ op'[q].cand = new /\ tmp' = tmp
             /\ name' # op'[q].cand /\ op'[q].cand # tmp'
  <2>1. \/ HasCandidate(op[q]) /\ op'[q].cand = op[q].cand
        \/ q = p /\ op'[q].cand = new /\ new <= Len(file') /\ tmp' = tmp
    BY <1>5 DEF Moves, Safe, OthersWait, Renames, new
  <2>2. CASE HasCandidate(op[q]) /\ op'[q].cand = op[q].cand
    <3>1. op[q].cand \in 1..Len(file) /\ op[q].cand # tmp /\ Untouched(op[q].cand)
      BY <2>2 DEF Fresh
    <3>2. op[q].cand # new /\ op[q].cand # 0 /\ op[q].cand \in 1..Len(file')
      BY <1>1, <1>4, <3>1
    <3>3. op[q].cand # name
      BY <3>1 DEF Untouched
    <3>4. name' # op[q].cand
      <4>1. CASE name' = op[p].cand /\ HasCandidate(op[p]) /\ name' \notin {0, name}
        <5>1. q # p
          BY <1>5, <4>1 DEF Moves, Renames
        <5> QED
          BY <2>2, <4>1, <5>1 DEF Fresh
      <4> QED
        BY <3>1, <3>2, <3>3, <4>1 DEF Moves, Renames, new
    <3>5. op[q].cand # tmp'
      BY <3>1, <3>2 DEF Moves, Renames, new
    <3> QED
      BY <2>2, <3>1, <3>2, <3>4, <3>5
  <2>3. CASE q = p /\ op'[q].cand = new /\ new <= Len(file') /\ tmp' = tmp
    <3>1. new \in 1..Len(file') /\ new # tmp /\ new # name
      BY <1>1, <1>4, <2>3 DEF new
    <3>2. name' # new
      BY <1>4, <1>5, <2>3, <3>1 DEF Moves, Renames
    <3> QED
      BY <1>4, <2>3, <3>1, <3>2
  <2> QED
    BY <2>1, <2>2, <2>3
<1>6. tmp' # 0 => Untouched(tmp') /\ name' # tmp'
  <2> SUFFICES ASSUME tmp' # 0
               PROVE  Untouched(tmp') /\ name' # tmp'
    OBVIOUS
  <2>1. CASE tmp' = tmp
    <3>1. Untouched(tmp) /\ tmp # name /\ tmp # new
      BY <1>1, <1>4, <2>1 DEF Fresh, Untouched
    <3>2. HasCandidate(op[p]) => op[p].cand # tmp
      BY DEF Fresh
    <3> QED
      BY <2>1, <3>1, <3>2 DEF Moves, Renames, new
  <2>2. CASE tmp' = new /\ name' = name
    BY <1>4, <2>2 DEF Untouched
  <2> QED
    BY <2>1, <2>2 DEF Moves, Renames, new
<1>7. \A q, r \in Process : q # r /\ HasCandidate(op'[q]) /\ HasCandidate(op'[r]) =>
        op'[q].cand # op'[r].cand
  <2> SUFFICES ASSUME NEW q \in Process, NEW r \in Process, q # r,
                      HasCandidate(op'[q]), HasCandidate(op'[r])
               PROVE  op'[q].cand # op'[r].cand
    OBVIOUS
  <2>1. \/ HasCandidate(op[q]) /\ op'[q].cand = op[q].cand
        \/ q = p /\ op'[q].cand = new
    BY <1>5
  <2>2. \/ HasCandidate(op[r]) /\ op'[r].cand = op[r].cand
        \/ r = p /\ op'[r].cand = new
    BY <1>5
  <2>3. \A s \in Process : HasCandidate(op[s]) => op[s].cand # new
    BY <1>1, <1>4 DEF Fresh
  <2> QED
    BY <2>1, <2>2, <2>3 DEF Fresh
<1>8. \A i : i # 0 /\ Untouched(i) /\ name' # i => Untouched(i)'
  BY <1>3 DEF Untouched
<1>9. \A w \in Wals : \A f \in wal'[w].frames : (f.file \in 1..Len(file))'
  BY <1>2
<1>10. (tmp # 0 => Untouched(tmp))'
  BY <1>3, <1>6 DEF Untouched
<1>11. ASSUME NEW q \in Process, HasCandidate(op[q])'
       PROVE  /\ (op[q].cand \in 1..Len(file) /\ op[q].cand # tmp)'
              /\ Untouched(op[q].cand)'
              /\ (\A r \in Process \ {q} : HasCandidate(op[r]) => op[r].cand # op[q].cand)'
  <2>1. HasCandidate(op'[q])
    BY <1>11 DEF HasCandidate
  <2>2. op'[q].cand # 0 /\ Untouched(op'[q].cand) /\ name' # op'[q].cand
        /\ op'[q].cand \in 1..Len(file') /\ op'[q].cand # tmp'
    BY <1>5, <2>1
  <2>3. Untouched(op[q].cand)'
    BY <1>3, <2>2 DEF Untouched
  <2>4. \A r \in Process \ {q} : HasCandidate(op'[r]) => op'[r].cand # op'[q].cand
    BY <1>7, <2>1
  <2>5. (\A r \in Process \ {q} : HasCandidate(op[r]) => op[r].cand # op[q].cand)'
    BY <2>4 DEF HasCandidate
  <2> QED
    BY <2>2, <2>3, <2>5
<1> QED
  BY <1>9, <1>10, <1>11 DEF Fresh

\* What a reader knows stays true while others move.
LEMMA ReaderKept ==
  ASSUME TypeInvariant, Fresh, ReadersSee, NEW p \in Process, Moves(p),
         NEW q \in Process, op'[q] = op[q]
  PROVE  ReaderSees(op[q])'
<1> DEFINE i == op[q].fp[1]
<1>1. ReaderSees(op[q])
  BY DEF ReadersSee
<1>2. CASE op[q].at \in Fingerprinted
  <2>1. i \in 1..Len(file) /\ op[q].fp[2] <= file[i].stamp
    BY <1>1, <1>2 DEF ReaderSees
  <2>2. i # tmp
    BY <1>2, <2>1 DEF Fresh, Untouched
  <2>3. Len(file') >= Len(file) /\ Len(file) \in Nat /\ Len(file') \in Nat /\ FilesGrow
    BY TypeFacts, FilesAreRecords DEF Moves, Safe, FilesMove, FilesGrow, TypeInvariant, IndexTypeOK, FilesTypeOK
  <2>4. /\ file'[i].stamp >= file[i].stamp
        /\ file'[i].stamp = file[i].stamp => file'[i].rows = file[i].rows
    BY <2>1, <2>2, <2>3 DEF FilesGrow
  <2>5. op[q].fp[2] \in Nat /\ file[i].stamp \in Nat /\ file'[i].stamp \in Nat
    <3>1. op[q].fp \in Digests
      BY <1>2, KnownAt, TypeFacts DEF Fingerprinted, At, Opened, Admitted, Reads
    <3>2. file[i].stamp \in Nat
      BY <2>1, TypeFacts, FilesAreRecords
    <3>3. (file \in Seq(FileRecord))'
      BY DEF Moves, Safe, TypeInvariant, IndexTypeOK, FilesTypeOK, FileRecord
    <3>4. file'[i] \in FileRecord
      <4>1. i \in 1..Len(file')
        BY <2>1, <2>3
      <4> HIDE DEF i
      <4> QED
        BY <3>3, <4>1
    <3>5. file'[i].stamp \in Nat
      BY <3>4 DEF FileRecord
    <3> QED
      BY <3>1, <3>2, <3>5 DEF Digests
  <2>6. name' = i => name = i
    <3>1. ~ Untouched(i) /\ i # 0
      BY <1>2, <2>1 DEF Untouched
    <3> QED
      BY <3>1, NamedOnce
  <2>7. i \in 1..Len(file') /\ op[q].fp[2] <= file'[i].stamp
    BY <2>1, <2>3, <2>4, <2>5
  <2>8. name' = i /\ file'[name'].stamp = op[q].fp[2] =>
          /\ name = i /\ file[name].stamp = op[q].fp[2] /\ file[name].rows = file'[name'].rows
    BY <2>1, <2>4, <2>5, <2>6
  <2>9. op[q].at # "open" => op[q].file \in 1..Len(file')
    BY <1>1, <1>2, <2>3 DEF ReaderSees
  <2> HIDE DEF i
  <2>10. i = op[q].fp[1]
    BY DEF i
  <2>11. Still(op[q])' => Still(op[q]) /\ file[name].rows = file'[name'].rows
    BY <2>8, <2>10 DEF Still
  <2>12. Still(op[q])' <=> name' = op[q].fp[1] /\ file'[name'].stamp = op[q].fp[2]
    BY DEF Still
  <2>13. Still(op'[q]) => Still(op[q])
    BY <2>11 DEF Still
  <2> QED
    BY <1>1, <2>7, <2>9, <2>10, <2>11, <2>13 DEF ReaderSees
<1>3. CASE op[q].at \notin Fingerprinted
  BY <1>3 DEF ReaderSees, Fingerprinted, Reading
<1> QED
  BY <1>2, <1>3

-----------------------------------------------------------------------------
(* Every step moves in that way.                                           *)

LEMMA WriterMoves ==
  ASSUME NEW p \in Process, Safe(p), Ordinary(p), Unread(p)
  PROVE  Moves(p) /\ ReaderSees(op[p])'
<1>1. Moves(p)
  <2>1. tmp' \in {0, tmp} /\ name' \in {0, name}
    BY DEF Ordinary
  <2>2. HasCandidate(op'[p]) => HasCandidate(op[p]) /\ op'[p].cand = op[p].cand
    BY DEF Ordinary
  <2>3. Renames(p)
    BY <2>1, <2>2 DEF Renames
  <2>4. Sighted(p)
    BY DEF Sighted, Unread
  <2> QED
    BY <2>3, <2>4 DEF Moves
<1>2. ReaderSees(op[p])'
  BY DEF Unread, ReaderSees, Fingerprinted, Reading
<1> QED
  BY <1>1, <1>2

LEMMA LookerMoves ==
  ASSUME NEW p \in Process, Safe(p), Ordinary(p), Sighted(p)
  PROVE  Moves(p)
<1>1. tmp' \in {0, tmp} /\ name' \in {0, name}
  BY DEF Ordinary
<1>2. HasCandidate(op'[p]) => HasCandidate(op[p]) /\ op'[p].cand = op[p].cand
  BY DEF Ordinary
<1>3. Renames(p)
  BY <1>1, <1>2 DEF Renames
<1> QED
  BY <1>3 DEF Moves

LEMMA NamerMoves ==
  ASSUME NEW p \in Process, Safe(p), Unread(p), Renames(p)
  PROVE  Moves(p) /\ ReaderSees(op[p])'
<1>1. Moves(p)
  BY DEF Moves, Unread, Sighted
<1>2. ReaderSees(op[p])'
  BY DEF Unread, ReaderSees, Fingerprinted, Reading
<1> QED
  BY <1>1, <1>2

LEMMA WriteMoves ==
  ASSUME TypeInvariant, NEW p \in Process, Write(p)
  PROVE  Moves(p) /\ ReaderSees(op[p])'
BY WriteOpenSafe, WriteCommitSafe, CloseSafe, WriteBeginSafe, WriterMoves DEF Write

LEMMA HandoffMoves ==
  ASSUME TypeInvariant, NEW p \in Process, Handoff(p)
  PROVE  Moves(p) /\ ReaderSees(op[p])'
BY HandoffOpenSafe, HandoffCheckpointSafe, HandoffCloseSafe, HandoffFailSafe, HandoffUnlinkSafe,
   WriterMoves DEF Handoff

LEMMA ReplaceIndexMoves ==
  ASSUME TypeInvariant, Fresh, NEW p \in Process, ReplaceIndex(p)
  PROVE  Moves(p) /\ ReaderSees(op[p])'
<1>1. CASE RollbackBuild(p)
  <2>1. tmp # name
    BY <1>1 DEF Fresh, Untouched, RollbackBuild, Quiet
  <2>2. /\ Safe(p) /\ Unread(p) /\ name' = name /\ ~ HasCandidate(op'[p])
        /\ tmp' \in {0, tmp, Len(file) + 1}
    BY <1>1, <2>1, RollbackBuildSafe
  <2>3. tmp' <= Len(file')
    BY <2>2 DEF Safe, TypeInvariant, IndexTypeOK, FilesTypeOK
  <2>4. Renames(p)
    BY <2>2, <2>3 DEF Renames
  <2> QED
    BY <2>2, <2>4, NamerMoves
<1>2. CASE InstallReplay(p)
  <2>1. /\ Safe(p) /\ Unread(p) /\ name' = name /\ tmp' = tmp
        /\ op'[p] = [at |-> "secure", cand |-> Len(file) + 1] /\ Len(file') = Len(file) + 1
    BY <1>2, InstallReplaySafe
  <2>2. op'[p].cand = Len(file) + 1 /\ op'[p].cand <= Len(file') /\ Len(file) \in Nat
    BY <2>1, TypeFacts
  <2>3. Renames(p)
    <3>1. HasCandidate(op'[p]) => op'[p].cand = Len(file) + 1 /\ op'[p].cand <= Len(file') /\ tmp' = tmp
      BY <2>1, <2>2
    <3>2. tmp' \in {0, tmp} /\ name' \in {0, name}
      BY <2>1
    <3> QED
      BY <3>1, <3>2 DEF Renames
  <2> QED
    BY <2>1, <2>3, NamerMoves
<1>3. CASE Replace(p)
  <2>1. /\ Safe(p) /\ Unread(p) /\ ~ HasCandidate(op'[p])
        /\ \/ name' = tmp /\ tmp # 0 /\ tmp' = 0
           \/ name' = op[p].cand /\ HasCandidate(op[p]) /\ tmp' = tmp
    BY <1>3, ReplaceSafe
  <2>2. tmp' \in {0, tmp}
    BY <2>1
  <2>3. Renames(p)
    BY <2>1, <2>2 DEF Renames
  <2> QED
    BY <2>1, <2>3, NamerMoves
<1>4. CASE Backup(p) \/ RollbackStart(p) \/ InstallBackup(p) \/ ReplaceConnect(p)
  BY <1>4, BackupSafe, RollbackStartSafe, InstallBackupSafe, ReplaceConnectSafe, WriterMoves
<1>5. CASE ReplaceLock(p) \/ ReplaceUnlock(p) \/ ReplaceFail(p) \/ ReplaceClean(p) \/ RollbackValidate(p)
  BY <1>5, ReplaceLockSafe, ReplaceUnlockSafe, ReplaceFailSafe, ReplaceCleanSafe,
     RollbackValidateSafe, WriterMoves
<1> QED
  BY <1>1, <1>2, <1>3, <1>4, <1>5 DEF ReplaceIndex

LEMMA RebuildMoves ==
  ASSUME TypeInvariant, Fresh, NEW p \in Process, Rebuild(p)
  PROVE  Moves(p) /\ ReaderSees(op[p])'
<1>1. CASE RebuildBuild(p)
  <2>1. /\ Safe(p) /\ Unread(p) /\ name' = name /\ tmp' = tmp
        /\ op'[p] = [at |-> "rename", cand |-> Len(file) + 1] /\ Len(file') = Len(file) + 1
    BY <1>1, RebuildBuildSafe
  <2>2. op'[p].cand = Len(file) + 1 /\ op'[p].cand <= Len(file') /\ Len(file) \in Nat
    BY <2>1, TypeFacts
  <2>3. Renames(p)
    <3>1. HasCandidate(op'[p]) => op'[p].cand = Len(file) + 1 /\ op'[p].cand <= Len(file') /\ tmp' = tmp
      BY <2>1, <2>2
    <3>2. tmp' \in {0, tmp} /\ name' \in {0, name}
      BY <2>1
    <3> QED
      BY <3>1, <3>2 DEF Renames
  <2> QED
    BY <2>1, <2>3, NamerMoves
<1>2. CASE RebuildRename(p)
  <2>1. /\ Safe(p) /\ Unread(p) /\ ~ HasCandidate(op'[p]) /\ HasCandidate(op[p])
        /\ name' = op[p].cand /\ tmp' = tmp
    BY <1>2, RebuildRenameSafe
  <2>2. tmp' \in {0, tmp}
    BY <2>1
  <2>3. Renames(p)
    BY <2>1, <2>2 DEF Renames
  <2> QED
    BY <2>1, <2>3, NamerMoves
<1>3. CASE InitStorage(p)
  <2>1. /\ Safe(p) /\ Unread(p) /\ tmp' = tmp /\ ~ HasCandidate(op'[p])
        /\ name' = Len(file) + 1
    BY <1>3, InitStorageSafe
  <2>2. tmp' \in {0, tmp}
    BY <2>1
  <2>3. Renames(p)
    BY <2>1, <2>2 DEF Renames
  <2> QED
    BY <2>1, <2>3, NamerMoves
<1>4. CASE RebuildVerify(p)
  BY <1>4, RebuildVerifySafe, WriterMoves
<1> QED
  BY <1>1, <1>2, <1>3, <1>4 DEF Rebuild

LEMMA ReadMoves ==
  ASSUME TypeInvariant, ReadersSee, NEW p \in Process, Read(p)
  PROVE  Moves(p) /\ ReaderSees(op[p])'
<1>1. CASE ReadStart(p) \/ ReadInventory(p) \/ ReadFingerprint(p) \/ ReadOpen(p) \/ ReadAdmit(p)
           \/ ReadSidecars(p)
  BY <1>1, ReadStartSafe, ReadInventorySafe, ReadFingerprintSafe, ReadOpenSafe, ReadAdmitSafe,
     ReadSidecarsSafe, LookerMoves
<1>2. CASE ReadRows(p) \/ ReadDone(p) \/ ReleaseFingerprint(p) \/ ReleaseSidecars(p)
           \/ ReleaseInventory(p) \/ ReadEnd(p)
  BY <1>2, ReadRowsSafe, ReadDoneSafe, ReleaseFingerprintSafe, ReleaseSidecarsSafe,
     ReleaseInventorySafe, ReadEndSafe, LookerMoves
<1> QED
  BY <1>1, <1>2 DEF Read

Acts(p) == Write(p) \/ Handoff(p) \/ ReplaceIndex(p) \/ Rebuild(p) \/ Read(p) \/ Die(p) \/ Discard

LEMMA EveryoneMoves ==
  ASSUME TypeInvariant, Fresh, ReadersSee, NEW p \in Process, Acts(p)
  PROVE  Moves(p) /\ ReaderSees(op[p])'
<1>1. CASE Die(p) \/ Discard
  BY <1>1, DieSafe, DiscardSafe, WriterMoves
<1> QED
  BY <1>1, WriteMoves, HandoffMoves, ReplaceIndexMoves, RebuildMoves, ReadMoves DEF Acts

-----------------------------------------------------------------------------
(* The files under the readers.                                            *)

Inv == TypeInvariant /\ Fresh /\ ReadersSee

LEMMA InvInit ==
  ASSUME Hypotheses, Init
  PROVE  Inv
<1>1. NewFile(NoRows) \in FileRecord
  BY DEF FileRecord, NewFile, NoRows, Rows
<1>2. file \in Seq(FileRecord) /\ Len(file) = 1
  BY <1>1 DEF Init, FilesInit
<1>3. FilesTypeOK
  <2>1. wal \in [Wals -> [frames: SUBSET Frame, lock: Process \cup {NoProc}]]
    BY DEF Init, FilesInit, EmptyWal
  <2>2. conn \in [Process -> [file: 0..Len(file), wal: {0} \cup Wals]]
    BY <1>2 DEF Init, FilesInit, Closed
  <2>3. \A w \in Wals : wal[w].lock = NoProc
    BY DEF Init, FilesInit, EmptyWal
  <2> QED
    BY <1>2, <2>1, <2>2, <2>3 DEF FilesTypeOK, FileRecord, Init, FilesInit, Hypotheses, FilesAssumption
<1>4. OpTypeOK /\ \A p \in Process : op[p].at = "idle"
  <2>1. Idle \in Ops
    BY DEF Ops, Plain, Idle
  <2> QED
    BY <2>1 DEF Init, OpTypeOK, Idle
<1>5. IndexTypeOK
  <2>1. tmp \in 0..Len(file) /\ deaths \in 0..MaxDeaths
    BY <1>2 DEF Init, Hypotheses, CommandsAssumption
  <2> QED
    BY <1>3, <2>1 DEF IndexTypeOK, Init, NoRows, Rows
<1>6. ConnectionsFit
  BY <1>4 DEF ConnectionsFit, Fit, Connected, Init, FilesInit
<1>7. Fresh
  <2>1. \A w \in Wals : wal[w].frames = {}
    BY DEF Init, FilesInit, EmptyWal
  <2>2. tmp = 0 /\ \A p \in Process : ~ HasCandidate(op[p])
    BY <1>4 DEF Init, HasCandidate
  <2> QED
    BY <2>1, <2>2 DEF Fresh
<1>8. ReadersSee
  BY <1>4 DEF ReadersSee, ReaderSees, Fingerprinted, Reading
<1> QED
  BY <1>4, <1>5, <1>6, <1>7, <1>8 DEF Inv, TypeInvariant

LEMMA InvKept ==
  ASSUME Inv, NEW p \in Process, Moves(p), ReaderSees(op[p])'
  PROVE  Inv'
<1>1. TypeInvariant'
  BY DEF Moves, Safe
<1>2. Fresh'
  BY FreshKept DEF Inv
<1>3. ASSUME NEW q \in Process
      PROVE  ReaderSees(op[q])'
  <2>1. CASE q = p
    BY <2>1
  <2>2. CASE q # p
    <3>1. op'[q] = op[q]
      BY <2>2 DEF Moves, Safe, OthersWait
    <3> QED
      BY <3>1, ReaderKept DEF Inv
  <2> QED
    BY <2>1, <2>2
<1> QED
  BY <1>1, <1>2, <1>3 DEF Inv, ReadersSee

\* Nothing happens where there are no processes, but the index may go.
LEMMA NobodyIsLeft ==
  ASSUME Inv, Process = {}, Discard
  PROVE  Inv'
<1>1. UNCHANGED <<file, wal, conn, evidence, tmp, backup, op, deaths, refused>> /\ name' = 0 /\ walAt' = 0
  BY DEF Discard
<1>2. FilesTypeOK /\ FilesTypeOK' /\ Len(file) \in Nat
  BY <1>1, TypeFacts, 0 \in 0..Len(file) DEF Inv, FilesTypeOK, Wals
<1>3. TypeInvariant'
  BY <1>1, <1>2 DEF Inv, TypeInvariant, Hypotheses, FilesAssumption, CommandsAssumption, IndexTypeOK,
     OpTypeOK, ConnectionsFit
<1>4. Fresh'
  <2>1. tmp \in 0..Len(file)
    BY TypeFacts DEF Inv
  <2> QED
    BY <1>1, <2>1 DEF Inv, Fresh, Untouched, Wals
<1>5. ReadersSee'
  BY DEF ReadersSee
<1> QED
  BY <1>3, <1>4, <1>5 DEF Inv

LEMMA InvNext ==
  ASSUME Inv, [Next]_vars
  PROVE  Inv'
<1>1. ASSUME NEW p \in Process, Acts(p)
      PROVE  Inv'
  BY <1>1, EveryoneMoves, InvKept DEF Inv
<1>2. CASE Discard
  <2>1. CASE Process = {}
    BY <1>2, <2>1, NobodyIsLeft
  <2>2. CASE Process # {}
    BY <1>1, <1>2, <2>2 DEF Acts
  <2> QED
    BY <2>1, <2>2
<1>3. CASE UNCHANGED vars
  <2>1. FilesTypeOK'
    BY <1>3, FilesSame, TypeFacts DEF vars, fileVars, Inv
  <2>2. TypeInvariant'
    BY <1>3, <2>1 DEF vars, Inv, TypeInvariant, Hypotheses, FilesAssumption, CommandsAssumption,
       IndexTypeOK, OpTypeOK, ConnectionsFit, Fit
  <2>3. Fresh'
    BY <1>3 DEF vars, Inv, Fresh, Untouched, HasCandidate, Wals
  <2>4. ReadersSee'
    BY <1>3 DEF vars, Inv, ReadersSee, ReaderSees, Still
  <2> QED
    BY <2>2, <2>3, <2>4 DEF Inv
<1> QED
  BY <1>1, <1>2, <1>3 DEF Next, Acts

\* The files, the sidecars and the connections keep their types (IndexTypeOK).
THEOREM IndexTypesHold == ASSUME Hypotheses PROVE Spec => []IndexTypeOK
<1>1. Init => Inv
  BY InvInit
<1>2. Inv /\ [Next]_vars => Inv'
  BY InvNext
<1>3. Inv => IndexTypeOK
  BY DEF Inv, TypeInvariant
<1> QED
  BY <1>1, <1>2, <1>3, PTL DEF Spec

\* Whatever a guarded read publishes is what the whole index said at one
\* moment after its admission began, whoever else writes, checkpoints, rolls
\* back, rebuilds, discards or dies meanwhile (ReadsAreConsistent).
THEOREM GuardedReadsAreConsistent == ASSUME Hypotheses PROVE Spec => []ReadsAreConsistent
<1>1. Init => Inv
  BY InvInit
<1>2. Inv /\ [Next]_vars => Inv'
  BY InvNext
<1>3. Inv => ReadsAreConsistent
  BY DEF Inv, ReadersSee, ReaderSees, ReadsAreConsistent, At
<1> QED
  BY <1>1, <1>2, <1>3, PTL DEF Spec

-----------------------------------------------------------------------------
(* The rows: what a step may do to them.                                   *)

Told(p) ==
  /\ At(p, "commit") => op[p].run \in evidence[op[p].table]
  /\ At(p, "build") => Justified(op[p].rows)
  /\ At(p, "rebuild") => op[p].runs \subseteq evidence.runs

\* Rows come from the Evidence: those that a step writes have it already.
Tells(p) ==
  /\ evidence.runs \subseteq evidence'.runs /\ evidence.snaps \subseteq evidence'.snaps
  /\ Whole(evidence)' /\ Justified(backup)'
  /\ \A i \in 1..Len(file') :
       \/ i <= Len(file) /\ file'[i] = file[i]
       \/ i <= Len(file) /\ \E w \in Wals : file'[i] = Merged(i, wal[w].frames)
       \/ Justified(file[i].rows)'
  /\ \A w \in Wals : \A f \in wal'[w].frames :
       f \in wal[w].frames \/ f.run \in evidence'[f.table]
  /\ Told(p)'

\* The named file takes up the frames of a WAL in use, or what is named is a
\* file that nobody has touched.
KeepsName ==
  /\ name' = name
  /\ name # 0 => \/ file'[name] = file[name]
                 \/ \E w \in Wals : InUse(w) /\ file'[name] = Merged(name, wal[w].frames)
  /\ \A w \in Wals : InUse(w)' => wal'[w].frames = {} \/ (InUse(w) /\ wal'[w].frames = wal[w].frames)
GivesName ==
  /\ name' # 0 /\ Untouched(name') /\ conn' = conn /\ wal' = wal
  /\ file'[name'].sane => Whole(file'[name'].rows)
KeepsCandidates ==
  \A i \in 1..Len(file') : IsPending(i)' =>
    \/ i <= Len(file) /\ IsPending(i) /\ file'[i] = file[i]
    \/ Whole(file[i].rows)'
KeepsCommits(p) ==
  \A q \in Process \ {p} : At(q, "commit") =>
    /\ wal[conn[q].wal].lock = q => wal'[conn[q].wal].lock = q
    /\ conn[q].file = name' => wal'[conn[q].wal].frames = wal[conn[q].wal].frames
Carries(p) ==
  /\ KeepsName \/ GivesName \/ name' = 0
  /\ KeepsCandidates /\ KeepsCommits(p)
Backs(p) == Tells(p) /\ Carries(p)

LEMMA RowsMerge ==
  ASSUME NEW r \in Rows, NEW a \in SUBSET Frame, NEW b \in SUBSET Frame,
         Whole(WithFrames(r, a)), Whole(WithFrames(r, b))
  PROVE  Whole(WithFrames(WithFrames(r, a), b))
<1> DEFINE Of(c, t) == {f.run : f \in {g \in c : g.table = t}}
<1>1. \A c : /\ WithFrames(r, c).runs = r.runs \cup Of(c, "runs")
             /\ WithFrames(r, c).snaps = r.snaps \cup Of(c, "snaps")
  BY DEF WithFrames
<1>2. /\ WithFrames(WithFrames(r, a), b).runs = WithFrames(r, a).runs \cup Of(b, "runs")
      /\ WithFrames(WithFrames(r, a), b).snaps = WithFrames(r, a).snaps \cup Of(b, "snaps")
  BY DEF WithFrames
<1> HIDE DEF Of
<1> QED
  BY <1>1, <1>2 DEF Whole

LEMMA RowsWithFrames ==
  ASSUME NEW r \in Rows, NEW a \in SUBSET Frame
  PROVE  /\ r.runs \subseteq WithFrames(r, a).runs /\ r.snaps \subseteq WithFrames(r, a).snaps
         /\ \A t \in {"runs", "snaps"} : \A x \in WithFrames(r, a)[t] :
              x \in r[t] \/ \E f \in a : f.table = t /\ f.run = x
         /\ \A f \in a : f.run \in WithFrames(r, a)[f.table]
BY DEF Rows, WithFrames, Frame

\* Nothing is known without Evidence.
LEMMA JustifiedFrames ==
  ASSUME NEW r \in Rows, NEW a \in SUBSET Frame, Justified(r),
         \A f \in a : f.run \in evidence[f.table]
  PROVE  Justified(WithFrames(r, a))
<1>1. \A t \in {"runs", "snaps"} : WithFrames(r, a)[t] \subseteq evidence[t]
  BY RowsWithFrames DEF Justified
<1> QED
  BY <1>1 DEF Justified

LEMMA KnownKept ==
  ASSUME TypeInvariant, TypeInvariant', Known, NEW p \in Process, OthersWait(p), Tells(p)
  PROVE  Known'
<1>1. evidence \in Rows /\ evidence' \in Rows
  BY DEF TypeInvariant, IndexTypeOK
<1>2. \A t \in {"runs", "snaps"} : evidence[t] \subseteq evidence'[t]
  BY DEF Tells
<1>3. \A r : Justified(r) => r.runs \subseteq evidence'.runs /\ r.snaps \subseteq evidence'.snaps
  BY <1>2 DEF Justified, Tells
<1>4. \A w \in Wals : \A f \in wal[w].frames : f \in Frame /\ f.table \in {"runs", "snaps"}
  BY TypeFacts, WalsAreRecords DEF Frame
<1>5. \A i \in 1..Len(file') :
        file'[i].rows.runs \subseteq evidence'.runs /\ file'[i].rows.snaps \subseteq evidence'.snaps
  <2> SUFFICES ASSUME NEW i \in 1..Len(file')
               PROVE  /\ file'[i].rows.runs \subseteq evidence'.runs
                      /\ file'[i].rows.snaps \subseteq evidence'.snaps
    OBVIOUS
  <2>1. CASE i <= Len(file) /\ file'[i] = file[i]
    <3>1. i \in 1..Len(file)
      BY <2>1, TypeFacts
    <3>2. Justified(file[i].rows)
      BY <3>1 DEF Known
    <3> QED
      BY <2>1, <3>2, <1>3
  <2>2. ASSUME i <= Len(file), NEW w \in Wals, file'[i] = Merged(i, wal[w].frames)
        PROVE  /\ file'[i].rows.runs \subseteq evidence'.runs
               /\ file'[i].rows.snaps \subseteq evidence'.snaps
    <3>1. i \in 1..Len(file) /\ wal[w].frames \in SUBSET Frame
      BY <2>2, TypeFacts, WalsAreRecords
    <3>2. file[i].rows \in Rows /\ Justified(file[i].rows)
      BY <3>1, TypeFacts, FilesAreRecords DEF Known
    <3>3. \A f \in wal[w].frames : f.run \in evidence[f.table]
      BY DEF Known
    <3>4. Justified(WithFrames(file[i].rows, wal[w].frames))
      BY <3>1, <3>2, <3>3, JustifiedFrames
    <3>5. file'[i].rows = WithFrames(file[i].rows, wal[w].frames)
      BY <2>2, <3>1, MergedDoes, TypeFacts
    <3> QED
      BY <3>4, <3>5, <1>3
  <2>3. CASE Justified(file[i].rows)'
    BY <2>3 DEF Justified
  <2> QED
    BY <2>1, <2>2, <2>3 DEF Tells
<1>6. \A w \in Wals : \A f \in wal'[w].frames : f.run \in evidence'[f.table]
  BY <1>2, <1>4 DEF Tells, Known
<1>7. ASSUME NEW q \in Process
      PROVE  Told(q)'
  <2>1. CASE q = p
    BY <2>1 DEF Tells
  <2>2. CASE q # p
    <3>1. op'[q] = op[q]
      BY <2>2 DEF OthersWait
    <3>2. At(q, "commit") => op[q].table \in {"runs", "snaps"}
      BY KnownAt, TypeFacts
    <3>3. At(q, "commit") => op[q].run \in evidence'[op[q].table]
      BY <1>2, <3>2 DEF Known
    <3>4. At(q, "build") => op[q].rows.runs \subseteq evidence'.runs /\ op[q].rows.snaps \subseteq evidence'.snaps
      BY <1>3 DEF Known
    <3>5. At(q, "rebuild") => op[q].runs \subseteq evidence'.runs
      BY DEF Known, Tells
    <3> QED
      BY <3>1, <3>3, <3>4, <3>5 DEF Told, At, Justified
  <2> QED
    BY <2>1, <2>2
<1>8. \A i \in 1..Len(file') : Justified(file[i].rows)'
  BY <1>5 DEF Justified
<1> QED
  BY <1>6, <1>7, <1>8 DEF Known, Told, Tells, Wals, At

\* The rows stay whole.
LEMMA NamedRowsKept ==
  ASSUME TypeInvariant, TypeInvariant', RowsWhole, KeepsName, name # 0
  PROVE  /\ file'[name].sane => file[name].sane /\ Whole(file'[name].rows)
         /\ \A w \in Wals : InUse(w)' /\ file'[name].sane /\ (\A f \in wal'[w].frames : f.file = name) =>
              Whole(WithFrames(file'[name].rows, wal'[w].frames))
         /\ file[name].rows.runs \subseteq file'[name].rows.runs
<1>1. name \in 1..Len(file) /\ \A w \in Wals : wal[w].frames \in SUBSET Frame
  BY TypeFacts, WalsAreRecords
<1>2. file[name].rows \in Rows
  BY <1>1, TypeFacts, FilesAreRecords
<1>3. /\ file[name].sane => Whole(file[name].rows)
      /\ \A w \in Wals : InUse(w) /\ Sane(name, w) => Whole(WithFrames(file[name].rows, wal[w].frames))
  BY <1>1 DEF RowsWhole
<1>4. CASE file'[name] = file[name]
  <2>1. ASSUME NEW w \in Wals, InUse(w)', file'[name].sane, \A f \in wal'[w].frames : f.file = name
        PROVE  Whole(WithFrames(file'[name].rows, wal'[w].frames))
    <3>1. CASE wal'[w].frames = {}
      BY <1>2, <1>3, <1>4, <2>1, <3>1, NoFramesNoRows
    <3>2. CASE InUse(w) /\ wal'[w].frames = wal[w].frames
      <4>1. Sane(name, w)
        BY <1>4, <2>1, <3>2 DEF Sane
      <4> QED
        BY <1>3, <1>4, <3>2, <4>1
    <3> QED
      BY <2>1, <3>1, <3>2 DEF KeepsName
  <2> QED
    BY <1>3, <1>4, <2>1
<1>5. ASSUME NEW v \in Wals, InUse(v), file'[name] = Merged(name, wal[v].frames)
      PROVE  /\ file'[name].sane => file[name].sane /\ Whole(file'[name].rows)
             /\ \A w \in Wals :
                  InUse(w)' /\ file'[name].sane /\ (\A f \in wal'[w].frames : f.file = name) =>
                    Whole(WithFrames(file'[name].rows, wal'[w].frames))
             /\ file[name].rows.runs \subseteq file'[name].rows.runs
  <2>1. /\ file'[name].rows = WithFrames(file[name].rows, wal[v].frames)
        /\ file'[name].sane => file[name].sane /\ Sane(name, v)
    BY <1>1, <1>5, MergedDoes, TypeFacts DEF Sane
  <2>2. file'[name].sane => Whole(file'[name].rows)
    BY <1>3, <1>5, <2>1
  <2>3. ASSUME NEW w \in Wals, InUse(w)', file'[name].sane, \A f \in wal'[w].frames : f.file = name
        PROVE  Whole(WithFrames(file'[name].rows, wal'[w].frames))
    <3>1. CASE wal'[w].frames = {}
      <4>1. file'[name].rows \in Rows
        BY <1>1, <1>2, <2>1, MergedType
      <4> QED
        BY <2>2, <2>3, <3>1, <4>1, NoFramesNoRows
    <3>2. CASE InUse(w) /\ wal'[w].frames = wal[w].frames
      <4>1. Sane(name, w)
        BY <2>1, <2>3, <3>2 DEF Sane
      <4>2. Whole(WithFrames(file[name].rows, wal[w].frames))
        BY <1>3, <3>2, <4>1
      <4>3. Whole(WithFrames(file[name].rows, wal[v].frames))
        BY <1>3, <1>5, <2>1, <2>3
      <4> QED
        BY <1>1, <1>2, <2>1, <3>2, <4>2, <4>3, RowsMerge
    <3> QED
      BY <2>3, <3>1, <3>2 DEF KeepsName
  <2>4. file[name].rows.runs \subseteq file'[name].rows.runs
    BY <1>1, <1>2, <2>1, RowsWithFrames
  <2> QED
    BY <2>1, <2>2, <2>3, <2>4
<1> QED
  BY <1>4, <1>5 DEF KeepsName

LEMMA RowsWholeKept ==
  ASSUME TypeInvariant, TypeInvariant', RowsWhole, NEW p \in Process, Carries(p)
  PROVE  RowsWhole'
<1>1. name' \in 0..Len(file') /\ Len(file') \in Nat /\ 0 \notin 1..Len(file')
      /\ \A i \in 1..Len(file') : file'[i].rows \in Rows
  <2>1. FilesTypeOK'
    BY DEF TypeInvariant, IndexTypeOK
  <2>2. (file \in Seq(FileRecord) /\ name \in 0..Len(file))'
    BY <2>1 DEF FilesTypeOK, FileRecord
  <2>3. \A i \in 1..Len(file') : file'[i] \in FileRecord
    BY <2>2
  <2>4. Len(file') \in Nat
    BY <2>2
  <2>5. \A r \in FileRecord : r.rows \in Rows
    BY DEF FileRecord
  <2> QED
    BY <2>2, <2>3, <2>4, <2>5
<1>2. ASSUME NEW i \in 1..Len(file'), IsPending(i)', file'[i].sane
      PROVE  Whole(file'[i].rows)
  <2>1. CASE i <= Len(file) /\ IsPending(i) /\ file'[i] = file[i]
    <3>1. i \in 1..Len(file)
      BY <2>1, TypeFacts
    <3> QED
      BY <1>2, <2>1, <3>1 DEF RowsWhole
  <2>2. CASE Whole(file[i].rows)'
    BY <2>2 DEF Whole
  <2> QED
    BY <1>2, <2>1, <2>2 DEF Carries, KeepsCandidates
<1>3. /\ name' # 0 /\ file'[name'].sane => Whole(file'[name'].rows)
      /\ \A w \in Wals : name' # 0 /\ InUse(w)' /\ file'[name'].sane
                         /\ (\A f \in wal'[w].frames : f.file = name') =>
           Whole(WithFrames(file'[name'].rows, wal'[w].frames))
  <2>1. CASE KeepsName
    <3>1. name' = name
      BY <2>1 DEF KeepsName
    <3> QED
      BY <2>1, <3>1, NamedRowsKept
  <2>2. CASE GivesName
    <3>1. ASSUME NEW w \in Wals, \A f \in wal'[w].frames : f.file = name'
          PROVE  wal'[w].frames = {}
      BY <2>2, <3>1 DEF GivesName, Untouched
    <3>2. name' \in 1..Len(file')
      BY <1>1, <2>2 DEF GivesName
    <3> QED
      BY <1>1, <2>2, <3>1, <3>2, NoFramesNoRows DEF GivesName
  <2> QED
    BY <2>1, <2>2 DEF Carries
<1>4. \A i \in 1..Len(file') : (i = name' \/ IsPending(i)') /\ file'[i].sane => Whole(file'[i].rows)
  BY <1>1, <1>2, <1>3
<1>5. (\A i \in 1..Len(file) : (i = name \/ IsPending(i)) /\ file[i].sane => Whole(file[i].rows))'
  BY <1>4 DEF Whole
<1>6. (\A w \in Wals : name # 0 /\ InUse(w) /\ Sane(name, w) =>
         Whole(WithFrames(file[name].rows, wal[w].frames)))'
  BY <1>3 DEF Sane, Wals, Whole
<1> QED
  BY <1>5, <1>6 DEF RowsWhole

LEMMA CommitsFitKept ==
  ASSUME TypeInvariant, TypeInvariant', RowsWhole, CommitsFit, NEW p \in Process, OthersWait(p),
         Carries(p), CommitFits(p)'
  PROVE  CommitsFit'
<1> SUFFICES ASSUME NEW q \in Process, q # p, At(q, "commit")'
             PROVE  /\ wal'[conn'[q].wal].lock = q
                    /\ op'[q].table = "snaps" /\ conn'[q].file = name' /\ Sane(name, conn[q].wal)' =>
                         op'[q].run \in Visible(conn[q])'.runs
  BY DEF CommitsFit, CommitFits
<1>1. op'[q] = op[q] /\ conn'[q] = conn[q] /\ At(q, "commit")
  BY DEF OthersWait, At
<1>2. conn[q].file \in 1..Len(file) /\ conn[q].wal \in Wals /\ conn[q].file # 0
  BY <1>1, ConnectedFacts DEF At, Connected
<1>3. wal'[conn[q].wal].lock = q /\ (conn[q].file = name' => wal'[conn[q].wal].frames = wal[conn[q].wal].frames)
  BY <1>1 DEF CommitsFit, CommitFits, Carries, KeepsCommits
<1>4. ASSUME op[q].table = "snaps", conn[q].file = name', file'[name'].sane,
             \A f \in wal'[conn[q].wal].frames : f.file = name'
      PROVE  op[q].run \in WithFrames(file'[name'].rows, wal'[conn[q].wal].frames).runs
  <2>1. KeepsName
    BY <1>2, <1>4 DEF Carries, GivesName, Untouched
  <2>2. name' = name /\ name # 0
    BY <1>2, <1>4, <2>1 DEF KeepsName
  <2>3. file[name].sane /\ file[name].rows.runs \subseteq file'[name].rows.runs
    BY <1>4, <2>1, <2>2, NamedRowsKept
  <2>4. Sane(name, conn[q].wal)
    BY <1>3, <1>4, <2>2, <2>3 DEF Sane
  <2>5. op[q].run \in WithFrames(file[name].rows, wal[conn[q].wal].frames).runs
    BY <1>1, <1>4, <2>2, <2>4 DEF CommitsFit, CommitFits, Visible
  <2>6. file[name].rows \in Rows /\ file'[name].rows \in Rows
    <3>1. FilesTypeOK'
      BY DEF TypeInvariant, IndexTypeOK
    <3>2. (file \in Seq(FileRecord) /\ name \in 0..Len(file))'
      BY <3>1 DEF FilesTypeOK, FileRecord
    <3>3. name' \in 1..Len(file') /\ name \in 1..Len(file)
      BY <1>2, <1>4, <2>2, <3>2
    <3>4. file'[name'] \in FileRecord /\ file[name] \in FileRecord
      BY <3>2, <3>3, TypeFacts, FilesAreRecords
    <3> QED
      BY <2>2, <3>4 DEF FileRecord
  <2>7. wal[conn[q].wal].frames \in SUBSET Frame
    BY <1>2, TypeFacts, WalsAreRecords
  <2>8. op[q].run \in file[name].rows.runs \/ \E f \in wal[conn[q].wal].frames : f.table = "runs" /\ f.run = op[q].run
    BY <2>5, <2>6, <2>7, RowsWithFrames
  <2>9. op[q].run \in WithFrames(file'[name].rows, wal[conn[q].wal].frames).runs
    BY <2>3, <2>6, <2>7, <2>8, RowsWithFrames
  <2> QED
    BY <1>3, <1>4, <2>2, <2>9
<1> QED
  BY <1>1, <1>3, <1>4 DEF Sane, Visible

-----------------------------------------------------------------------------
(* What the operations on files and WALs do to the rows.                   *)

Rowed == TypeInvariant /\ Fresh /\ Known /\ CommitsFit

\* A step that commits nothing and gives nothing a name.
Usual(p) ==
  /\ OthersWait(p) /\ Ordinary(p) /\ name' = name
  /\ evidence' = evidence /\ Justified(backup)'
  /\ ~ At(p, "commit")' /\ Told(p)'

LEMMA CandidatesKept ==
  ASSUME TypeInvariant, Fresh, NEW p \in Process, OthersWait(p), Ordinary(p), Len(file') = Len(file),
         \A i \in 1..Len(file) : Untouched(i) => file'[i] = file[i]
  PROVE  KeepsCandidates
<1> SUFFICES ASSUME NEW i \in 1..Len(file'), IsPending(i)'
             PROVE  i <= Len(file) /\ IsPending(i) /\ file'[i] = file[i]
  BY DEF KeepsCandidates
<1>1. i \in 1..Len(file) /\ i # 0 /\ i <= Len(file)
  BY TypeFacts
<1>2. i = tmp' \/ \E q \in Process : HasCandidate(op'[q]) /\ op'[q].cand = i
  BY DEF IsPending, HasCandidate
<1>3. i = tmp \/ \E q \in Process : HasCandidate(op[q]) /\ op[q].cand = i
  <2>1. CASE i = tmp'
    BY <1>1, <2>1 DEF Ordinary
  <2>2. ASSUME NEW q \in Process, HasCandidate(op'[q]), op'[q].cand = i
        PROVE  HasCandidate(op[q]) /\ op[q].cand = i
    BY <2>2 DEF Ordinary, OthersWait
  <2> QED
    BY <1>2, <2>1, <2>2
<1>4. IsPending(i) /\ Untouched(i)
  BY <1>1, <1>3 DEF IsPending, Fresh
<1> QED
  BY <1>1, <1>4

LEMMA UsualTells ==
  ASSUME Rowed, NEW p \in Process, Usual(p), Len(file') = Len(file),
         \A i \in 1..Len(file) : file'[i] = file[i] \/ \E w \in Wals : file'[i] = Merged(i, wal[w].frames),
         \A w \in Wals : wal'[w].frames \subseteq wal[w].frames
  PROVE  Tells(p) /\ CommitFits(p)'
<1>1. Whole(evidence)'
  BY DEF Usual, Rowed, Known, Whole
<1>2. Len(file) \in Nat
  BY TypeFacts DEF Rowed
<1>3. \A i \in 1..Len(file') : i \in 1..Len(file) /\ i <= Len(file)
  BY <1>2
<1>4. CommitFits(p)'
  BY DEF CommitFits, Usual
<1> QED
  BY <1>1, <1>3, <1>4 DEF Tells, Usual

LEMMA QuietBacks ==
  ASSUME Rowed, NEW p \in Process, Usual(p), UNCHANGED <<file, wal, conn>>, walAt' \in {walAt, 0}
  PROVE  Backs(p) /\ CommitFits(p)'
<1>1. Tells(p) /\ CommitFits(p)'
  BY UsualTells
<1>2. KeepsCandidates
  BY CandidatesKept DEF Rowed, Usual
<1>3. \A w \in Wals : InUse(w)' => InUse(w)
  BY WalsAreRecords, TypeFacts DEF InUse, Usual, Rowed
<1>4. KeepsName
  BY <1>3 DEF KeepsName, Usual
<1>5. KeepsCommits(p)
  BY DEF KeepsCommits
<1> QED
  BY <1>1, <1>2, <1>4, <1>5 DEF Backs, Carries

LEMMA AttachBacks ==
  ASSUME Rowed, NEW p \in Process, Usual(p), conn[p] = Closed, Attach(p)
  PROVE  Backs(p) /\ CommitFits(p)'
<1>1. /\ name' = name /\ file' = file /\ walAt' \in Wals
      /\ conn'[p] = [file |-> name, wal |-> walAt']
      /\ \A q \in Process \ {p} : conn'[q] = conn[q]
      /\ walAt # 0 => walAt' = walAt /\ wal' = wal
      /\ walAt = 0 => /\ \A q \in Process : conn[q].wal # walAt'
                      /\ wal'[walAt'] = EmptyWal
                      /\ \A w \in Wals \ {walAt'} : wal'[w] = wal[w]
  BY AttachDoes, TypeFacts DEF Rowed
<1>2. \A w \in Wals : wal'[w].frames = wal[w].frames \/ (w = walAt' /\ walAt = 0 /\ wal'[w].frames = {})
  <2>1. CASE walAt # 0
    BY <1>1, <2>1
  <2>2. CASE walAt = 0
    <3>1. wal'[walAt'].frames = {}
      BY <1>1, <2>2 DEF EmptyWal
    <3> QED
      BY <1>1, <2>2, <3>1
  <2> QED
    BY <2>1, <2>2
<1>3. Tells(p) /\ CommitFits(p)'
  BY <1>1, <1>2, UsualTells
<1>4. KeepsCandidates
  BY <1>1, CandidatesKept DEF Rowed, Usual
<1>5. ASSUME NEW w \in Wals, InUse(w)'
      PROVE  wal'[w].frames = {} \/ (InUse(w) /\ wal'[w].frames = wal[w].frames)
  <2>1. w = walAt' \/ \E q \in Process : conn'[q] = [file |-> name, wal |-> w]
    BY <1>1, <1>5 DEF InUse
  <2>2. CASE walAt = 0 /\ w # walAt'
    <3>1. PICK q \in Process : conn'[q] = [file |-> name, wal |-> w]
      BY <2>1, <2>2
    <3>2. conn[q] = [file |-> name, wal |-> w]
      BY <1>1, <2>2, <3>1
    <3> QED
      BY <1>1, <2>2, <3>2 DEF InUse
  <2>3. CASE walAt # 0
    <3>1. w = walAt \/ \E q \in Process : conn[q] = [file |-> name, wal |-> w]
      BY <1>1, <2>1, <2>3
    <3> QED
      BY <1>1, <2>3, <3>1 DEF InUse
  <2>4. CASE walAt = 0 /\ w = walAt'
    BY <1>1, <2>4 DEF EmptyWal
  <2> QED
    BY <2>2, <2>3, <2>4
<1>6. KeepsName
  BY <1>1, <1>5 DEF KeepsName
<1>7. KeepsCommits(p)
  <2> SUFFICES ASSUME NEW q \in Process \ {p}, At(q, "commit")
               PROVE  wal'[conn[q].wal] = wal[conn[q].wal]
    BY DEF KeepsCommits
  <2>1. conn[q].wal \in Wals
    BY ConnectedFacts DEF At, Connected, Rowed
  <2> QED
    BY <1>1, <2>1
<1> QED
  BY <1>3, <1>4, <1>6, <1>7 DEF Backs, Carries

LEMMA DetachBacks ==
  ASSUME Rowed, NEW p \in Process, Usual(p), op[p].at \in Connected, Detach(p)
  PROVE  Backs(p) /\ CommitFits(p)'
<1>1. conn[p].file \in 1..Len(file) /\ conn[p].file # 0 /\ conn[p].wal \in Wals /\ conn[p].wal # 0
  BY ConnectedFacts DEF Rowed
<1>2. /\ name' = name /\ Len(file') = Len(file) /\ conn'[p] = Closed
      /\ \A q \in Process \ {p} : conn'[q] = conn[q]
      /\ \A w \in Wals : /\ wal'[w].frames = wal[w].frames
                         /\ wal[w].lock # p => wal'[w].lock = wal[w].lock
      /\ \/ file' = file /\ walAt' = walAt
         \/ /\ LastOn(p) /\ name \in 1..Len(file) /\ walAt' = 0
            /\ file'[name] = Merged(name, wal[conn[p].wal].frames)
            /\ \A i \in 1..Len(file) \ {name} : file'[i] = file[i]
  BY <1>1, DetachDoes, TypeFacts DEF Rowed
<1>3. Tells(p) /\ CommitFits(p)'
  <2>1. \A i \in 1..Len(file) : file'[i] = file[i] \/ \E w \in Wals : file'[i] = Merged(i, wal[w].frames)
    BY <1>1, <1>2
  <2> QED
    BY <1>2, <2>1, UsualTells
<1>4. KeepsCandidates
  <2>1. \A i \in 1..Len(file) : Untouched(i) => file'[i] = file[i]
    BY <1>2 DEF Untouched
  <2> QED
    BY <1>2, <2>1, CandidatesKept DEF Rowed, Usual
<1>5. \A w \in Wals : InUse(w)' => InUse(w)
  <2> SUFFICES ASSUME NEW w \in Wals, InUse(w)'
               PROVE  InUse(w)
    OBVIOUS
  <2>1. w # 0 /\ (walAt' = walAt \/ walAt' = 0)
    BY <1>2, TypeFacts, WalsAreRecords DEF Rowed
  <2>2. w = walAt' \/ \E q \in Process : conn'[q] = [file |-> name, wal |-> w]
    BY <1>2 DEF InUse
  <2>3. conn'[p] # [file |-> name, wal |-> w]
    BY <1>2, <2>1 DEF Closed
  <2> QED
    BY <1>2, <2>1, <2>2, <2>3 DEF InUse
<1>6. KeepsName
  <2>1. LastOn(p) => InUse(conn[p].wal)
    BY <1>1, TypeFacts, WalsAreRecords DEF LastOn, InUse, Rowed
  <2> QED
    BY <1>1, <1>2, <1>5, <2>1 DEF KeepsName
<1>7. KeepsCommits(p)
  <2> SUFFICES ASSUME NEW q \in Process \ {p}, At(q, "commit")
               PROVE  /\ wal[conn[q].wal].lock = q => wal'[conn[q].wal].lock = q
                      /\ wal'[conn[q].wal].frames = wal[conn[q].wal].frames
    BY DEF KeepsCommits
  <2>1. conn[q].wal \in Wals
    BY ConnectedFacts DEF At, Connected, Rowed
  <2> QED
    BY <1>2, <2>1
<1> QED
  BY <1>3, <1>4, <1>6, <1>7 DEF Backs, Carries

LEMMA VanishBacks ==
  ASSUME Rowed, NEW p \in Process, Usual(p), Vanish(p)
  PROVE  Backs(p) /\ CommitFits(p)'
<1>1. /\ name' = name /\ file' = file /\ walAt' = walAt /\ conn'[p] = Closed
      /\ \A q \in Process \ {p} : conn'[q] = conn[q]
      /\ \A w \in Wals : /\ wal'[w].frames = wal[w].frames
                         /\ wal[w].lock # p => wal'[w].lock = wal[w].lock
  BY VanishDoes, TypeFacts DEF Rowed
<1>2. Tells(p) /\ CommitFits(p)'
  BY <1>1, UsualTells
<1>3. KeepsCandidates
  BY <1>1, CandidatesKept DEF Rowed, Usual
<1>4. \A w \in Wals : InUse(w)' => InUse(w)
  <2> SUFFICES ASSUME NEW w \in Wals, InUse(w)'
               PROVE  InUse(w)
    OBVIOUS
  <2>1. w # 0
    BY TypeFacts, WalsAreRecords DEF Rowed
  <2>2. w = walAt \/ \E q \in Process : conn'[q] = [file |-> name, wal |-> w]
    BY <1>1 DEF InUse
  <2>3. conn'[p] # [file |-> name, wal |-> w]
    BY <1>1, <2>1 DEF Closed
  <2> QED
    BY <1>1, <2>2, <2>3 DEF InUse
<1>5. KeepsName
  BY <1>1, <1>4 DEF KeepsName
<1>6. KeepsCommits(p)
  <2> SUFFICES ASSUME NEW q \in Process \ {p}, At(q, "commit")
               PROVE  /\ wal[conn[q].wal].lock = q => wal'[conn[q].wal].lock = q
                      /\ wal'[conn[q].wal].frames = wal[conn[q].wal].frames
    BY DEF KeepsCommits
  <2>1. conn[q].wal \in Wals
    BY ConnectedFacts DEF At, Connected, Rowed
  <2> QED
    BY <1>1, <2>1
<1> QED
  BY <1>2, <1>3, <1>5, <1>6 DEF Backs, Carries

LEMMA CheckpointBacks ==
  ASSUME Rowed, NEW p \in Process, Usual(p), op[p].at \in Connected, CanCheckpoint(p),
         NEW l \in {wal[conn[p].wal].lock, p},
         file' = Checkpointed(p), wal' = [wal EXCEPT ![conn[p].wal] = [frames |-> {}, lock |-> l]],
         UNCHANGED <<walAt, conn>>
  PROVE  Backs(p) /\ CommitFits(p)'
<1> DEFINE c == conn[p].file
           v == conn[p].wal
<1>1. c \in 1..Len(file) /\ v \in Wals /\ c # 0
  BY ConnectedFacts DEF Rowed
<1>2. /\ Len(file') = Len(file) /\ file'[c] = Merged(c, wal[v].frames)
      /\ \A i \in 1..Len(file) \ {c} : file'[i] = file[i]
  <2>1. /\ Len(Checkpointed(p)) = Len(file) /\ Checkpointed(p)[c] = Merged(c, wal[v].frames)
        /\ \A i \in 1..Len(file) \ {c} : Checkpointed(p)[i] = file[i]
    BY <1>1, CheckpointDoes, TypeFacts, WalsAreRecords DEF Rowed
  <2> QED
    BY <2>1
<1>3. wal'[v] = [frames |-> {}, lock |-> l] /\ \A w \in Wals \ {v} : wal'[w] = wal[w]
  BY <1>1, TypeFacts DEF Rowed, FilesTypeOK
<1>4. Tells(p) /\ CommitFits(p)'
  <2>1. \A i \in 1..Len(file) : file'[i] = file[i] \/ \E w \in Wals : file'[i] = Merged(i, wal[w].frames)
    BY <1>1, <1>2
  <2>2. \A w \in Wals : wal'[w].frames \subseteq wal[w].frames
    BY <1>3
  <2> QED
    BY <1>2, <2>1, <2>2, UsualTells
<1>5. KeepsCandidates
  <2>1. \A i \in 1..Len(file) : Untouched(i) => file'[i] = file[i]
    BY <1>2 DEF Untouched
  <2> QED
    BY <1>2, <2>1, CandidatesKept DEF Rowed, Usual
<1>6. \A w \in Wals : InUse(w)' => InUse(w)
  BY DEF InUse, Usual
<1>7. KeepsName
  <2>1. c = name => InUse(v)
    BY <1>1, TypeFacts, WalsAreRecords DEF InUse, Rowed
  <2>2. name # 0 /\ c # name => file'[name] = file[name]
    BY <1>1, <1>2, TypeFacts, WalsAreRecords DEF Rowed
  <2> HIDE DEF c, v
  <2>3. ASSUME NEW w \in Wals, InUse(w)'
        PROVE  wal'[w].frames = {} \/ (InUse(w) /\ wal'[w].frames = wal[w].frames)
    BY <1>3, <1>6, <2>3
  <2> QED
    BY <1>1, <1>2, <2>1, <2>2, <2>3 DEF KeepsName, Usual
<1>8. KeepsCommits(p)
  <2> SUFFICES ASSUME NEW q \in Process \ {p}, At(q, "commit")
               PROVE  wal'[conn[q].wal] = wal[conn[q].wal]
    BY DEF KeepsCommits
  <2>1. conn[q].wal \in Wals
    BY ConnectedFacts DEF At, Connected, Rowed
  <2>2. wal[conn[q].wal].lock = q
    BY DEF Rowed, CommitsFit, CommitFits
  <2>3. q # NoProc
    BY TypeFacts DEF Rowed, FilesAssumption
  <2>4. conn[q].wal # v
    BY <2>2, <2>3 DEF CanCheckpoint
  <2> QED
    BY <1>3, <2>1, <2>4
<1> QED
  BY <1>4, <1>5, <1>7, <1>8 DEF Backs, Carries

LEMMA TruthIsJustified ==
  ASSUME Rowed, name # 0
  PROVE  Justified(Truth) /\ PathFrames \in SUBSET Frame
         /\ Justified(WithFrames(file[name].rows, PathFrames))
<1>1. /\ name \in 1..Len(file) /\ walAt \in {0} \cup Wals
      /\ \A w \in Wals : wal[w].frames \in SUBSET Frame
  BY TypeFacts, WalsAreRecords DEF Rowed
<1>2. file[name].rows \in Rows /\ Justified(file[name].rows)
  BY <1>1, TypeFacts, FilesAreRecords DEF Rowed, Known
<1>3. PathFrames \in SUBSET Frame /\ \A f \in PathFrames : f.run \in evidence[f.table]
  BY <1>1 DEF PathFrames, Rowed, Known
<1>4. Justified(WithFrames(file[name].rows, PathFrames))
  BY <1>2, <1>3, JustifiedFrames
<1>5. Justified(Truth)
  BY <1>2, <1>4 DEF Truth, PathFrames
<1> QED
  BY <1>3, <1>4, <1>5

\* Connect, checkpoint and close: at a moment when nobody commits, or alone.
LEMMA SettlingKeeps ==
  ASSUME Rowed, NEW p \in Process, name # 0, Quiet \/ Alone, UNCHANGED <<name, conn>>,
         wal' = SettledWal, walAt' = SettledAt, file'[name] = SettledFile[name]
  PROVE  /\ KeepsName /\ KeepsCommits(p)
         /\ \A w \in Wals : wal'[w].frames \subseteq wal[w].frames
         /\ file'[name] = file[name] \/ \E w \in Wals : file'[name] = Merged(name, wal[w].frames)
         /\ name \in 1..Len(file) /\ Len(SettledFile) = Len(file)
         /\ \A i \in 1..Len(file) \ {name} : SettledFile[i] = file[i]
<1>1. /\ name \in 1..Len(file) /\ PathFrames \in SUBSET Frame
      /\ SettledFile[name] = Merged(name, PathFrames) /\ Len(SettledFile) = Len(file)
      /\ \A i \in 1..Len(file) \ {name} : SettledFile[i] = file[i]
      /\ \A w \in Wals : wal'[w].frames \subseteq wal[w].frames
      /\ \A w \in Wals : \/ wal'[w].lock = wal[w].lock
                         \/ /\ walAt = 0 /\ wal'[w] = EmptyWal
                            /\ \A q \in Process : conn[q].wal # w
      /\ walAt # 0 => wal'[walAt] = [frames |-> {}, lock |-> wal[walAt].lock]
      /\ \A w \in Wals : \/ wal'[w] = wal[w]
                         \/ w = walAt
                         \/ walAt = 0 /\ \A q \in Process : conn[q].wal # w
      /\ walAt = 0 /\ ~ Alone => walAt' \in Wals /\ wal'[walAt'] = EmptyWal
      /\ walAt' = IF Alone THEN 0 ELSE IF walAt = 0 THEN FreeWal ELSE walAt
  BY SettledDoes, TypeFacts DEF Rowed
<1>2. file'[name] = file[name] \/ (walAt \in Wals /\ file'[name] = Merged(name, wal[walAt].frames))
  <2>1. walAt \in {0} \cup Wals
    BY TypeFacts, WalsAreRecords DEF Rowed
  <2>2. Merged(name, {}) = file[name]
    BY <1>1, MergedDoes, TypeFacts DEF Rowed
  <2> QED
    BY <1>1, <2>1, <2>2 DEF PathFrames
<1>3. ASSUME NEW w \in Wals, InUse(w)'
      PROVE  wal'[w].frames = {} \/ (InUse(w) /\ wal'[w].frames = wal[w].frames)
  <2>1. w = walAt' \/ \E q \in Process : conn[q] = [file |-> name, wal |-> w]
    BY <1>3 DEF InUse
  <2>2. w # 0
    BY TypeFacts, WalsAreRecords DEF Rowed
  <2>3. CASE w = walAt
    BY <1>1, <2>2, <2>3
  <2>4. ASSUME w # walAt, NEW q \in Process, conn[q] = [file |-> name, wal |-> w]
        PROVE  InUse(w) /\ wal'[w].frames = wal[w].frames
    <3>1. conn[q].wal = w
      BY <2>4
    <3> QED
      BY <1>1, <2>4, <3>1 DEF InUse
  <2>5. ASSUME w # walAt, w = walAt'
        PROVE  wal'[w].frames = {}
    BY <1>1, <2>2, <2>5 DEF EmptyWal
  <2> QED
    BY <2>1, <2>3, <2>4, <2>5
<1>4. KeepsName
  <2>1. \A w \in Wals : w = walAt => InUse(w)
    BY DEF InUse
  <2> QED
    BY <1>2, <1>3, <2>1 DEF KeepsName
<1>5. KeepsCommits(p)
  <2> SUFFICES ASSUME NEW q \in Process \ {p}, At(q, "commit")
               PROVE  /\ wal[conn[q].wal].lock = q => wal'[conn[q].wal].lock = q
                      /\ conn[q].file = name => wal'[conn[q].wal].frames = wal[conn[q].wal].frames
    BY DEF KeepsCommits
  <2>1. conn[q].wal \in Wals
    BY ConnectedFacts DEF At, Connected, Rowed
  <2>2. wal'[conn[q].wal].lock = wal[conn[q].wal].lock
    BY <1>1, <2>1
  <2>3. ASSUME conn[q].file = name
        PROVE  wal'[conn[q].wal].frames = wal[conn[q].wal].frames
    <3>1. Quiet
      BY <2>3 DEF Alone
    <3>2. wal[conn[q].wal].lock = q /\ q # NoProc
      BY TypeFacts DEF Rowed, CommitsFit, CommitFits, FilesAssumption
    <3>3. conn[q].wal # walAt
      BY <2>1, <3>1, <3>2, TypeFacts, WalsAreRecords DEF Quiet, Rowed
    <3> QED
      BY <1>1, <2>1, <3>3
  <2> QED
    BY <2>2, <2>3
<1> QED
  BY <1>1, <1>2, <1>4, <1>5

LEMMA SettledBacks ==
  ASSUME Rowed, NEW p \in Process, Usual(p), name # 0, Quiet \/ Alone, Settled, conn' = conn
  PROVE  Backs(p) /\ CommitFits(p)'
<1>1. /\ KeepsName /\ KeepsCommits(p)
      /\ \A w \in Wals : wal'[w].frames \subseteq wal[w].frames
      /\ file'[name] = file[name] \/ \E w \in Wals : file'[name] = Merged(name, wal[w].frames)
      /\ Len(file') = Len(file)
      /\ \A i \in 1..Len(file) \ {name} : file'[i] = file[i]
  BY SettlingKeeps DEF Settled, Usual
<1>2. Tells(p) /\ CommitFits(p)'
  <2>1. \A i \in 1..Len(file) : file'[i] = file[i] \/ \E w \in Wals : file'[i] = Merged(i, wal[w].frames)
    BY <1>1
  <2> QED
    BY <1>1, <2>1, UsualTells
<1>3. KeepsCandidates
  <2>1. \A i \in 1..Len(file) : Untouched(i) => file'[i] = file[i]
    BY <1>1 DEF Untouched
  <2> QED
    BY <1>1, <2>1, CandidatesKept DEF Rowed, Usual
<1> QED
  BY <1>1, <1>2, <1>3 DEF Backs, Carries

LEMMA UsualBy ==
  ASSUME Rowed, NEW p \in Process, Safe(p), Ordinary(p), name' = name, evidence' = evidence,
         backup' = backup, op'[p].at \notin {"commit", "build", "rebuild"}
  PROVE  Usual(p)
<1>1. Justified(backup)'
  BY DEF Justified, Rowed, Known
<1>2. ~ At(p, "commit")' /\ Told(p)'
  BY DEF At, Told
<1> QED
  BY <1>1, <1>2 DEF Usual, Safe

LEMMA GoesTo ==
  ASSUME OpTypeOK, NEW p \in Process, NEW o, Go(p, o)
  PROVE  op'[p] = o
BY DEF OpTypeOK, Go

LEMMA StepsTo ==
  ASSUME OpTypeOK, NEW p \in Process, NEW s, Step(p, s)
  PROVE  op'[p].at = s
<1>1. op[p] \in Ops
  BY DEF OpTypeOK
<1>2. [op[p] EXCEPT !.at = s].at = s
  BY <1>1 DEF Ops, Plain, Writes, Swaps, Opened, Admitted, Reads
<1> QED
  BY <1>2 DEF OpTypeOK, Step

-----------------------------------------------------------------------------
(* The actions on the rows.                                                *)

LEMMA WriteOpenBacks ==
  ASSUME Rowed, NEW p \in Process, WriteOpen(p)
  PROVE  Backs(p) /\ CommitFits(p)'
<1>1. op'[p].at = "begin" /\ conn[p] = Closed
  BY GoesTo, TypeFacts DEF WriteOpen, Rowed, Ready, At, Fit, Connected
<1>2. name' = name /\ Safe(p) /\ Ordinary(p)
  BY WriteOpenSafe DEF WriteOpen, Attach, Rowed
<1>3. Usual(p)
  BY <1>1, <1>2, UsualBy DEF WriteOpen
<1> QED
  BY <1>1, <1>3, AttachBacks DEF WriteOpen

LEMMA HandoffOpenBacks ==
  ASSUME Rowed, NEW p \in Process, HandoffOpen(p)
  PROVE  Backs(p) /\ CommitFits(p)'
<1>1. op'[p].at = "handoff" /\ conn[p] = Closed
  BY GoesTo, TypeFacts DEF HandoffOpen, Rowed, Ready, At, Fit, Connected
<1>2. name' = name /\ Safe(p) /\ Ordinary(p)
  BY HandoffOpenSafe DEF HandoffOpen, Attach, Rowed
<1>3. Usual(p)
  BY <1>1, <1>2, UsualBy DEF HandoffOpen
<1> QED
  BY <1>1, <1>3, AttachBacks DEF HandoffOpen

LEMMA ReplaceConnectBacks ==
  ASSUME Rowed, NEW p \in Process, ReplaceConnect(p)
  PROVE  Backs(p) /\ CommitFits(p)'
<1>1. op'[p].at = "lock" /\ conn[p] = Closed
  BY StepsTo, TypeFacts DEF ReplaceConnect, Rowed, At, Fit, Connected
<1>2. name' = name /\ Safe(p) /\ Ordinary(p)
  BY ReplaceConnectSafe DEF ReplaceConnect, Attach, Rowed
<1>3. Usual(p)
  BY <1>1, <1>2, UsualBy DEF ReplaceConnect
<1> QED
  BY <1>1, <1>3, AttachBacks DEF ReplaceConnect

LEMMA CloseBacks ==
  ASSUME Rowed, NEW p \in Process, Close(p)
  PROVE  Backs(p) /\ CommitFits(p)'
<1>1. op'[p].at = "idle" /\ op[p].at \in Connected
  BY GoesTo, TypeFacts DEF Close, Rowed, Connected, Idle
<1>2. name' = name /\ Safe(p) /\ Ordinary(p)
  BY CloseSafe DEF Close, Detach, Rowed
<1>3. Usual(p)
  BY <1>1, <1>2, UsualBy DEF Close
<1> QED
  BY <1>1, <1>3, DetachBacks DEF Close

LEMMA HandoffCloseBacks ==
  ASSUME Rowed, NEW p \in Process, HandoffClose(p)
  PROVE  Backs(p) /\ CommitFits(p)'
<1>1. op'[p].at = "handoff_unlink" /\ op[p].at \in Connected
  BY StepsTo, TypeFacts DEF HandoffClose, Rowed, Connected, At
<1>2. name' = name /\ Safe(p) /\ Ordinary(p)
  BY HandoffCloseSafe DEF HandoffClose, Detach, Rowed
<1>3. Usual(p)
  BY <1>1, <1>2, UsualBy DEF HandoffClose
<1> QED
  BY <1>1, <1>3, DetachBacks DEF HandoffClose

LEMMA HandoffFailBacks ==
  ASSUME Rowed, NEW p \in Process, HandoffFail(p)
  PROVE  Backs(p) /\ CommitFits(p)'
<1>1. op'[p].at = "idle" /\ op[p].at \in Connected
  BY GoesTo, TypeFacts DEF HandoffFail, Rowed, Connected, Idle, At
<1>2. name' = name /\ Safe(p) /\ Ordinary(p)
  BY HandoffFailSafe DEF HandoffFail, Detach, Rowed
<1>3. Usual(p)
  BY <1>1, <1>2, UsualBy DEF HandoffFail
<1> QED
  BY <1>1, <1>3, DetachBacks DEF HandoffFail

LEMMA ReplaceUnlockBacks ==
  ASSUME Rowed, NEW p \in Process, ReplaceUnlock(p)
  PROVE  Backs(p) /\ CommitFits(p)'
<1>1. op'[p].at = "clean" /\ op[p].at \in Connected
  BY StepsTo, TypeFacts DEF ReplaceUnlock, Rowed, Connected, At
<1>2. name' = name /\ Safe(p) /\ Ordinary(p)
  BY ReplaceUnlockSafe DEF ReplaceUnlock, Detach, Rowed
<1>3. Usual(p)
  BY <1>1, <1>2, UsualBy DEF ReplaceUnlock
<1> QED
  BY <1>1, <1>3, DetachBacks DEF ReplaceUnlock

LEMMA ReplaceFailBacks ==
  ASSUME Rowed, NEW p \in Process, ReplaceFail(p)
  PROVE  Backs(p) /\ CommitFits(p)'
<1>1. op'[p].at = "idle"
  BY GoesTo, TypeFacts DEF ReplaceFail, Rowed, Idle
<1>2. Safe(p) /\ Ordinary(p) /\ evidence' = evidence /\ backup' = backup
  BY ReplaceFailSafe DEF ReplaceFail, Rowed
<1>3. ASSUME conn[p] = Closed PROVE Backs(p) /\ CommitFits(p)'
  <2>1. UNCHANGED <<name, file, walAt, wal, conn>>
    <3>1. UNCHANGED fileVars
      BY <1>3 DEF ReplaceFail
    <3> QED
      BY <3>1 DEF fileVars
  <2>2. Usual(p)
    BY <1>1, <1>2, <2>1, UsualBy
  <2> QED
    BY <2>1, <2>2, QuietBacks
<1>4. ASSUME conn[p] # Closed PROVE Backs(p) /\ CommitFits(p)'
  <2>1. Detach(p) /\ op[p].at \in Connected
    BY <1>4, TypeFacts DEF ReplaceFail, Fit, Rowed
  <2>2. name' = name
    BY <2>1 DEF Detach
  <2>3. Usual(p)
    BY <1>1, <1>2, <2>2, UsualBy
  <2> QED
    BY <2>1, <2>3, DetachBacks
<1> QED
  BY <1>3, <1>4

LEMMA DieBacks ==
  ASSUME Rowed, NEW p \in Process, Die(p)
  PROVE  Backs(p) /\ CommitFits(p)'
<1>1. op'[p].at = "idle"
  BY GoesTo, TypeFacts DEF Die, Rowed, Idle
<1>2. name' = name /\ Safe(p) /\ Ordinary(p)
  BY DieSafe DEF Die, Vanish, Rowed
<1>3. Usual(p)
  BY <1>1, <1>2, UsualBy DEF Die
<1> QED
  BY <1>3, VanishBacks DEF Die

LEMMA HandoffCheckpointBacks ==
  ASSUME Rowed, NEW p \in Process, HandoffCheckpoint(p)
  PROVE  Backs(p) /\ CommitFits(p)'
<1>1. op'[p].at = "handoff_close" /\ op[p].at \in Connected
  BY StepsTo, TypeFacts DEF HandoffCheckpoint, Rowed, Connected, At
<1>2. name' = name /\ Safe(p) /\ Ordinary(p)
  BY HandoffCheckpointSafe DEF HandoffCheckpoint, Rowed
<1>3. Usual(p)
  BY <1>1, <1>2, UsualBy DEF HandoffCheckpoint
<1> DEFINE v == conn[p].wal
           l == wal[conn[p].wal].lock
<1>4. wal' = [wal EXCEPT ![conn[p].wal] = [frames |-> {}, lock |-> l]]
  <2>1. wal' = [wal EXCEPT ![v].frames = {}]
    BY DEF HandoffCheckpoint
  <2>2. wal[v] = [frames |-> wal[v].frames, lock |-> wal[v].lock]
    BY <1>1, ConnectedFacts, TypeFacts, WalsAreRecords DEF Rowed
  <2> HIDE DEF v
  <2>3. [wal[v] EXCEPT !.frames = {}] = [frames |-> {}, lock |-> wal[v].lock]
    BY <2>2
  <2>4. wal' = [wal EXCEPT ![v] = [frames |-> {}, lock |-> wal[v].lock]]
    BY <2>1, <2>3
  <2> QED
    BY <2>4 DEF v
<1>5. l \in {wal[conn[p].wal].lock, p}
  OBVIOUS
<1> HIDE DEF l
<1> QED
  BY <1>1, <1>3, <1>4, <1>5, CheckpointBacks DEF HandoffCheckpoint

LEMMA ReplaceLockBacks ==
  ASSUME Rowed, NEW p \in Process, ReplaceLock(p)
  PROVE  Backs(p) /\ CommitFits(p)'
<1>1. op'[p].at = "replace" /\ op[p].at \in Connected
  BY StepsTo, TypeFacts DEF ReplaceLock, Rowed, Connected, At
<1>2. name' = name /\ Safe(p) /\ Ordinary(p)
  BY ReplaceLockSafe DEF ReplaceLock, Rowed
<1>3. Usual(p)
  BY <1>1, <1>2, UsualBy DEF ReplaceLock
<1> QED
  BY <1>1, <1>3, CheckpointBacks DEF ReplaceLock

LEMMA HandoffUnlinkBacks ==
  ASSUME Rowed, NEW p \in Process, HandoffUnlink(p)
  PROVE  Backs(p) /\ CommitFits(p)'
<1>1. op'[p].at = "idle"
  BY GoesTo, TypeFacts DEF HandoffUnlink, Rowed, Idle
<1>2. Usual(p)
  BY <1>1, HandoffUnlinkSafe, UsualBy DEF HandoffUnlink, Rowed
<1> QED
  BY <1>2, QuietBacks DEF HandoffUnlink

LEMMA ReplaceCleanBacks ==
  ASSUME Rowed, NEW p \in Process, ReplaceClean(p)
  PROVE  Backs(p) /\ CommitFits(p)'
<1>1. op'[p].at \in {"idle", "validate"}
  BY GoesTo, StepsTo, TypeFacts DEF ReplaceClean, Rowed, Idle
<1>2. Usual(p)
  BY <1>1, ReplaceCleanSafe, UsualBy DEF ReplaceClean, Rowed
<1> QED
  BY <1>2, QuietBacks DEF ReplaceClean

LEMMA RollbackStartBacks ==
  ASSUME Rowed, NEW p \in Process, RollbackStart(p)
  PROVE  Backs(p) /\ CommitFits(p)'
<1>1. op'[p] = [at |-> "build", rows |-> backup]
  BY GoesTo, TypeFacts DEF RollbackStart, Rowed
<1>2. UNCHANGED <<name, file, walAt, wal, conn, evidence, backup>>
  BY DEF RollbackStart, fileVars
<1>3. Justified(backup)' /\ Told(p)' /\ ~ At(p, "commit")'
  BY <1>1, <1>2 DEF Justified, Told, At, Rowed, Known
<1>4. Usual(p)
  BY <1>2, <1>3, RollbackStartSafe DEF Usual, Rowed, Safe
<1> QED
  BY <1>2, <1>4, QuietBacks

LEMMA BackupBacks ==
  ASSUME Rowed, NEW p \in Process, Backup(p)
  PROVE  Backs(p) /\ CommitFits(p)'
<1>1. name # 0 /\ op' = op /\ op[p].at = "idle" /\ name' = name /\ evidence' = evidence /\ conn' = conn
  BY DEF Backup, Quiet, Ready, At
<1>2. Justified(Truth)
  BY <1>1, TruthIsJustified
<1>3. Justified(backup)'
  BY <1>1, <1>2 DEF Backup, Justified
<1>4. Told(p)' /\ ~ At(p, "commit")'
  BY <1>1 DEF Told, At
<1>5. Usual(p)
  BY <1>1, <1>3, <1>4, BackupSafe DEF Usual, Rowed, Safe
<1> QED
  BY <1>1, <1>5, SettledBacks DEF Backup

LEMMA InstallBackupBacks ==
  ASSUME Rowed, NEW p \in Process, InstallBackup(p)
  PROVE  Backs(p) /\ CommitFits(p)'
<1>1. op'[p].at = "connect" /\ name # 0 /\ name' = name /\ conn' = conn
  <2>1. op'[p] = [at |-> "connect", how |-> "install", cand |-> op[p].cand,
                  digest |-> FileDigest(SettledFile)]
    BY GoesTo, TypeFacts DEF InstallBackup, Rowed
  <2> QED
    BY <2>1 DEF InstallBackup, Quiet
<1>2. Usual(p)
  BY <1>1, InstallBackupSafe, UsualBy DEF InstallBackup, Rowed
<1> QED
  BY <1>1, <1>2, SettledBacks DEF InstallBackup

LEMMA RollbackValidateBacks ==
  ASSUME Rowed, NEW p \in Process, RollbackValidate(p)
  PROVE  Backs(p) /\ CommitFits(p)'
<1>1. op'[p].at = "idle" /\ name' = name /\ conn' = conn
  BY GoesTo, TypeFacts DEF RollbackValidate, Rowed, Idle
<1>2. Usual(p)
  BY <1>1, RollbackValidateSafe, UsualBy DEF RollbackValidate, Rowed
<1>3. ASSUME Quiet PROVE Backs(p) /\ CommitFits(p)'
  <2>1. Settled /\ name # 0
    <3>1. Settled
      BY <1>3 DEF RollbackValidate
    <3> QED
      BY <1>3, <3>1 DEF Quiet
  <2> QED
    BY <1>1, <1>2, <1>3, <2>1, SettledBacks
<1>4. ASSUME ~ Quiet PROVE Backs(p) /\ CommitFits(p)'
  <2>1. UNCHANGED <<file, wal, walAt>>
    BY <1>4 DEF RollbackValidate
  <2> QED
    BY <1>1, <1>2, <2>1, QuietBacks
<1> QED
  BY <1>3, <1>4

LEMMA RebuildVerifyBacks ==
  ASSUME Rowed, NEW p \in Process, RebuildVerify(p)
  PROVE  Backs(p) /\ CommitFits(p)'
<1>1. /\ op'[p].at # "commit" /\ op'[p].at # "build"
      /\ op'[p].at = "rebuild" => op'[p].runs = evidence.runs
  <2>1. CASE LedgerAccepted
    <3>1. op'[p] = [at |-> "rebuild", runs |-> evidence.runs]
      BY <2>1, GoesTo, TypeFacts DEF RebuildVerify, Rowed
    <3> QED
      BY <3>1
  <2>2. CASE ~ LedgerAccepted
    <3>1. op' = op /\ op[p].at = "idle"
      BY <2>2 DEF RebuildVerify, Ready, At
    <3> QED
      BY <3>1
  <2> QED
    BY <2>1, <2>2
<1>2. UNCHANGED <<name, conn, evidence, backup>>
  BY DEF RebuildVerify
<1>3. Justified(backup)' /\ Told(p)' /\ ~ At(p, "commit")'
  BY <1>1, <1>2 DEF Justified, Told, At, Rowed, Known
<1>4. Usual(p)
  BY <1>2, <1>3, RebuildVerifySafe DEF Usual, Rowed, Safe
<1>5. ASSUME name # 0 /\ Alone PROVE Backs(p) /\ CommitFits(p)'
  <2>1. Settled
    BY <1>5 DEF RebuildVerify
  <2> QED
    BY <1>2, <1>4, <1>5, <2>1, SettledBacks
<1>6. ASSUME ~ (name # 0 /\ Alone) PROVE Backs(p) /\ CommitFits(p)'
  <2>1. UNCHANGED <<file, wal, walAt>>
    BY <1>6 DEF RebuildVerify
  <2> QED
    BY <1>2, <1>4, <2>1, QuietBacks
<1> QED
  BY <1>5, <1>6

LEMMA ReadBacks ==
  ASSUME Rowed, ReadersSee, NEW p \in Process, Read(p)
  PROVE  Backs(p) /\ CommitFits(p)'
<1>1. UNCHANGED fileVars /\ UNCHANGED <<evidence, backup>>
  BY DEF Read, ReadStart, ReadInventory, ReadFingerprint, ReadOpen, ReadAdmit, ReadSidecars, ReadRows,
     ReadDone, ReleaseFingerprint, ReleaseSidecars, ReleaseInventory, ReadEnd
<1>2. op'[p].at \notin {"commit", "build", "rebuild"}
  <2>1. CASE ReadStart(p) \/ ReadInventory(p) \/ ReadFingerprint(p) \/ ReadOpen(p) \/ ReadEnd(p)
             \/ ReadSidecars(p)
    BY <2>1, GoesTo, TypeFacts DEF Rowed, ReadStart, ReadInventory, ReadFingerprint, ReadOpen, ReadEnd,
       ReadSidecars, Idle
  <2>2. CASE ReadAdmit(p) \/ ReadDone(p) \/ ReleaseFingerprint(p) \/ ReleaseSidecars(p)
             \/ ReleaseInventory(p)
    BY <2>2, StepsTo, TypeFacts DEF Rowed, ReadAdmit, ReadDone, ReleaseFingerprint, ReleaseSidecars,
       ReleaseInventory
  <2>3. CASE ReadRows(p)
    <3>1. op[p] \in Reads /\ op[p].at = "reading"
      BY <2>3, KnownAt, TypeFacts DEF ReadRows, At, Reading, Rowed
    <3>2. op'[p].at = "reading"
      BY <2>3, <3>1, TypeFacts DEF ReadRows, Reads, Rowed, OpTypeOK
    <3> QED
      BY <3>2
  <2> QED
    BY <2>1, <2>2, <2>3 DEF Read
<1>3. Safe(p) /\ Ordinary(p)
  BY ReadStartSafe, ReadInventorySafe, ReadFingerprintSafe, ReadOpenSafe, ReadAdmitSafe,
     ReadSidecarsSafe, ReadRowsSafe, ReadDoneSafe, ReleaseFingerprintSafe, ReleaseSidecarsSafe,
     ReleaseInventorySafe, ReadEndSafe DEF Read, Rowed
<1>4. UNCHANGED <<name, file, walAt, wal, conn>>
  BY <1>1 DEF fileVars
<1>5. Usual(p)
  BY <1>1, <1>2, <1>3, <1>4, UsualBy
<1> QED
  BY <1>4, <1>5, QuietBacks

\* A new file: a candidate, or the empty index of storage init.
LEMMA AddedBacks ==
  ASSUME Rowed, ReadersSee, NEW p \in Process, Safe(p), NEW r \in FileRecord,
         file' = Append(file, r), Whole(r.rows), Justified(r.rows),
         UNCHANGED <<wal, conn, evidence, tmp, backup, walAt>>,
         HasCandidate(op'[p]) => op'[p].cand = Len(file) + 1,
         name' \in {name, Len(file) + 1}, op'[p].at \notin {"commit", "build", "rebuild"}
  PROVE  Backs(p) /\ CommitFits(p)'
<1> DEFINE new == Len(file) + 1
<1>1. /\ Len(file) \in Nat /\ Len(file') = new /\ file'[new] = r
      /\ \A i \in 1..Len(file) : file'[i] = file[i]
  BY FileAdded, TypeFacts DEF Rowed
<1>2. Justified(r.rows)' /\ Justified(backup)'
  BY DEF Justified, Rowed, Known
<1>3. \A i \in 1..Len(file') : i = new \/ (i \in 1..Len(file) /\ i <= Len(file) /\ file'[i] = file[i])
  BY <1>1
<1>4. Told(p)' /\ CommitFits(p)'
  BY DEF Told, CommitFits, At
<1>5. Tells(p)
  <2>1. Whole(evidence)'
    BY DEF Rowed, Known, Whole
  <2>2. \A i \in 1..Len(file') : (i <= Len(file) /\ file'[i] = file[i]) \/ Justified(file[i].rows)'
    <3> SUFFICES ASSUME NEW i \in 1..Len(file'), i = new
                 PROVE  Justified(file[i].rows)'
      BY <1>3
    <3>1. file'[i] = r
      BY <1>1
    <3> QED
      BY <1>2, <3>1 DEF Justified
  <2> QED
    BY <1>2, <1>4, <2>1, <2>2 DEF Tells
<1>6. KeepsCandidates
  <2> SUFFICES ASSUME NEW i \in 1..Len(file'), IsPending(i)'
               PROVE  \/ i <= Len(file) /\ IsPending(i) /\ file'[i] = file[i]
                      \/ Whole(file[i].rows)'
    BY DEF KeepsCandidates
  <2>1. CASE i = new
    <3>1. file'[i].rows = r.rows
      BY <1>1, <2>1
    <3> QED
      BY <3>1 DEF Whole
  <2>2. CASE i # new
    <3>1. i = tmp \/ \E q \in Process : HasCandidate(op'[q]) /\ op'[q].cand = i
      BY DEF IsPending, HasCandidate
    <3>2. IsPending(i)
      BY <2>2, <3>1 DEF Safe, OthersWait, IsPending
    <3> QED
      BY <1>3, <2>2, <3>2
  <2> QED
    BY <2>1, <2>2
<1>7. KeepsName \/ GivesName
  <2>1. CASE name' = name
    <3>1. name # 0 => name \in 1..Len(file)
      BY TypeFacts, WalsAreRecords DEF Rowed
    <3>2. \A w \in Wals : InUse(w)' => InUse(w)
      BY <2>1 DEF InUse
    <3> QED
      BY <1>1, <2>1, <3>1, <3>2 DEF KeepsName
  <2>2. CASE name' = new
    <3>1. Untouched(new) /\ new # 0
      BY <1>1, NewIsUntouched DEF Rowed
    <3>2. Whole(file'[new].rows)
      BY <1>1
    <3> QED
      BY <2>2, <3>1, <3>2 DEF GivesName
  <2> QED
    BY <2>1, <2>2
<1>8. KeepsCommits(p)
  BY DEF KeepsCommits
<1> QED
  BY <1>4, <1>5, <1>6, <1>7, <1>8 DEF Backs, Carries

LEMMA NewFileIs ==
  ASSUME NEW r \in Rows
  PROVE  NewFile(r) \in FileRecord /\ NewFile(r).rows = r
BY DEF NewFile, FileRecord

LEMMA InstallReplayBacks ==
  ASSUME Rowed, ReadersSee, NEW p \in Process, InstallReplay(p)
  PROVE  Backs(p) /\ CommitFits(p)'
<1>1. /\ Safe(p) /\ name' = name
      /\ op'[p] = [at |-> "secure", cand |-> Len(file) + 1]
  BY InstallReplaySafe DEF Rowed
<1>2. /\ NewFile(evidence) \in FileRecord /\ NewFile(evidence).rows = evidence
      /\ Whole(evidence) /\ Justified(evidence)
  BY NewFileIs, TypeFacts DEF Rowed, Known, Justified
<1>3. file' = Append(file, NewFile(evidence)) /\ UNCHANGED <<wal, conn, evidence, tmp, backup, walAt>>
  BY DEF InstallReplay
<1> DEFINE r == NewFile(evidence)
<1> HIDE DEF r
<1>4. r \in FileRecord /\ file' = Append(file, r) /\ Whole(r.rows) /\ Justified(r.rows)
  BY <1>2, <1>3 DEF r
<1> QED
  BY <1>1, <1>3, <1>4, AddedBacks

LEMMA RebuildBuildBacks ==
  ASSUME Rowed, ReadersSee, NEW p \in Process, RebuildBuild(p)
  PROVE  Backs(p) /\ CommitFits(p)'
<1> DEFINE rows == [runs |-> op[p].runs, snaps |-> evidence.snaps \cap op[p].runs]
           r == NewFile(rows)
<1>1. /\ Safe(p) /\ name' = name
      /\ op'[p] = [at |-> "rename", cand |-> Len(file) + 1]
  BY RebuildBuildSafe DEF Rowed
<1>2. rows \in Rows /\ Whole(rows) /\ Justified(rows)
  <2>1. op[p].runs \in SUBSET Run /\ op[p].runs \subseteq evidence.runs
    BY KnownAt, TypeFacts DEF Rowed, Known, RebuildBuild
  <2>2. evidence \in Rows
    BY TypeFacts DEF Rowed
  <2> QED
    BY <2>1, <2>2 DEF Rows, Whole, Justified
<1>3. file' = Append(file, r) /\ UNCHANGED <<wal, conn, evidence, tmp, backup, walAt>>
  BY DEF RebuildBuild
<1>4. r \in FileRecord /\ Whole(r.rows) /\ Justified(r.rows)
  <2> HIDE DEF rows
  <2> QED
    BY <1>2, NewFileIs
<1> HIDE DEF r
<1> QED
  BY <1>1, <1>3, <1>4, AddedBacks

LEMMA InitStorageBacks ==
  ASSUME Rowed, ReadersSee, NEW p \in Process, InitStorage(p)
  PROVE  Backs(p) /\ CommitFits(p)'
<1> DEFINE r == NewFile(NoRows)
<1>1. /\ Safe(p) /\ op' = op /\ name' = Len(file) + 1 /\ ~ HasCandidate(op'[p])
      /\ op[p].at = "idle"
  BY InitStorageSafe DEF Rowed, InitStorage, Ready, At
<1>2. NoRows \in Rows /\ Whole(NoRows) /\ Justified(NoRows)
  BY DEF Rows, NoRows, Whole, Justified
<1>3. file' = Append(file, r) /\ UNCHANGED <<wal, conn, evidence, tmp, backup, walAt>>
  BY DEF InitStorage
<1>4. r \in FileRecord /\ Whole(r.rows) /\ Justified(r.rows)
  BY <1>2, NewFileIs
<1> HIDE DEF r
<1> QED
  BY <1>1, <1>3, <1>4, AddedBacks

\* A candidate gets its name, or the index goes.
LEMMA NamedBacks ==
  ASSUME Rowed, RowsWhole, NEW p \in Process, Safe(p),
         UNCHANGED <<file, wal, conn, evidence, backup>>,
         tmp' \in {0, tmp}, op'[p].at \notin {"commit", "build", "rebuild"}, ~ HasCandidate(op'[p]),
         name' = 0 \/ IsPending(name')
  PROVE  Backs(p) /\ CommitFits(p)'
<1>1. Told(p)' /\ CommitFits(p)'
  BY DEF Told, CommitFits, At
<1>2. Len(file) \in Nat
  BY TypeFacts DEF Rowed
<1>3. Tells(p)
  <2>1. Whole(evidence)' /\ Justified(backup)'
    BY DEF Rowed, Known, Whole, Justified
  <2> QED
    BY <1>1, <1>2, <2>1 DEF Tells
<1>4. KeepsCandidates
  <2> SUFFICES ASSUME NEW i \in 1..Len(file'), IsPending(i)'
               PROVE  i <= Len(file) /\ IsPending(i) /\ file'[i] = file[i]
    BY DEF KeepsCandidates
  <2>1. i = tmp' \/ \E q \in Process : HasCandidate(op'[q]) /\ op'[q].cand = i
    BY DEF IsPending, HasCandidate
  <2>2. IsPending(i)
    BY <1>2, <2>1 DEF Safe, OthersWait, IsPending
  <2> QED
    BY <1>2, <2>2
<1>5. name' # 0 => GivesName
  <2> SUFFICES ASSUME name' # 0
               PROVE  GivesName
    OBVIOUS
  <2>1. Untouched(name')
    BY DEF IsPending, Rowed, Fresh
  <2>2. name' \in 1..Len(file)
    <3>1. name' \in 0..Len(file')
      BY DEF Safe, TypeInvariant, IndexTypeOK, FilesTypeOK
    <3> QED
      BY <1>2, <3>1
  <2>3. file[name'].sane => Whole(file[name'].rows)
    BY <2>2 DEF RowsWhole
  <2> QED
    BY <2>1, <2>3 DEF GivesName
<1>6. KeepsCommits(p)
  BY DEF KeepsCommits
<1> QED
  BY <1>1, <1>3, <1>4, <1>5, <1>6 DEF Backs, Carries

LEMMA ReplaceBacks ==
  ASSUME Rowed, RowsWhole, NEW p \in Process, Replace(p)
  PROVE  Backs(p) /\ CommitFits(p)'
<1>1. /\ Safe(p) /\ ~ HasCandidate(op'[p])
      /\ \/ name' = tmp /\ tmp # 0 /\ tmp' = 0
         \/ name' = op[p].cand /\ HasCandidate(op[p]) /\ tmp' = tmp
  BY ReplaceSafe DEF Rowed
<1>2. op'[p].at = "unlock"
  BY StepsTo, TypeFacts DEF Replace, Rowed
<1>3. IsPending(name') /\ tmp' \in {0, tmp}
  BY <1>1 DEF IsPending
<1>4. UNCHANGED <<file, wal, conn, evidence, backup>>
  BY DEF Replace
<1> QED
  BY <1>1, <1>2, <1>3, <1>4, NamedBacks

LEMMA RebuildRenameBacks ==
  ASSUME Rowed, RowsWhole, NEW p \in Process, RebuildRename(p)
  PROVE  Backs(p) /\ CommitFits(p)'
<1>1. Safe(p) /\ ~ HasCandidate(op'[p]) /\ HasCandidate(op[p]) /\ name' = op[p].cand /\ tmp' = tmp
  BY RebuildRenameSafe DEF Rowed
<1>2. op'[p].at = "idle"
  BY GoesTo, TypeFacts DEF RebuildRename, Rowed, Idle
<1>3. IsPending(name')
  BY <1>1 DEF IsPending
<1>4. UNCHANGED <<file, wal, conn, evidence, backup>>
  BY DEF RebuildRename
<1> QED
  BY <1>1, <1>2, <1>3, <1>4, NamedBacks

LEMMA DiscardBacks ==
  ASSUME Rowed, RowsWhole, NEW p \in Process, Discard
  PROVE  Backs(p) /\ CommitFits(p)'
<1>1. /\ Safe(p) /\ op' = op /\ op[p].at = "idle" /\ name' = 0 /\ tmp' = tmp
      /\ UNCHANGED <<file, wal, conn, evidence, backup>>
  BY DiscardSafe DEF Rowed, Discard, At
<1>2. op'[p].at \notin {"commit", "build", "rebuild"} /\ ~ HasCandidate(op'[p])
  BY <1>1 DEF HasCandidate
<1> QED
  BY <1>1, <1>2, NamedBacks

LEMMA RollbackBuildBacks ==
  ASSUME Rowed, NEW p \in Process, RollbackBuild(p)
  PROVE  Backs(p) /\ CommitFits(p)'
<1>1. tmp # name /\ name # 0 /\ Quiet
  BY DEF Rowed, Fresh, Untouched, RollbackBuild, Quiet
<1>2. /\ name \in 1..Len(file) /\ wal' = SettledWal /\ walAt' = SettledAt
      /\ \A j \in 1..Len(file) \ {tmp, name} : file'[j] = file[j]
      /\ file'[name] = SettledFile[name]
      /\ \/ /\ NotBuilt(p) /\ op'[p] = Idle /\ Len(file') = Len(file)
            /\ tmp # 0 => file'[tmp] = SettledFile[tmp]
         \/ /\ Whole(BuiltRows(op[p]))
            /\ op'[p] = [at |-> "connect", how |-> "rollback", cand |-> tmp',
                         digest |-> FileDigest(SettledFile)]
            /\ file'[tmp'].rows = BuiltRows(op[p])
            /\ \/ tmp = 0 /\ tmp' = Len(file) + 1 /\ Len(file') = Len(file) + 1
               \/ tmp # 0 /\ tmp' = tmp /\ Len(file') = Len(file)
  BY <1>1, BuildDoes DEF Rowed
<1>3. UNCHANGED <<name, conn, evidence, backup>> /\ Len(file) \in Nat /\ tmp \in 0..Len(file)
  BY TypeFacts DEF RollbackBuild, Rowed
<1>4. /\ KeepsName /\ KeepsCommits(p)
      /\ \A w \in Wals : wal'[w].frames \subseteq wal[w].frames
      /\ file'[name] = file[name] \/ \E w \in Wals : file'[name] = Merged(name, wal[w].frames)
      /\ \A i \in 1..Len(file) \ {name} : SettledFile[i] = file[i]
  BY <1>1, <1>2, <1>3, SettlingKeeps
<1>5. /\ op'[p].at \notin {"commit", "build", "rebuild"} /\ ~ HasCandidate(op'[p])
      /\ OthersWait(p)
  BY <1>1, <1>2, RollbackBuildSafe DEF Idle, Safe, Rowed
<1>6. Told(p)' /\ CommitFits(p)'
  BY <1>5 DEF Told, CommitFits, At
<1>7. Justified(BuiltRows(op[p]))
  <2>1. Justified(Truth) /\ Justified(op[p].rows)
    BY <1>1, TruthIsJustified DEF RollbackBuild, Rowed, Known
  <2> QED
    BY <2>1 DEF Justified, BuiltRows
\* Every file after the step is one of these.
<1>8. \A i \in 1..Len(file') :
        \/ i = name
        \/ i \in 1..Len(file) /\ i <= Len(file) /\ file'[i] = file[i]
        \/ i = tmp' /\ Whole(BuiltRows(op[p])) /\ file'[i].rows = BuiltRows(op[p])
  <2> SUFFICES ASSUME NEW i \in 1..Len(file'), i # name
               PROVE  \/ i \in 1..Len(file) /\ i <= Len(file) /\ file'[i] = file[i]
                      \/ i = tmp' /\ Whole(BuiltRows(op[p])) /\ file'[i].rows = BuiltRows(op[p])
    OBVIOUS
  <2>1. CASE NotBuilt(p) /\ Len(file') = Len(file)
    BY <1>3, <1>4, <2>1 DEF NotBuilt
  <2>2. ASSUME Whole(BuiltRows(op[p])), file'[tmp'].rows = BuiltRows(op[p]),
               tmp = 0, tmp' = Len(file) + 1, Len(file') = Len(file) + 1
        PROVE  \/ i \in 1..Len(file) /\ i <= Len(file) /\ file'[i] = file[i]
               \/ i = tmp' /\ Whole(BuiltRows(op[p])) /\ file'[i].rows = BuiltRows(op[p])
    <3>1. CASE i = Len(file) + 1
      BY <2>2, <3>1
    <3>2. CASE i # Len(file) + 1
      <4>1. i \in 1..Len(file) /\ i # tmp
        BY <1>3, <2>2, <3>2
      <4> QED
        BY <1>2, <1>3, <4>1
    <3> QED
      BY <3>1, <3>2
  <2>3. ASSUME Whole(BuiltRows(op[p])), file'[tmp'].rows = BuiltRows(op[p]),
               tmp' = tmp, Len(file') = Len(file)
        PROVE  \/ i \in 1..Len(file) /\ i <= Len(file) /\ file'[i] = file[i]
               \/ i = tmp' /\ Whole(BuiltRows(op[p])) /\ file'[i].rows = BuiltRows(op[p])
    <3>1. CASE i = tmp
      BY <2>3, <3>1
    <3>2. CASE i # tmp
      BY <1>2, <1>3, <2>3, <3>2
    <3> QED
      BY <3>1, <3>2
  <2> QED
    BY <1>2, <2>1, <2>2, <2>3
<1>9. Tells(p)
  <2>1. Whole(evidence)' /\ Justified(backup)'
    BY <1>3 DEF Rowed, Known, Whole, Justified
  <2>2. name <= Len(file)
    BY <1>2, <1>3
  <2>3. \A i \in 1..Len(file') :
          \/ i <= Len(file) /\ file'[i] = file[i]
          \/ i <= Len(file) /\ \E w \in Wals : file'[i] = Merged(i, wal[w].frames)
          \/ Justified(file[i].rows)'
    <3> SUFFICES ASSUME NEW i \in 1..Len(file')
                 PROVE  \/ i <= Len(file) /\ file'[i] = file[i]
                        \/ i <= Len(file) /\ \E w \in Wals : file'[i] = Merged(i, wal[w].frames)
                        \/ Justified(file[i].rows)'
      OBVIOUS
    <3>1. CASE i = name
      BY <1>4, <2>2, <3>1
    <3>2. CASE file'[i].rows = BuiltRows(op[p])
      <4>1. Justified(file'[i].rows)
        BY <1>7, <3>2
      <4> QED
        BY <1>3, <4>1 DEF Justified
    <3> QED
      BY <1>8, <3>1, <3>2
  <2> QED
    BY <1>3, <1>4, <1>6, <2>1, <2>3 DEF Tells
<1>10. KeepsCandidates
  <2> SUFFICES ASSUME NEW i \in 1..Len(file'), IsPending(i)'
               PROVE  \/ i <= Len(file) /\ IsPending(i) /\ file'[i] = file[i]
                      \/ Whole(file[i].rows)'
    BY DEF KeepsCandidates
  <2>1. i = tmp' \/ \E q \in Process : HasCandidate(op'[q]) /\ op'[q].cand = i
    BY DEF IsPending, HasCandidate
  <2>2. CASE i = tmp'
    <3>1. tmp' # 0
      BY <2>2
    <3>2. file'[i].rows = BuiltRows(op[p]) /\ Whole(BuiltRows(op[p]))
      BY <1>2, <2>2, <3>1 DEF NotBuilt
    <3>3. Whole(file'[i].rows)
      BY <3>2
    <3> QED
      BY <3>3 DEF Whole
  <2>3. ASSUME NEW q \in Process, HasCandidate(op'[q]), op'[q].cand = i
        PROVE  i <= Len(file) /\ IsPending(i) /\ file'[i] = file[i]
    <3>1. q # p /\ op'[q] = op[q]
      BY <1>5, <2>3 DEF OthersWait
    <3>2. HasCandidate(op[q]) /\ op[q].cand = i
      BY <2>3, <3>1
    <3>3. i \in 1..Len(file) /\ i # tmp /\ i # name
      BY <3>2 DEF Rowed, Fresh, Untouched
    <3> QED
      BY <1>2, <1>3, <3>2, <3>3 DEF IsPending
  <2> QED
    BY <2>1, <2>2, <2>3
<1> QED
  BY <1>4, <1>6, <1>9, <1>10 DEF Backs, Carries

-----------------------------------------------------------------------------
(* A writer: the Evidence first, then the row.                             *)

LEMMA WriteBeginBacks ==
  ASSUME Rowed, NEW p \in Process, NEW table \in {"runs", "snaps"}, NEW r \in Run,
         WriteBegin(p, table, r)
  PROVE  Backs(p) /\ CommitFits(p)'
<1> DEFINE v == conn[p].wal
<1>1. /\ Safe(p) /\ Ordinary(p)
      /\ UNCHANGED <<name, file, walAt, conn, tmp, backup>>
  BY WriteBeginSafe DEF WriteBegin, Rowed
<1>2. op'[p] = [at |-> "commit", table |-> table, run |-> r]
  BY GoesTo, TypeFacts DEF WriteBegin, Rowed
<1>3. /\ conn[p].file \in 1..Len(file) /\ v \in Wals /\ wal[v].lock = NoProc
  BY ConnectedFacts DEF WriteBegin, At, Connected, Rowed
<1>4. /\ wal'[v].lock = p /\ wal'[v].frames = wal[v].frames
      /\ \A w \in Wals \ {v} : wal'[w] = wal[w]
  <2>1. wal' = [wal EXCEPT ![v].lock = p]
    BY DEF WriteBegin
  <2>2. wal \in [Wals -> [frames: SUBSET Frame, lock: Process \cup {NoProc}]]
    BY TypeFacts DEF Rowed, FilesTypeOK
  <2> HIDE DEF v
  <2> QED
    BY <1>3, <2>1, <2>2
<1> HIDE DEF v
<1>5. \A w \in Wals : wal'[w].frames = wal[w].frames
  BY <1>4
<1>6. /\ evidence \in Rows
      /\ evidence' = [evidence EXCEPT ![table] = @ \cup {r}]
      /\ table = "snaps" => r \in Visible(conn[p]).runs
  BY TypeFacts DEF WriteBegin, Rowed
<1>7. Visible(conn[p]).runs \subseteq evidence.runs
  <2>1. file[conn[p].file].rows \in Rows /\ Justified(file[conn[p].file].rows)
    BY <1>3, TypeFacts, FilesAreRecords DEF Rowed, Known
  <2>2. wal[v].frames \in SUBSET Frame /\ \A f \in wal[v].frames : f.run \in evidence[f.table]
    BY <1>3, TypeFacts, WalsAreRecords DEF Rowed, Known
  <2>3. Justified(WithFrames(file[conn[p].file].rows, wal[v].frames))
    BY <2>1, <2>2, JustifiedFrames
  <2> QED
    BY <2>3 DEF Visible, Justified, v
<1>8. /\ evidence.runs \subseteq evidence'.runs /\ evidence.snaps \subseteq evidence'.snaps
      /\ r \in evidence'[table] /\ evidence'.snaps \subseteq evidence'.runs
  <2>1. CASE table = "runs"
    BY <1>6, <2>1 DEF Rows, Rowed, Known, Whole
  <2>2. CASE table = "snaps"
    BY <1>6, <1>7, <2>2 DEF Rows, Rowed, Known, Whole
  <2> QED
    BY <2>1, <2>2
<1>9. Tells(p)
  <2>1. Whole(evidence)' /\ Justified(backup)'
    BY <1>1, <1>8 DEF Rowed, Known, Whole, Justified
  <2>2. Told(p)'
    BY <1>2, <1>8 DEF Told, At
  <2>3. \A i \in 1..Len(file') : i <= Len(file) /\ file'[i] = file[i]
    BY <1>1, TypeFacts DEF Rowed
  <2> QED
    BY <1>5, <1>8, <2>1, <2>2, <2>3 DEF Tells
<1>10. KeepsName /\ KeepsCandidates
  <2>1. \A w \in Wals : InUse(w)' => InUse(w)
    BY <1>1 DEF InUse
  <2>2. KeepsName
    BY <1>1, <1>5, <2>1 DEF KeepsName
  <2>3. KeepsCandidates
    BY <1>1, CandidatesKept DEF Rowed, Safe
  <2> QED
    BY <2>2, <2>3
<1>11. KeepsCommits(p)
  <2> SUFFICES ASSUME NEW q \in Process \ {p}, At(q, "commit")
               PROVE  wal'[conn[q].wal] = wal[conn[q].wal]
    BY DEF KeepsCommits
  <2>1. conn[q].wal \in Wals
    BY ConnectedFacts DEF At, Connected, Rowed
  <2>2. wal[conn[q].wal].lock = q /\ q # NoProc
    BY TypeFacts DEF Rowed, CommitsFit, CommitFits, FilesAssumption
  <2> QED
    BY <1>3, <1>4, <2>1, <2>2
<1>12. CommitFits(p)'
  <2>1. wal'[conn'[p].wal].lock = p
    BY <1>1, <1>4 DEF v
  <2>2. table = "snaps" => r \in Visible(conn[p])'.runs
    <3>1. Visible(conn[p])' = Visible(conn[p])
      BY <1>1, <1>3, <1>5 DEF Visible, v
    <3> QED
      BY <1>6, <3>1
  <2> QED
    BY <1>2, <2>1, <2>2 DEF CommitFits, At
<1> QED
  BY <1>9, <1>10, <1>11, <1>12 DEF Backs, Carries

LEMMA FrameAdded ==
  ASSUME NEW r \in Rows, NEW a \in SUBSET Frame, NEW f \in Frame
  PROVE  /\ f.table = "runs" => /\ WithFrames(r, a \cup {f}).runs = WithFrames(r, a).runs \cup {f.run}
                                /\ WithFrames(r, a \cup {f}).snaps = WithFrames(r, a).snaps
         /\ f.table = "snaps" => /\ WithFrames(r, a \cup {f}).snaps = WithFrames(r, a).snaps \cup {f.run}
                                 /\ WithFrames(r, a \cup {f}).runs = WithFrames(r, a).runs
BY DEF Rows, WithFrames, Frame

LEMMA WriteCommitKeeps ==
  ASSUME Rowed, RowsWhole, NEW p \in Process, WriteCommit(p)
  PROVE  Tells(p) /\ RowsWhole' /\ CommitsFit'
<1> DEFINE v == conn[p].wal
           f == [file |-> conn[p].file, table |-> op[p].table, run |-> op[p].run]
<1>1. /\ Safe(p) /\ Ordinary(p)
      /\ UNCHANGED <<name, file, walAt, conn, evidence, tmp, backup>>
  BY WriteCommitSafe DEF WriteCommit, Rowed
<1>2. op'[p] = [at |-> "close"]
  BY GoesTo, TypeFacts DEF WriteCommit, Rowed
<1>3. /\ At(p, "commit") /\ conn[p].file \in 1..Len(file) /\ v \in Wals
      /\ op[p].table \in {"runs", "snaps"} /\ op[p].run \in Run
  BY ConnectedFacts, KnownAt, TypeFacts DEF WriteCommit, At, Connected, Rowed
<1>4. f \in Frame /\ f.file = conn[p].file /\ f.table = op[p].table /\ f.run = op[p].run
  BY <1>3, TypeFacts DEF Frame, FilesTypeOK, FilesAssumption, Rowed
<1>5. /\ wal'[v] = [frames |-> wal[v].frames \cup {f}, lock |-> NoProc]
      /\ \A w \in Wals \ {v} : wal'[w] = wal[w]
  <2>1. wal' = [wal EXCEPT ![v] = [frames |-> @.frames \cup {f}, lock |-> NoProc]]
    BY DEF WriteCommit
  <2>2. wal \in [Wals -> [frames: SUBSET Frame, lock: Process \cup {NoProc}]]
    BY TypeFacts DEF Rowed, FilesTypeOK
  <2> HIDE DEF v, f
  <2> QED
    BY <1>3, <2>1, <2>2
<1>6. conn[p].wal = v
  OBVIOUS
<1> HIDE DEF v, f
<1>7. Tells(p)
  <2>1. Whole(evidence)' /\ Justified(backup)'
    BY <1>1 DEF Rowed, Known, Whole, Justified
  <2>2. Told(p)'
    BY <1>2 DEF Told, At
  <2>3. \A i \in 1..Len(file') : i <= Len(file) /\ file'[i] = file[i]
    BY <1>1, TypeFacts DEF Rowed
  <2>4. f.run \in evidence'[f.table]
    BY <1>1, <1>3, <1>4 DEF Rowed, Known
  <2>5. \A w \in Wals : \A g \in wal'[w].frames : g \in wal[w].frames \/ g = f
    BY <1>5
  <2> QED
    BY <1>1, <2>1, <2>2, <2>3, <2>4, <2>5 DEF Tells
<1>8. CommitsFit'
  <2> SUFFICES ASSUME NEW q \in Process, At(q, "commit")'
               PROVE  CommitFits(q)'
    BY DEF CommitsFit, CommitFits
  <2>1. q # p
    BY <1>2 DEF At
  <2>2. op'[q] = op[q] /\ conn'[q] = conn[q] /\ At(q, "commit")
    BY <1>1, <2>1 DEF Safe, OthersWait, At
  <2>3. conn[q].wal \in Wals /\ wal[conn[q].wal].lock = q /\ wal[v].lock = p
    BY <1>3, <1>6, <2>2, ConnectedFacts DEF At, Connected, Rowed, CommitsFit, CommitFits
  <2>4. wal'[conn[q].wal] = wal[conn[q].wal]
    BY <1>5, <2>1, <2>3
  <2>5. CommitFits(q)
    BY DEF Rowed, CommitsFit
  <2> QED
    BY <1>1, <2>2, <2>4, <2>5 DEF CommitFits, Sane, Visible, At
<1>9. RowsWhole'
  <2>1. \A i \in 1..Len(file) : IsPending(i)' => IsPending(i)
    <3> SUFFICES ASSUME NEW i \in 1..Len(file), IsPending(i)'
                 PROVE  IsPending(i)
      OBVIOUS
    <3>1. i = tmp \/ \E q \in Process : HasCandidate(op'[q]) /\ op'[q].cand = i
      BY <1>1 DEF IsPending, HasCandidate
    <3> QED
      BY <1>1, <3>1 DEF IsPending, Safe, OthersWait, Ordinary
  <2>2. \A w \in Wals : InUse(w)' => InUse(w)
    BY <1>1 DEF InUse
  <2>3. name \in 0..Len(file) /\ Len(file) \in Nat
    BY TypeFacts, WalsAreRecords DEF Rowed
  <2>4. ASSUME NEW w \in Wals, name # 0, InUse(w), file[name].sane, \A g \in wal'[w].frames : g.file = name
        PROVE  Whole(WithFrames(file[name].rows, wal'[w].frames))
    <3>1. file[name].rows \in Rows
      BY <2>3, <2>4, TypeFacts, FilesAreRecords DEF Rowed
    <3>2. CASE w # v
      <4>1. Sane(name, w)
        BY <1>5, <2>4, <3>2 DEF Sane
      <4> QED
        BY <1>5, <2>4, <3>2, <4>1 DEF RowsWhole
    <3>3. CASE w = v
      <4>1. Sane(name, v) /\ conn[p].file = name
        BY <1>4, <1>5, <2>4, <3>3 DEF Sane
      <4>2. Whole(WithFrames(file[name].rows, wal[v].frames))
        BY <2>4, <3>3, <4>1 DEF RowsWhole
      <4>3. op[p].table = "snaps" => op[p].run \in WithFrames(file[name].rows, wal[v].frames).runs
        BY <1>3, <1>6, <4>1 DEF Rowed, CommitsFit, CommitFits, Visible
      <4>4. wal[v].frames \in SUBSET Frame
        BY <1>3, TypeFacts, WalsAreRecords DEF Rowed
      <4>5. Whole(WithFrames(file[name].rows, wal[v].frames \cup {f}))
        BY <1>3, <1>4, <3>1, <4>2, <4>3, <4>4, FrameAdded DEF Whole
      <4> QED
        BY <1>5, <3>3, <4>5
    <3> QED
      BY <3>2, <3>3
  <2>5. (\A i \in 1..Len(file) : (i = name \/ IsPending(i)) /\ file[i].sane => Whole(file[i].rows))'
    BY <1>1, <2>1 DEF RowsWhole, Whole
  <2>6. (\A w \in Wals : name # 0 /\ InUse(w) /\ Sane(name, w) =>
           Whole(WithFrames(file[name].rows, wal[w].frames)))'
    BY <1>1, <2>2, <2>4 DEF Sane, Wals, Whole
  <2> QED
    BY <2>5, <2>6 DEF RowsWhole
<1> QED
  BY <1>7, <1>8, <1>9

-----------------------------------------------------------------------------
(* The index is backed.                                                    *)

RowInv == Inv /\ Known /\ RowsWhole /\ CommitsFit

LEMMA RowsKept ==
  ASSUME RowInv, Inv', NEW p \in Process, OthersWait(p),
         Backs(p) /\ CommitFits(p)'
  PROVE  RowInv'
<1>1. TypeInvariant /\ TypeInvariant'
  BY DEF RowInv, Inv
<1>2. Known'
  BY <1>1, KnownKept DEF RowInv, Backs
<1>3. RowsWhole'
  BY <1>1, RowsWholeKept DEF RowInv, Backs
<1>4. CommitsFit'
  BY <1>1, CommitsFitKept DEF RowInv, Backs
<1> QED
  BY <1>2, <1>3, <1>4 DEF RowInv

LEMMA RowInvActs ==
  ASSUME RowInv, NEW p \in Process, Acts(p)
  PROVE  RowInv'
<1>1. Rowed /\ RowsWhole /\ ReadersSee /\ TypeInvariant /\ Fresh
  BY DEF RowInv, Inv, Rowed
<1>2. Moves(p) /\ ReaderSees(op[p])'
  BY <1>1, EveryoneMoves
<1>3. Inv'
  BY <1>2, InvKept DEF RowInv
<1>4. OthersWait(p)
  BY <1>2 DEF Moves, Safe
<1>5. CASE WriteCommit(p)
  <2>1. Tells(p) /\ RowsWhole' /\ CommitsFit'
    BY <1>1, <1>5, WriteCommitKeeps
  <2>2. Known'
    BY <1>1, <1>3, <1>4, <2>1, KnownKept DEF RowInv, Inv
  <2> QED
    BY <1>3, <2>1, <2>2 DEF RowInv
<1>6. CASE Write(p) /\ ~ WriteCommit(p)
  BY <1>1, <1>3, <1>4, <1>6, WriteOpenBacks, CloseBacks, WriteBeginBacks, RowsKept DEF Write
<1>7. CASE Handoff(p)
  BY <1>1, <1>3, <1>4, <1>7, HandoffOpenBacks, HandoffCheckpointBacks, HandoffCloseBacks,
     HandoffFailBacks, HandoffUnlinkBacks, RowsKept DEF Handoff
<1>8. CASE ReplaceIndex(p)
  <2>1. Backs(p) /\ CommitFits(p)'
    BY <1>1, <1>8, BackupBacks, RollbackStartBacks, RollbackBuildBacks, InstallReplayBacks,
       InstallBackupBacks, ReplaceConnectBacks, ReplaceLockBacks, ReplaceBacks, ReplaceUnlockBacks,
       ReplaceFailBacks, ReplaceCleanBacks, RollbackValidateBacks DEF ReplaceIndex
  <2> QED
    BY <1>3, <1>4, <2>1, RowsKept
<1>9. CASE Rebuild(p)
  BY <1>1, <1>3, <1>4, <1>9, RebuildVerifyBacks, RebuildBuildBacks, RebuildRenameBacks,
     InitStorageBacks, RowsKept DEF Rebuild
<1>10. CASE Read(p) \/ Die(p) \/ Discard
  BY <1>1, <1>3, <1>4, <1>10, ReadBacks, DieBacks, DiscardBacks, RowsKept
<1> QED
  BY <1>5, <1>6, <1>7, <1>8, <1>9, <1>10 DEF Acts

LEMMA RowInvInit ==
  ASSUME Hypotheses, Init
  PROVE  RowInv
<1>1. Inv
  BY InvInit
<1>2. /\ file = <<NewFile(NoRows)>> /\ NewFile(NoRows).rows = NoRows /\ NoRows.runs = {} /\ NoRows.snaps = {}
      /\ evidence = NoRows /\ backup = NoRows /\ name = 1 /\ NoRows \in Rows
      /\ \A w \in Wals : wal[w] = EmptyWal /\ wal[w].frames = {}
      /\ \A p \in Process : op[p].at = "idle"
  BY DEF Init, FilesInit, NewFile, NoRows, EmptyWal, Idle, Rows
<1>3. Len(file) = 1 /\ \A i \in 1..Len(file) : file[i].rows = NoRows
  BY <1>2
<1>4. Known
  BY <1>2, <1>3 DEF Known, Whole, Justified, At
<1>5. CommitsFit
  BY <1>2 DEF CommitsFit, CommitFits, At
<1>6. RowsWhole
  <2>1. WithFrames(NoRows, {}) = NoRows /\ Whole(NoRows)
    BY <1>2, NoFramesNoRows DEF Whole
  <2> QED
    BY <1>2, <1>3, <2>1 DEF RowsWhole
<1> QED
  BY <1>1, <1>4, <1>5, <1>6 DEF RowInv

LEMMA RowInvNext ==
  ASSUME RowInv, [Next]_vars
  PROVE  RowInv'
<1>1. Inv'
  BY InvNext DEF RowInv
<1>2. ASSUME UNCHANGED <<file, wal, evidence, tmp, backup, op, conn>>,
             (name' = name /\ walAt' = walAt) \/ (Process = {} /\ name' = 0)
      PROVE  RowInv'
  <2>1. Known'
    BY <1>2 DEF RowInv, Known, Whole, Justified, At, Wals
  <2>2. CommitsFit'
    BY <1>2 DEF RowInv, CommitsFit, CommitFits, At, Visible, Sane
  <2>3. \A i : IsPending(i)' => IsPending(i)
    BY <1>2 DEF IsPending, HasCandidate
  <2>4. Len(file) \in Nat
    BY TypeFacts DEF RowInv, Inv
  <2>5. (\A i \in 1..Len(file) : (i = name \/ IsPending(i)) /\ file[i].sane => Whole(file[i].rows))'
    BY <1>2, <2>3, <2>4 DEF RowInv, RowsWhole, Whole
  <2>6. (\A w \in Wals : name # 0 /\ InUse(w) /\ Sane(name, w) =>
           Whole(WithFrames(file[name].rows, wal[w].frames)))'
    BY <1>2 DEF RowInv, RowsWhole, InUse, Sane, Wals, Whole
  <2> QED
    BY <1>1, <2>1, <2>2, <2>5, <2>6 DEF RowInv, RowsWhole
<1>3. CASE Discard
  <2>1. CASE Process = {}
    BY <1>2, <1>3, <2>1 DEF Discard
  <2>2. CASE Process # {}
    BY <1>3, <2>2, RowInvActs DEF Acts
  <2> QED
    BY <2>1, <2>2
<1>4. CASE UNCHANGED vars
  BY <1>2, <1>4 DEF vars
<1> QED
  BY <1>3, <1>4, RowInvActs DEF Next, Acts

LEMMA RowsAlways == ASSUME Hypotheses PROVE Spec => []RowInv
<1>1. Init => RowInv
  BY RowInvInit
<1>2. RowInv /\ [Next]_vars => RowInv'
  BY RowInvNext
<1> QED
  BY <1>1, <1>2, PTL DEF Spec

\* Whatever commands run, race, give up or die, and whichever file state.db
\* names: a row it shows has Evidence, and a Snapshot row has its Run's row
\* (IndexBacked).
THEOREM IndexStaysBacked == ASSUME Hypotheses PROVE Spec => []IndexBacked
<1>1. RowInv => IndexBacked
  <2> SUFFICES ASSUME RowInv, name # 0, TruthSane
               PROVE  Justified(Truth) /\ Whole(Truth)
    BY DEF IndexBacked, Justified, Whole
  <2>1. name \in 1..Len(file) /\ walAt \in {0} \cup Wals
    BY TypeFacts, WalsAreRecords DEF RowInv, Inv
  <2>2. Justified(Truth)
    BY TruthIsJustified DEF RowInv, Inv, Rowed
  <2>3. Whole(Truth)
    BY <2>1 DEF RowInv, RowsWhole, InUse, Truth, TruthSane
  <2> QED
    BY <2>2, <2>3
<1> QED
  BY <1>1, RowsAlways, PTL

-----------------------------------------------------------------------------
(* A rollback, where the operator replaces the index one command at a time *)
(* and no hand-off and no rebuild-index runs beside it.                    *)

RollbackHypotheses == Hypotheses /\ Serial /\ Commands \cap {"handoff", "rebuild"} = {}

Elsewhere == {"handoff", "handoff_close", "handoff_unlink", "rebuild", "rename"}
AloneReplacing ==
  \A p, q \in Process : op[p].at \in Replacing /\ op[q].at \in Replacing => p = q
OnlyReplacing == \A p \in Process : op[p].at \notin Elsewhere

\* A rollback with its candidate built: as long as the stamp is that of its
\* digest, the candidate has the Run rows of the index, and from the lock on
\* nobody else changes the file or writes frames.
RollingBack(p) == op[p].at \in {"connect", "lock", "replace"} /\ op[p].how = "rollback"
Holding(p) ==
  /\ tmp # 0 /\ name # 0 /\ name = op[p].digest[1] /\ op[p].digest[2] <= file[name].stamp
  /\ file[name].stamp = op[p].digest[2] => file[tmp].rows.runs = file[name].rows.runs
  /\ ~ At(p, "connect") => conn[p] = [file |-> name, wal |-> walAt]
  /\ At(p, "replace") =>
       file[name].stamp = op[p].digest[2] /\ wal[walAt] = [frames |-> {}, lock |-> p]
RollbackHolds == \A p \in Process : RollingBack(p) => Holding(p)

\* What the step of a process that replaces nothing leaves to a rollback.
Yields(q) ==
  /\ name' = name /\ tmp' = tmp
  /\ tmp # 0 => file'[tmp] = file[tmp]
  /\ \A p \in Process \ {q} : conn[p] = [file |-> name, wal |-> walAt] /\ walAt # 0 =>
       /\ walAt' = walAt
       /\ wal[walAt].lock = p => file' = file /\ wal'[walAt] = wal[walAt]
Aside(q) == op'[q].at \notin Replacing /\ op'[q].at \notin Elsewhere

LEMMA RollbackAt ==
  ASSUME TypeInvariant, NEW p \in Process, RollingBack(p)
  PROVE  /\ op[p] \in Swaps /\ op[p].digest[1] \in Nat /\ op[p].digest[2] \in Nat
         /\ ~ At(p, "connect") => conn[p].wal \in Wals /\ conn[p].wal # 0
<1>1. op[p] \in Swaps
  BY KnownAt, TypeFacts DEF RollingBack, Swapping
<1>2. op[p].digest \in Digests
  BY <1>1 DEF Swaps
<1>3. ~ At(p, "connect") => conn[p].wal \in Wals /\ conn[p].wal # 0
  BY ConnectedFacts DEF RollingBack, At, Connected
<1> QED
  BY <1>1, <1>2, <1>3 DEF Digests

LEMMA CandidateApart ==
  ASSUME Rowed, tmp # 0
  PROVE  tmp \in 1..Len(file) /\ tmp # name
BY TypeFacts DEF Rowed, Fresh, Untouched

LEMMA HoldingKept ==
  ASSUME Rowed, RollbackHolds, NEW q \in Process, Safe(q), Yields(q),
         NEW p \in Process \ {q}, RollingBack(p)'
  PROVE  Holding(p)'
<1>1. /\ op'[p] = op[p] /\ conn'[p] = conn[p] /\ RollingBack(p)
      /\ At(p, "connect")' = At(p, "connect") /\ At(p, "replace")' = At(p, "replace")
  BY DEF Safe, OthersWait, RollingBack, At
<1>2. Holding(p)
  BY <1>1 DEF RollbackHolds
<1>3. op[p].digest[2] \in Nat /\ (~ At(p, "connect") => walAt # 0)
  BY <1>1, <1>2, RollbackAt DEF Rowed, Holding
<1>4. tmp \in 1..Len(file) /\ tmp # name /\ name \in 1..Len(file)
  BY <1>2, CandidateApart, TypeFacts, WalsAreRecords DEF Rowed, Holding
<1>5. /\ file[name].stamp \in Nat /\ file'[name].stamp \in Nat
      /\ file'[name].stamp >= file[name].stamp
      /\ file'[name].stamp = file[name].stamp => file'[name].rows = file[name].rows
  <2>1. TypeInvariant /\ TypeInvariant' /\ FilesGrow
    BY DEF Rowed, Safe, FilesMove
  <2>2. Len(file) \in Nat /\ Len(file') \in Nat /\ name \in 1..Len(file')
    <3>1. Len(file) \in Nat /\ Len(file') >= Len(file)
      BY <2>1, TypeFacts DEF FilesGrow
    <3>2. Len(file') \in Nat
      BY <2>1 DEF TypeInvariant, IndexTypeOK, FilesTypeOK
    <3> QED
      BY <1>4, <3>1, <3>2
  <2>3. file[name].stamp \in Nat
    BY <1>4, <2>1, TypeFacts, FilesAreRecords
  <2>4. file' \in Seq(FileRecord)
    BY <2>1 DEF TypeInvariant, IndexTypeOK, FilesTypeOK, FileRecord
  <2>5. \A i \in 1..Len(file') : file'[i].stamp \in Nat
    <3>1. \A i \in 1..Len(file') : file'[i] \in FileRecord
      BY <2>4
    <3> QED
      BY <3>1 DEF FileRecord
  <2> QED
    BY <1>4, <2>1, <2>2, <2>3, <2>5 DEF FilesGrow
<1>6. name' = name /\ tmp' = tmp /\ file'[tmp] = file[tmp]
  BY <1>2 DEF Yields, Holding
<1>7. ~ At(p, "connect") => /\ walAt' = walAt
                            /\ wal[walAt].lock = p => file' = file /\ wal'[walAt] = wal[walAt]
  BY <1>2, <1>3 DEF Yields, Holding
<1>8. /\ tmp' # 0 /\ name' # 0 /\ name' = op'[p].digest[1] /\ op'[p].digest[2] <= file'[name'].stamp
      /\ file'[name'].stamp = op'[p].digest[2] => file'[tmp'].rows.runs = file'[name'].rows.runs
  BY <1>1, <1>2, <1>3, <1>5, <1>6 DEF Holding
<1>9. ~ At(p, "connect")' => conn'[p] = [file |-> name', wal |-> walAt']
  BY <1>1, <1>2, <1>6, <1>7 DEF Holding
<1>10. At(p, "replace")' =>
         file'[name'].stamp = op'[p].digest[2] /\ wal'[walAt'] = [frames |-> {}, lock |-> p]
  <2> SUFFICES ASSUME At(p, "replace")
               PROVE  file'[name'].stamp = op'[p].digest[2] /\ wal'[walAt'] = [frames |-> {}, lock |-> p]
    BY <1>1
  <2>1. ~ At(p, "connect") /\ wal[walAt].lock = p
    BY <1>2 DEF Holding, At
  <2> QED
    BY <1>1, <1>2, <1>6, <1>7, <2>1 DEF Holding
<1> QED
  BY <1>8, <1>9, <1>10 DEF Holding

-----------------------------------------------------------------------------
(* Who replaces nothing yields.                                            *)

LEMMA WriterYields ==
  ASSUME Rowed, NEW q \in Process, Write(q)
  PROVE  Yields(q) /\ Aside(q)
<1>1. TypeInvariant /\ FilesTypeOK /\ OpTypeOK /\ FilesAssumption
  BY TypeFacts DEF Rowed
<1>2. CASE WriteOpen(q)
  <2>1. op'[q].at = "begin" /\ conn[q] = Closed
    BY <1>1, <1>2, GoesTo, TypeFacts DEF WriteOpen, Ready, At, Fit, Connected
  <2>2. name' = name /\ file' = file /\ (walAt # 0 => walAt' = walAt /\ wal' = wal)
    BY <1>1, <1>2, <2>1, AttachDoes DEF WriteOpen
  <2> QED
    BY <1>2, <2>1, <2>2 DEF WriteOpen, Yields, Aside, Replacing, Elsewhere
<1>3. ASSUME NEW table \in {"runs", "snaps"}, NEW r \in Run, WriteBegin(q, table, r)
      PROVE  Yields(q) /\ Aside(q)
  <2>1. op'[q].at = "commit"
    BY <1>1, <1>3, GoesTo DEF WriteBegin
  <2>2. \A p \in Process : wal[walAt].lock = p => conn[q].wal # walAt
    BY <1>1, <1>3 DEF WriteBegin, FilesAssumption
  <2>3. conn[q].wal \in Wals
    BY <1>1, <1>3, ConnectedFacts DEF WriteBegin, At, Connected
  <2>4. \A w : w # conn[q].wal => wal'[w] = wal[w]
    BY <1>1, <1>3, <2>3 DEF WriteBegin, FilesTypeOK
  <2> QED
    BY <1>3, <2>1, <2>2, <2>4 DEF WriteBegin, Yields, Aside, Replacing, Elsewhere
<1>4. CASE WriteCommit(q)
  <2>1. op'[q].at = "close"
    BY <1>1, <1>4, GoesTo DEF WriteCommit
  <2>2. wal[conn[q].wal].lock = q /\ conn[q].wal \in Wals
    BY <1>1, <1>4, ConnectedFacts DEF WriteCommit, At, Connected, Rowed, CommitsFit, CommitFits
  <2>3. \A w : w # conn[q].wal => wal'[w] = wal[w]
    BY <1>1, <1>4, <2>2 DEF WriteCommit, FilesTypeOK
  <2>4. \A p \in Process \ {q} : wal[walAt].lock = p => wal'[walAt] = wal[walAt]
    BY <2>2, <2>3
  <2> QED
    BY <1>4, <2>1, <2>4 DEF WriteCommit, Yields, Aside, Replacing, Elsewhere
<1>5. CASE Close(q)
  <2>1. op'[q].at = "idle"
    BY <1>1, <1>5, GoesTo DEF Close, Idle
  <2>2. conn[q].file # 0 /\ conn[q].wal # 0
    BY <1>1, <1>5, ConnectedFacts DEF Close, Connected
  <2>3. /\ FilesTypeOK' /\ name' = name /\ Len(file') = Len(file)
        /\ \A w \in Wals : /\ wal'[w].frames = wal[w].frames
                           /\ wal[w].lock # q => wal'[w].lock = wal[w].lock
        /\ \/ file' = file /\ walAt' = walAt
           \/ LastOn(q) /\ \A i \in 1..Len(file) \ {name} : file'[i] = file[i]
    BY <1>1, <1>5, <2>2, DetachDoes DEF Close
  <2>4. tmp # 0 => file'[tmp] = file[tmp]
    BY <2>3, CandidateApart
  <2>5. \A p \in Process \ {q} : conn[p].file = name => file' = file /\ walAt' = walAt
    BY <2>3 DEF LastOn
  <2>6. \A w \in Wals : wal[w].lock # q => wal'[w] = wal[w]
    <3>1. \A w \in Wals : wal[w] = [frames |-> wal[w].frames, lock |-> wal[w].lock]
      BY <1>1, WalsAreRecords
    <3>2. \A w \in Wals : wal'[w] = [frames |-> wal'[w].frames, lock |-> wal'[w].lock]
      <4>1. wal' \in [Wals -> [frames: SUBSET Frame, lock: Process \cup {NoProc}]]
        BY <2>3 DEF FilesTypeOK, Wals, Frame
      <4> QED
        BY <4>1
    <3> QED
      BY <2>3, <3>1, <3>2
  <2>7. walAt \in {0} \cup Wals
    BY <1>1, WalsAreRecords
  <2>8. ASSUME NEW p \in Process \ {q}, conn[p] = [file |-> name, wal |-> walAt], walAt # 0
        PROVE  /\ walAt' = walAt
               /\ wal[walAt].lock = p => file' = file /\ wal'[walAt] = wal[walAt]
    BY <2>5, <2>6, <2>7, <2>8
  <2> QED
    BY <1>5, <2>1, <2>3, <2>4, <2>8 DEF Close, Yields, Aside, Replacing, Elsewhere
<1> QED
  BY <1>2, <1>3, <1>4, <1>5 DEF Write

LEMMA BackupYields ==
  ASSUME Rowed, NEW q \in Process, Backup(q)
  PROVE  Yields(q) /\ Aside(q)
<1>1. /\ FilesTypeOK /\ FilesAssumption /\ name # 0 /\ name' = name /\ tmp' = tmp /\ op' = op
      /\ file' = SettledFile /\ wal' = SettledWal /\ walAt' = SettledAt
  BY TypeFacts DEF Rowed, Backup, Quiet, Settled
<1>2. /\ \A i \in 1..Len(file) \ {name} : SettledFile[i] = file[i]
      /\ walAt' = IF Alone THEN 0 ELSE IF walAt = 0 THEN FreeWal ELSE walAt
  BY <1>1, SettledDoes
<1>3. tmp # 0 => file'[tmp] = file[tmp]
  BY <1>1, <1>2, CandidateApart
<1>4. \A p \in Process : walAt # 0 => wal[walAt].lock # p
  BY <1>1 DEF Backup, Quiet, FilesAssumption
<1>5. \A p \in Process : conn[p].file = name => ~ Alone
  BY DEF Alone
<1>6. ASSUME NEW p \in Process \ {q}, conn[p] = [file |-> name, wal |-> walAt], walAt # 0
      PROVE  walAt' = walAt
  BY <1>2, <1>5, <1>6
<1> QED
  BY <1>1, <1>3, <1>4, <1>6 DEF Yields, Aside, Backup, Ready, At, Replacing, Elsewhere

LEMMA ReaderYields ==
  ASSUME Rowed, NEW q \in Process, Read(q)
  PROVE  Yields(q) /\ Aside(q)
<1>1. UNCHANGED fileVars /\ tmp' = tmp
  BY DEF Read, ReadStart, ReadInventory, ReadFingerprint, ReadOpen, ReadAdmit, ReadSidecars, ReadRows,
     ReadDone, ReleaseFingerprint, ReleaseSidecars, ReleaseInventory, ReadEnd
<1>2. Aside(q)
  <2>1. CASE ReadStart(q) \/ ReadInventory(q) \/ ReadFingerprint(q) \/ ReadOpen(q) \/ ReadEnd(q)
             \/ ReadSidecars(q)
    BY <2>1, GoesTo, TypeFacts DEF Rowed, ReadStart, ReadInventory, ReadFingerprint, ReadOpen, ReadEnd,
       ReadSidecars, Idle, Aside, Replacing, Elsewhere
  <2>2. CASE ReadAdmit(q) \/ ReadDone(q) \/ ReleaseFingerprint(q) \/ ReleaseSidecars(q)
             \/ ReleaseInventory(q)
    BY <2>2, StepsTo, TypeFacts DEF Rowed, ReadAdmit, ReadDone, ReleaseFingerprint, ReleaseSidecars,
       ReleaseInventory, Aside, Replacing, Elsewhere
  <2>3. CASE ReadRows(q)
    <3>1. op[q] \in Reads /\ op[q].at = "reading"
      BY <2>3, KnownAt, TypeFacts DEF ReadRows, At, Reading, Rowed
    <3>2. op'[q].at = "reading"
      BY <2>3, <3>1, TypeFacts DEF ReadRows, Reads, Rowed, OpTypeOK
    <3> QED
      BY <3>2 DEF Aside, Replacing, Elsewhere
  <2> QED
    BY <2>1, <2>2, <2>3 DEF Read
<1> QED
  BY <1>1, <1>2 DEF Yields, fileVars

LEMMA DeathYields ==
  ASSUME Rowed, NEW q \in Process, Die(q)
  PROVE  Yields(q) /\ Aside(q)
<1>1. FilesTypeOK /\ OpTypeOK /\ tmp' = tmp
  BY TypeFacts DEF Rowed, Die
<1>2. op'[q].at = "idle"
  BY <1>1, GoesTo DEF Die, Idle
<1>3. /\ FilesTypeOK' /\ name' = name /\ file' = file /\ walAt' = walAt
      /\ \A w \in Wals : /\ wal'[w].frames = wal[w].frames
                         /\ wal[w].lock # q => wal'[w].lock = wal[w].lock
  BY <1>1, VanishDoes DEF Die
<1>4. \A w \in Wals : wal[w].lock # q => wal'[w] = wal[w]
  <2>1. \A w \in Wals : wal[w] = [frames |-> wal[w].frames, lock |-> wal[w].lock]
    BY <1>1, WalsAreRecords
  <2>2. wal' \in [Wals -> [frames: SUBSET Frame, lock: Process \cup {NoProc}]]
    BY <1>3 DEF FilesTypeOK, Wals, Frame
  <2>3. \A w \in Wals : wal'[w] = [frames |-> wal'[w].frames, lock |-> wal'[w].lock]
    BY <2>2
  <2> QED
    BY <1>3, <2>1, <2>3
<1>5. walAt \in {0} \cup Wals
  BY <1>1, WalsAreRecords
<1> QED
  BY <1>1, <1>2, <1>3, <1>4, <1>5 DEF Yields, Aside, Replacing, Elsewhere

-----------------------------------------------------------------------------
(* Who replaces the index is the only one who does.                        *)

Alternatives(q) ==
  \/ RollbackBuild(q) \/ InstallBackup(q) \/ ReplaceConnect(q) \/ ReplaceLock(q) \/ Replace(q)
  \/ ReplaceUnlock(q) \/ ReplaceFail(q) \/ ReplaceClean(q) \/ RollbackValidate(q)

LEMMA BuildHolds ==
  ASSUME Rowed, NEW q \in Process, RollbackBuild(q)
  PROVE  op'[q].at \notin Elsewhere /\ (RollingBack(q)' => Holding(q)') /\ name' = name
<1>1. /\ name \in 1..Len(file) /\ walAt \in {0} \cup Wals /\ 0 \notin Wals
      /\ SettledFile[name] = Merged(name, PathFrames) /\ PathFrames \in SUBSET Frame
      /\ tmp # name => file'[name] = SettledFile[name]
      /\ FilesTypeOK /\ Len(file) \in Nat /\ name' = name
  BY BuildDoes, TypeFacts, WalsAreRecords DEF Rowed, RollbackBuild
<1>2. tmp # name
  BY <1>1, CandidateApart
<1>3. CASE op'[q] = Idle
  BY <1>1, <1>3 DEF Idle, Elsewhere, RollingBack
<1>4. CASE /\ op'[q] = [at |-> "connect", how |-> "rollback", cand |-> tmp',
                       digest |-> FileDigest(SettledFile)]
           /\ file'[tmp'].rows = BuiltRows(op[q])
           /\ \/ tmp = 0 /\ tmp' = Len(file) + 1 /\ Len(file') = Len(file) + 1
              \/ tmp # 0 /\ tmp' = tmp /\ Len(file') = Len(file)
  <2>1. /\ op'[q].at = "connect" /\ op'[q].digest[1] = name
        /\ op'[q].digest[2] = SettledFile[name].stamp
    BY <1>4 DEF FileDigest
  <2>2. file'[name] = SettledFile[name] /\ tmp' # 0
    BY <1>1, <1>2, <1>4
  <2>3. SettledFile[name].stamp \in Nat
    <3>1. Merged(name, PathFrames) \in FileRecord
      BY <1>1, MergedDoes
    <3> QED
      BY <1>1, <3>1 DEF FileRecord
  <2>4. SettledFile[name].rows.runs = Truth.runs
    <3>1. SettledFile[name].rows = WithFrames(file[name].rows, PathFrames)
      BY <1>1, MergedDoes
    <3>2. CASE walAt = 0
      <4>1. file[name].rows \in Rows
        BY <1>1, FilesAreRecords
      <4> QED
        BY <3>1, <3>2, <4>1, NoFramesNoRows DEF Truth, PathFrames
    <3>3. CASE walAt # 0
      BY <3>1, <3>3 DEF Truth, PathFrames
    <3> QED
      BY <3>2, <3>3
  <2>5. file'[tmp'].rows.runs = Truth.runs
    BY <1>4 DEF BuiltRows
  <2> QED
    BY <1>1, <2>1, <2>2, <2>3, <2>4, <2>5 DEF Holding, At, Elsewhere
<1> QED
  BY <1>3, <1>4, BuildDoes DEF Rowed

LEMMA ConnectHolds ==
  ASSUME Rowed, RollbackHolds, NEW q \in Process, ReplaceConnect(q)
  PROVE  op'[q].at \notin Elsewhere /\ (RollingBack(q)' => Holding(q)') /\ name' = name
<1>1. op[q] \in Swaps /\ op[q].at = "connect" /\ conn[q] = Closed
  BY KnownAt, TypeFacts DEF Rowed, ReplaceConnect, At, Swapping, Fit, Connected
<1>2. /\ op'[q].at = "lock" /\ op'[q].how = op[q].how /\ op'[q].digest = op[q].digest
  BY <1>1, TypeFacts DEF Rowed, ReplaceConnect, Step, Swaps, OpTypeOK
<1>3. /\ name' = name /\ file' = file /\ conn'[q] = [file |-> name, wal |-> walAt'] /\ tmp' = tmp
  BY <1>1, AttachDoes, TypeFacts DEF Rowed, ReplaceConnect
<1>4. RollingBack(q)' => Holding(q)
  BY <1>1, <1>2 DEF RollingBack, RollbackHolds
<1> QED
  BY <1>2, <1>3, <1>4 DEF Holding, At, Elsewhere

LEMMA LockHolds ==
  ASSUME Rowed, RollbackHolds, NEW q \in Process, ReplaceLock(q)
  PROVE  op'[q].at \notin Elsewhere /\ (RollingBack(q)' => Holding(q)') /\ name' = name
<1>1. op[q] \in Swaps /\ op[q].at = "lock" /\ FilesTypeOK
  BY KnownAt, TypeFacts DEF Rowed, ReplaceLock, At, Swapping
<1>2. /\ op'[q].at = "replace" /\ op'[q].how = op[q].how /\ op'[q].digest = op[q].digest
  BY <1>1, TypeFacts DEF Rowed, ReplaceLock, Step, Swaps, OpTypeOK
<1>3. UNCHANGED <<name, walAt, conn, tmp>> /\ file' = Checkpointed(q)
  BY DEF ReplaceLock
<1>4. ASSUME RollingBack(q)'
      PROVE  Holding(q)'
  <2>1. Holding(q) /\ RollingBack(q)
    BY <1>1, <1>2, <1>4 DEF RollingBack, RollbackHolds
  <2>2. conn[q].file = name /\ conn[q].wal = walAt /\ walAt \in Wals /\ op[q].digest[2] \in Nat
    BY <1>1, <2>1, RollbackAt DEF Holding, At, Rowed
  <2>3. /\ name \in 1..Len(file) /\ wal[walAt].frames \in SUBSET Frame
        /\ Checkpointed(q)[name] = Merged(name, wal[walAt].frames)
        /\ \A i \in 1..Len(file) \ {name} : Checkpointed(q)[i] = file[i]
    <3>1. conn[q].file # 0 /\ conn[q].wal # 0
      BY <1>1, ConnectedFacts DEF Rowed, Connected
    <3> QED
      BY <1>1, <2>2, <3>1, CheckpointDoes, WalsAreRecords
  <2>4. tmp \in 1..Len(file) /\ tmp # name /\ file'[tmp] = file[tmp]
    BY <1>3, <2>1, <2>3, CandidateApart DEF Holding
  <2>5. file[name].stamp \in Nat
    BY <1>1, <2>3, FilesAreRecords
  <2>6. file'[name].stamp = op[q].digest[2]
    BY <1>3, <2>2 DEF ReplaceLock, SameOfficial, FileDigest
  <2>7. file'[name] = file[name]
    <3>1. /\ Merged(name, wal[walAt].frames).stamp >= file[name].stamp
          /\ Merged(name, wal[walAt].frames).stamp = file[name].stamp => wal[walAt].frames = {}
          /\ wal[walAt].frames = {} => Merged(name, wal[walAt].frames) = file[name]
      BY <1>1, <2>3, MergedDoes
    <3>2. op[q].digest[2] <= file[name].stamp
      BY <2>1 DEF Holding
    <3> HIDE DEF Merged
    <3>3. file'[name] = Merged(name, wal[walAt].frames)
      BY <1>3, <2>3
    <3> QED
      BY <2>2, <2>5, <2>6, <3>1, <3>2, <3>3
  <2>8. wal'[walAt] = [frames |-> {}, lock |-> q]
    BY <1>1, <2>2 DEF ReplaceLock, FilesTypeOK
  <2>9. conn[q] = [file |-> name, wal |-> walAt]
    BY <1>1, <2>1 DEF Holding, At
  <2> QED
    BY <1>2, <1>3, <2>1, <2>4, <2>6, <2>7, <2>8, <2>9 DEF Holding, At
<1> QED
  BY <1>2, <1>3, <1>4 DEF Elsewhere

LEMMA ReplaceDoes ==
  ASSUME Rowed, RollbackHolds, NEW q \in Process, Replace(q)
  PROVE  /\ op'[q].at = "unlock"
         /\ op[q].how = "rollback" => file[name'].rows.runs = Truth.runs /\ file' = file
<1>1. op'[q].at = "unlock" /\ op[q].at = "replace" /\ file' = file
  BY StepsTo, TypeFacts DEF Replace, At, Rowed
<1>2. ASSUME op[q].how = "rollback"
      PROVE  file[name'].rows.runs = Truth.runs
  <2>1. RollingBack(q) /\ Holding(q)
    BY <1>1, <1>2 DEF RollingBack, RollbackHolds
  <2>2. /\ name' = tmp /\ wal[walAt].frames = {} /\ walAt # 0
        /\ file[tmp].rows.runs = file[name].rows.runs
    BY <1>1, <1>2, <2>1, RollbackAt DEF Replace, Holding, At, Rowed
  <2>3. file[name].rows \in Rows
    BY <2>1, TypeFacts, WalsAreRecords, FilesAreRecords DEF Holding, Rowed
  <2> QED
    BY <2>2, <2>3, NoFramesNoRows DEF Truth
<1> QED
  BY <1>1, <1>2

LEMMA AlternativesHold ==
  ASSUME Rowed, AloneReplacing, RollbackHolds, NEW q \in Process, Alternatives(q)
  PROVE  /\ \A p \in Process \ {q} : op[p].at \notin Replacing
         /\ op'[q].at \notin Elsewhere /\ (RollingBack(q)' => Holding(q)')
         /\ Replace(q) \/ name' = name
<1>1. op[q].at \in Replacing
  BY DEF Alternatives, RollbackBuild, InstallBackup, ReplaceConnect, ReplaceLock, Replace,
     ReplaceUnlock, ReplaceFail, ReplaceClean, RollbackValidate, At, Replacing
<1>2. \A p \in Process \ {q} : op[p].at \notin Replacing
  BY <1>1 DEF AloneReplacing
<1>3. CASE RollbackBuild(q) \/ ReplaceConnect(q) \/ ReplaceLock(q)
  BY <1>2, <1>3, BuildHolds, ConnectHolds, LockHolds
<1>4. CASE InstallBackup(q)
  <2>1. op'[q] = [at |-> "connect", how |-> "install", cand |-> op[q].cand,
                  digest |-> FileDigest(SettledFile)]
    BY <1>4, GoesTo, TypeFacts DEF InstallBackup, Rowed
  <2>2. op'[q].at = "connect" /\ op'[q].how = "install"
    BY <2>1
  <2> QED
    BY <1>2, <1>4, <2>2 DEF RollingBack, Elsewhere, InstallBackup
<1>5. CASE Replace(q)
  BY <1>2, <1>5, ReplaceDoes DEF RollingBack, Elsewhere
<1>6. CASE ReplaceUnlock(q) \/ ReplaceFail(q) \/ ReplaceClean(q) \/ RollbackValidate(q)
  <2>1. op'[q].at \in {"clean", "validate", "idle"}
    <3>1. OpTypeOK
      BY TypeFacts DEF Rowed
    <3>2. ReplaceUnlock(q) => op'[q].at = "clean"
      BY <3>1, StepsTo DEF ReplaceUnlock
    <3>3. ReplaceFail(q) \/ RollbackValidate(q) => op'[q] = Idle
      BY <3>1, GoesTo DEF ReplaceFail, RollbackValidate
    <3>4. ReplaceClean(q) => op'[q].at = "validate" \/ op'[q] = Idle
      BY <3>1, GoesTo, StepsTo DEF ReplaceClean
    <3> QED
      BY <1>6, <3>2, <3>3, <3>4 DEF Idle
  <2>2. name' = name
    BY <1>6 DEF ReplaceUnlock, ReplaceFail, ReplaceClean, RollbackValidate, Detach, fileVars
  <2> QED
    BY <1>2, <2>1, <2>2 DEF RollingBack, Elsewhere
<1> QED
  BY <1>3, <1>4, <1>5, <1>6 DEF Alternatives

LEMMA StartsAlone ==
  ASSUME Rowed, Serial, NEW q \in Process, RollbackStart(q) \/ InstallReplay(q)
  PROVE  /\ \A p \in Process \ {q} : op[p].at \notin Replacing
         /\ op'[q].at \notin Elsewhere /\ ~ RollingBack(q)' /\ name' = name
<1>1. \A p \in Process : op[p].at \notin Replacing
  BY DEF RollbackStart, InstallReplay, ReadyToReplace
<1>2. op'[q].at \in {"build", "secure"}
  BY GoesTo, TypeFacts DEF Rowed, RollbackStart, InstallReplay
<1> QED
  BY <1>1, <1>2 DEF RollingBack, Elsewhere, RollbackStart, InstallReplay, fileVars

-----------------------------------------------------------------------------
(* Every step, and the property.                                           *)

RollbackInv == RowInv /\ AloneReplacing /\ OnlyReplacing /\ RollbackHolds

\* The step of a process that replaces nothing.
LEMMA AsideHolds ==
  ASSUME Rowed, AloneReplacing, OnlyReplacing, RollbackHolds, NEW q \in Process, Safe(q),
         Yields(q), Aside(q)
  PROVE  AloneReplacing' /\ OnlyReplacing' /\ RollbackHolds'
<1>1. \A p \in Process \ {q} : op'[p] = op[p]
  BY DEF Safe, OthersWait
<1>2. \A p \in Process : /\ op'[p].at \in Replacing => op[p].at \in Replacing
                         /\ op'[p].at \notin Elsewhere
  BY <1>1 DEF Aside, OnlyReplacing
<1>3. RollbackHolds'
  <2> SUFFICES ASSUME NEW p \in Process, RollingBack(p)'
               PROVE  Holding(p)'
    BY DEF RollbackHolds
  <2>1. p # q
    BY DEF Aside, RollingBack, Replacing
  <2> QED
    BY <2>1, HoldingKept
<1> QED
  BY <1>2, <1>3 DEF AloneReplacing, OnlyReplacing

LEMMA LoneHolds ==
  ASSUME OnlyReplacing, NEW q \in Process, OthersWait(q),
         \A p \in Process \ {q} : op[p].at \notin Replacing,
         op'[q].at \notin Elsewhere, RollingBack(q)' => Holding(q)'
  PROVE  AloneReplacing' /\ OnlyReplacing' /\ RollbackHolds'
<1>1. \A p \in Process \ {q} : op'[p] = op[p]
  BY DEF OthersWait
<1>2. \A p \in Process \ {q} : ~ RollingBack(p)'
  BY <1>1 DEF RollingBack, Replacing
<1> QED
  BY <1>1, <1>2 DEF AloneReplacing, OnlyReplacing, RollbackHolds

LEMMA RollbackActs ==
  ASSUME RollbackInv, RollbackHypotheses, NEW q \in Process, Acts(q)
  PROVE  RollbackInv' /\ RollbackStep
<1>1. /\ Rowed /\ RowsWhole /\ ReadersSee /\ TypeInvariant /\ Fresh
      /\ AloneReplacing /\ OnlyReplacing /\ RollbackHolds /\ Serial
  BY DEF RollbackInv, RollbackHypotheses, RowInv, Inv, Rowed
<1>2. Moves(q) /\ RowInv'
  BY <1>1, EveryoneMoves, RowInvActs DEF RollbackInv
<1>3. Safe(q) /\ OthersWait(q)
  BY <1>2 DEF Moves, Safe
<1>4. ASSUME Yields(q), Aside(q)
      PROVE  RollbackInv' /\ RollbackStep
  BY <1>1, <1>2, <1>3, <1>4, AsideHolds DEF RollbackInv, Yields, RollbackStep
<1>5. CASE Write(q) \/ Read(q) \/ Die(q) \/ Backup(q)
  BY <1>1, <1>4, <1>5, WriterYields, ReaderYields, DeathYields, BackupYields
<1>6. CASE RollbackStart(q) \/ InstallReplay(q)
  <2>1. AloneReplacing' /\ OnlyReplacing' /\ RollbackHolds' /\ name' = name
    BY <1>1, <1>3, <1>6, StartsAlone, LoneHolds
  <2> QED
    BY <1>2, <2>1 DEF RollbackInv, RollbackStep
<1>7. CASE Alternatives(q)
  <2>1. /\ \A p \in Process \ {q} : op[p].at \notin Replacing
        /\ op'[q].at \notin Elsewhere /\ (RollingBack(q)' => Holding(q)')
        /\ Replace(q) \/ name' = name
    BY <1>1, <1>7, AlternativesHold
  <2>2. AloneReplacing' /\ OnlyReplacing' /\ RollbackHolds'
    BY <1>1, <1>3, <2>1, LoneHolds
  <2>3. RollbackStep
    <3> SUFFICES ASSUME NEW p \in Process, At(p, "replace"), op[p].how = "rollback", name' # name
                 PROVE  file[name'].rows.runs = Truth.runs
      BY DEF RollbackStep
    <3>1. p = q /\ Replace(q)
      BY <2>1 DEF At, Replacing
    <3> QED
      BY <1>1, <3>1, ReplaceDoes
  <2> QED
    BY <1>2, <2>2, <2>3 DEF RollbackInv
<1>8. ~ Handoff(q) /\ ~ RebuildVerify(q) /\ ~ RebuildBuild(q) /\ ~ RebuildRename(q)
  BY <1>1 DEF RollbackHypotheses, OnlyReplacing, Elsewhere, Handoff, HandoffOpen, HandoffCheckpoint,
     HandoffClose, HandoffFail, HandoffUnlink, RebuildVerify, RebuildBuild, RebuildRename, Ready, At
<1>9. CASE InitStorage(q) \/ Discard
  <2>1. op' = op /\ (name = 0 \/ \A p \in Process : op[p].at = "idle")
    BY <1>9 DEF InitStorage, Discard, At
  <2>2. \A p \in Process : ~ RollingBack(p)
    BY <1>1, <2>1 DEF RollbackHolds, Holding, RollingBack
  <2>3. AloneReplacing' /\ OnlyReplacing' /\ RollbackHolds'
    BY <1>1, <2>1, <2>2 DEF AloneReplacing, OnlyReplacing, RollbackHolds, RollingBack
  <2>4. RollbackStep
    BY <2>2 DEF RollbackStep, RollingBack, At
  <2> QED
    BY <1>2, <2>3, <2>4 DEF RollbackInv
<1> QED
  BY <1>5, <1>6, <1>7, <1>8, <1>9 DEF Acts, ReplaceIndex, Alternatives, Rebuild

LEMMA RollbackInvNext ==
  ASSUME RollbackInv, RollbackHypotheses, [Next]_vars
  PROVE  RollbackInv' /\ [RollbackStep]_vars
<1>1. RowInv'
  BY RowInvNext DEF RollbackInv
<1>2. CASE Process = {}
  BY <1>1, <1>2 DEF RollbackInv, AloneReplacing, OnlyReplacing, RollbackHolds, RollbackStep
<1>3. CASE UNCHANGED vars
  <2>1. AloneReplacing' /\ OnlyReplacing' /\ RollbackHolds'
    BY <1>3 DEF RollbackInv, AloneReplacing, OnlyReplacing, RollbackHolds, RollingBack, Holding, At, vars
  <2> QED
    BY <1>1, <1>3, <2>1 DEF RollbackInv
<1>4. CASE Process # {} /\ Next
  <2>1. \E q \in Process : Acts(q)
    BY <1>4 DEF Next, Acts
  <2> QED
    BY <2>1, RollbackActs
<1> QED
  BY <1>2, <1>3, <1>4

LEMMA RollbackInvInit ==
  ASSUME Hypotheses, Init
  PROVE  RollbackInv
<1>1. RowInv
  BY RowInvInit
<1>2. \A p \in Process : op[p].at = "idle"
  BY DEF Init, Idle
<1> QED
  BY <1>1, <1>2 DEF RollbackInv, AloneReplacing, OnlyReplacing, RollbackHolds, RollingBack,
     Replacing, Elsewhere

\* Where the operator replaces the index one command at a time, and neither
\* hands it off nor rebuilds it meanwhile, a rollback replaces Snapshot rows
\* only: the Run rows of the index it puts in place are those of the index it
\* replaces, at that moment, whoever writes, reads, backs up or dies
\* (RollbackKeepsRuns).
THEOREM RollbacksKeepRuns == ASSUME RollbackHypotheses PROVE Spec => RollbackKeepsRuns
<1>1. Init => RollbackInv
  BY RollbackInvInit DEF RollbackHypotheses
<1>2. RollbackInv /\ [Next]_vars => RollbackInv' /\ [RollbackStep]_vars
  BY RollbackInvNext
<1> QED
  BY <1>1, <1>2, PTL DEF Spec, RollbackKeepsRuns
=============================================================================
