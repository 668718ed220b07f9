--------------------------- MODULE EvidenceLedger ---------------------------
(***************************************************************************)
(* One Run's Evidence: immutable JSON files in a directory, each carrying  *)
(* a sequence number, a type, the digest of the record before it and a     *)
(* payload (evidence.py), and the verdict _verify_run gives of such a      *)
(* directory (storage.py).                                                 *)
(*                                                                         *)
(* Abstractions.  A payload keeps what the verifiers and the workflows     *)
(* read of it: the two statuses of a transition, the status of a Snapshot  *)
(* and whether run.created holds valid supported-acquisition metadata.     *)
(* A record also carries a fresh UUID; of that, only "via" is kept: whether *)
(* the writer worked inside a SQLite transaction or from the ledger alone. *)
(* The transactions exclude one another, and so do the writers from the    *)
(* ledger (they hold the lease), so it tells any two racing records apart. *)
(* The SHA-256 digest of a record is its content without the digest of the *)
(* record before it: equal digests mean equal records.                     *)
(***************************************************************************)
EXTENDS RunStateMachine, Naturals, Sequences, FiniteSets

EvidenceType == {"run.created", "run.state_transition", "filesystem.snapshot"}

\* Payload value of the records that have no such field.
None == "none"

SnapshotStatus == {"complete", "partial"}

Origin == {"governed", "plain"}

NoDigest == <<>>

Via == {"index", "ledger"}

Digests == {NoDigest}
  \cup (Nat \X EvidenceType \X (RunStatus \cup {None}) \X (RunStatus \cup {None})
        \X (SnapshotStatus \cup {None}) \X (Origin \cup {None}) \X Via)

Record == [seq  : Nat \ {0},
           type : EvidenceType,
           from : RunStatus \cup {None},
           to   : RunStatus \cup {None},
           snap : SnapshotStatus \cup {None},
           meta : Origin \cup {None},
           via  : Via,
           prev : Digests]

\* evidence_digest of a record.
digest(e) == <<e.seq, e.type, e.from, e.to, e.snap, e.meta, e.via>>

\* The name of the file a record is published under; two records of one Run
\* with one name are one file.
filename(e) == <<e.seq, e.type>>

\* The three records a writer can build from the sequence number and digest
\* that it read last (_evidence).
CreatedRecord(m) ==
  [seq |-> 1, type |-> "run.created", from |-> None, to |-> None,
   snap |-> None, meta |-> m, via |-> "index", prev |-> NoDigest]

TransitionRecord(last, dig, s, t, v) ==
  [seq |-> last + 1, type |-> "run.state_transition", from |-> s, to |-> t,
   snap |-> None, meta |-> None, via |-> v, prev |-> dig]

SnapshotRecord(last, dig, c) ==
  [seq |-> last + 1, type |-> "filesystem.snapshot", from |-> None, to |-> None,
   snap |-> c, meta |-> None, via |-> "index", prev |-> dig]

-----------------------------------------------------------------------------
(* A chain is a sequence of records in file-name order.                    *)

\* The transitions among the first n records of a chain.
TransitionsUpTo(s, n) == {i \in 1..n : s[i].type = "run.state_transition"}

\* The last of a set of positions.
LastOf(T) == CHOOSE i \in T : \A j \in T : j <= i

\* The status a chain has reached after its first n records.
StatusAfter(s, n) ==
  IF TransitionsUpTo(s, n) = {} THEN "created"
  ELSE s[LastOf(TransitionsUpTo(s, n))].to

StatusOf(s) == StatusAfter(s, Len(s))

\* Record i of chain s passes the loop body of _verify_run: its sequence
\* number is its position, its previous digest is the digest of the record
\* before it, the first is run.created, and a transition leaves the status
\* reached so far by an allowed step.
RecordVerifies(s, i) ==
  /\ s[i].seq = i
  /\ s[i].prev = IF i = 1 THEN NoDigest ELSE digest(s[i - 1])
  /\ i = 1 => s[i].type = "run.created"
  /\ (i > 1 /\ s[i].type = "run.state_transition") =>
        /\ s[i].from = StatusAfter(s, i - 1)
        /\ validate_transition(s[i].from, s[i].to)

ChainVerifies(s) == \A i \in 1..Len(s) : RecordVerifies(s, i)

-----------------------------------------------------------------------------
(* The files of one Run's directory, as a set of records.                  *)

\* The sequence numbers are 1, 2, ... with no gap and no two files alike.
Contiguous(F) == {e.seq : e \in F} = 1..Cardinality(F)

\* load_run_files: the files in name order (meaningful when Contiguous).
Chain(F) == [i \in 1..Cardinality(F) |-> CHOOSE e \in F : e.seq = i]

\* ledger_valid of _verify_run(index=False).
verify_run(F) == F # {} /\ Contiguous(F) /\ ChainVerifies(Chain(F))

LedgerStatus(F) == StatusOf(Chain(F))

\* The Snapshots recorded in a directory.
SnapshotsIn(F) == {e \in F : e.type = "filesystem.snapshot"}

\* is_supported_acquisition_run: run.created carries valid metadata of the
\* supported acquisition workflow.
Governed(F) == \E e \in F : e.type = "run.created" /\ e.meta = "governed"
=============================================================================
