---------------------- MODULE SnapshotAcquisitionProofs ----------------------
(***************************************************************************)
(* Theorems of RunStore and of SnapshotAcquisition, which drives it, for   *)
(* any sets of Runs, processes and commands, any bounds and any number of  *)
(* failures.                                                               *)
(*                                                                         *)
(* RunStore comes first.  None of IndexVerifies, IndexNeverAhead and       *)
(* EvidenceImmutable is inductive.  A commit keeps the index verified only *)
(* because the record it commits was built from the row it finds, and a    *)
(* publication replaces no file only because the name seen free is still   *)
(* free: both are facts about what an operation knew when it began and did *)
(* not look at again.  They hold because the SQLite transaction keeps      *)
(* every other operation from beginning, which is what InFlight and        *)
(* OneWriter say.                                                          *)
(*                                                                         *)
(* Then the commands.  Whatever commands run side by side, and whatever    *)
(* they break on disk, the index stays a verified ledger.  Two things      *)
(* write it.  A commit writes the row its record was built from: no other  *)
(* transaction can have begun meanwhile, and a rebuild installs nothing    *)
(* over an open one.  A rebuild writes rows of directories that verified   *)
(* when they were read: the candidate it carries from Replay to Install is *)
(* verified, however old it is.                                            *)
(*                                                                         *)
(* Where nothing fails and nothing is recovered, the legacy commands break *)
(* no ledger either: the files of a Run are its indexed records and the    *)
(* record in hand, so the next name is free.                               *)
(*                                                                         *)
(* Where only the supported commands run, everything holds: the last       *)
(* section.                                                                *)
(***************************************************************************)
EXTENDS SnapshotAcquisition, TLAPS, WellFoundedInduction, SequenceTheorems, FiniteSetTheorems

-----------------------------------------------------------------------------
(* What appending one record does to a chain: the facts behind every proof *)
(* that a writer keeps a ledger verified.                                  *)

\* A nonempty set of positions has a last one, so "the last transition of a
\* chain" (LastOf in StatusAfter) is well defined.
LEMMA LastExists ==
  ASSUME NEW n \in Nat, NEW S \in SUBSET (1..n), S # {}
  PROVE  LastOf(S) \in S /\ \A j \in S : j <= LastOf(S)
<1> DEFINE T == {m \in Nat : \E k \in S : m = n - k}
           R == {ss \in Nat \X Nat : ss[1] < ss[2]}
<1>1. T \in SUBSET Nat /\ T # {}
  <2>1. PICK k \in S : TRUE
    OBVIOUS
  <2>2. n - k \in T
    BY <2>1
  <2> QED
    BY <2>2
<1>2. IsWellFoundedOn(R, Nat)
  BY NatLessThanWellFounded, Zenon DEF OpToRel
<1>3. PICK m \in T : \A y \in T : ~(<<y, m>> \in R)
  <2> HIDE DEF T, R
  <2> QED
    BY <1>1, <1>2, WFMin, Zenon
<1>4. \A y \in T : ~(y < m)
  BY <1>3
<1>5. PICK k \in S : m = n - k
  OBVIOUS
<1>6. \A j \in S : j <= k
  <2> SUFFICES ASSUME NEW j \in S PROVE j <= k
    OBVIOUS
  <2>1. n - j \in T
    OBVIOUS
  <2> QED
    BY <1>4, <1>5, <2>1
<1> QED
  BY <1>6 DEF LastOf

\* The digest of a record (evidence_digest) can be the previous digest of the
\* next one.
LEMMA DigestType ==
  ASSUME NEW e \in Record
  PROVE  digest(e) \in Digests
BY DEF Record, digest, Digests

\* A record appended to a chain leaves the statuses reached before it as they
\* were: _verify_run reads a ledger from the front.
LEMMA StatusAfterPrefix ==
  ASSUME NEW s \in Seq(Record), NEW e \in Record, NEW n \in 0..Len(s)
  PROVE  StatusAfter(Append(s, e), n) = StatusAfter(s, n)
<1> DEFINE T == TransitionsUpTo(s, n)
<1>1. \A i \in 1..n : Append(s, e)[i] = s[i]
  OBVIOUS
<1>2. TransitionsUpTo(Append(s, e), n) = T
  BY <1>1 DEF TransitionsUpTo
<1>3. CASE T = {}
  BY <1>2, <1>3 DEF StatusAfter
<1>4. CASE T # {}
  <2>1. n \in Nat /\ T \in SUBSET (1..n)
    BY DEF TransitionsUpTo
  <2>2. LastOf(T) \in 1..n
    BY <1>4, <2>1, LastExists
  <2> QED
    BY <1>1, <1>2, <1>4, <2>2 DEF StatusAfter
<1> QED
  BY <1>3, <1>4

\* The status of a ledger is moved by a transition record, and by nothing
\* else: a Snapshot record leaves it alone.
LEMMA StatusOfAppend ==
  ASSUME NEW s \in Seq(Record), NEW e \in Record
  PROVE  StatusOf(Append(s, e)) =
           IF e.type = "run.state_transition" THEN e.to ELSE StatusOf(s)
<1> DEFINE a == Append(s, e)
           n == Len(s) + 1
           T == TransitionsUpTo(a, n)
<1>1. /\ Len(a) = n /\ n \in Nat /\ Len(s) \in Nat
      /\ a[n] = e
      /\ \A i \in 1..Len(s) : a[i] = s[i]
  OBVIOUS
<1>2. CASE e.type = "run.state_transition"
  <2>1. n \in T /\ T \in SUBSET (1..n)
    BY <1>1, <1>2 DEF TransitionsUpTo
  <2>2. LastOf(T) \in T /\ \A j \in T : j <= LastOf(T)
    BY <1>1, <2>1, LastExists
  <2>3. LastOf(T) = n
    BY <1>1, <2>1, <2>2
  <2> QED
    BY <1>1, <1>2, <2>1, <2>3 DEF StatusOf, StatusAfter
<1>3. CASE e.type # "run.state_transition"
  <2>1. T = TransitionsUpTo(a, Len(s))
    BY <1>1, <1>3 DEF TransitionsUpTo
  <2>2. StatusOf(a) = StatusAfter(a, Len(s))
    BY <1>1, <2>1 DEF StatusOf, StatusAfter
  <2> QED
    BY <1>1, <1>3, <2>2, StatusAfterPrefix DEF StatusOf
<1> QED
  BY <1>2, <1>3

\* A verified chain stays verified when a record is appended that itself
\* passes the checks of _verify_run.
LEMMA ChainVerifiesAppend ==
  ASSUME NEW s \in Seq(Record), NEW e \in Record,
         ChainVerifies(s),
         RecordVerifies(Append(s, e), Len(s) + 1)
  PROVE  ChainVerifies(Append(s, e))
<1> DEFINE a == Append(s, e)
<1>1. /\ Len(a) = Len(s) + 1 /\ Len(s) \in Nat
      /\ \A i \in 1..Len(s) : a[i] = s[i]
  OBVIOUS
<1>2. ASSUME NEW i \in 1..Len(s)
      PROVE  RecordVerifies(a, i)
  <2>1. RecordVerifies(s, i)
    BY DEF ChainVerifies
  <2>2. i - 1 \in 0..Len(s) /\ (i # 1 => i - 1 \in 1..Len(s))
    BY <1>1
  <2>3. StatusAfter(a, i - 1) = StatusAfter(s, i - 1)
    BY <2>2, StatusAfterPrefix
  <2>4. a[i] = s[i] /\ (i # 1 => a[i - 1] = s[i - 1])
    BY <1>1, <2>2
  <2> QED
    BY <2>1, <2>3, <2>4 DEF RecordVerifies
<1>3. \A i \in 1..Len(a) : i \in 1..Len(s) \/ i = Len(s) + 1
  BY <1>1
<1> QED
  BY <1>2, <1>3 DEF ChainVerifies

\* Everything that a verified chain has reached is a status: a chain whose
\* transitions were all validated never leaves the state machine.
LEMMA VerifiedStatus ==
  ASSUME NEW s \in Seq(Record), ChainVerifies(s)
  PROVE  StatusOf(s) \in RunStatus
<1> DEFINE Left(i) == s[i].type = "run.state_transition" /\ s[i].to \notin RunStatus
           T == {i \in 1..Len(s) : Left(i)}
           R == {ss \in Nat \X Nat : ss[1] < ss[2]}
<1>1. Len(s) \in Nat /\ \A i \in 1..Len(s) : s[i] \in Record
  OBVIOUS
<1>2. "created" \in RunStatus
  BY DEF RunStatus
<1>3. T = {}
  <2> SUFFICES ASSUME T # {} PROVE FALSE
    OBVIOUS
  <2>1. IsWellFoundedOn(R, Nat)
    BY NatLessThanWellFounded, Zenon DEF OpToRel
  <2>2. T \subseteq Nat
    OBVIOUS
  <2>3. PICK i \in T : \A j \in T : ~(<<j, i>> \in R)
    <3> HIDE DEF T, R
    <3> QED
      BY <2>1, <2>2, WFMin, Zenon
  <2>4. i \in 1..Len(s) /\ Left(i) /\ \A j \in T : ~(j < i)
    BY <2>2, <2>3
  <2>5. RecordVerifies(s, i)
    BY <2>4 DEF ChainVerifies
  <2>6. i > 1 /\ s[i].from = StatusAfter(s, i - 1) /\ s[i].to \in ALLOWED[s[i].from]
    BY <2>4, <2>5 DEF RecordVerifies, validate_transition
  <2>7. StatusAfter(s, i - 1) \in RunStatus
    <3> DEFINE U == TransitionsUpTo(s, i - 1)
    <3>1. CASE U = {}
      BY <3>1, <1>2 DEF StatusAfter
    <3>2. CASE U # {}
      <4>1. i - 1 \in Nat /\ U \in SUBSET (1..(i - 1))
        BY <2>4 DEF TransitionsUpTo
      <4>2. LastOf(U) \in U
        BY <3>2, <4>1, LastExists
      <4>3. LastOf(U) \in 1..Len(s) /\ LastOf(U) < i /\ LastOf(U) \notin T
        BY <2>4, <4>1, <4>2
      <4>4. s[LastOf(U)].type = "run.state_transition"
        BY <4>2 DEF TransitionsUpTo
      <4> QED
        BY <3>2, <4>3, <4>4 DEF StatusAfter
    <3> QED
      BY <3>1, <3>2
  <2>8. \A from \in RunStatus : ALLOWED[from] \subseteq RunStatus
    BY DEF RunStatus, ALLOWED
  <2> QED
    BY <2>4, <2>6, <2>7, <2>8
<1>4. CASE TransitionsUpTo(s, Len(s)) = {}
  BY <1>2, <1>4 DEF StatusOf, StatusAfter
<1>5. CASE TransitionsUpTo(s, Len(s)) # {}
  <2> DEFINE U == TransitionsUpTo(s, Len(s))
  <2>1. U \in SUBSET (1..Len(s))
    BY DEF TransitionsUpTo
  <2>2. LastOf(U) \in U
    BY <1>1, <1>5, <2>1, LastExists
  <2>3. s[LastOf(U)].type = "run.state_transition" /\ LastOf(U) \in 1..Len(s)
    BY <2>2 DEF TransitionsUpTo
  <2>4. s[LastOf(U)].to \in RunStatus
    BY <1>3, <2>3
  <2> QED
    BY <1>5, <2>4 DEF StatusOf, StatusAfter
<1> QED
  BY <1>4, <1>5

-----------------------------------------------------------------------------
(* The directory of a Run.                                                  *)

\* The files of a directory whose sequence numbers are contiguous form a
\* chain, and every file is at its place in it.
LEMMA ChainOfFiles ==
  ASSUME NEW F \in SUBSET Record, IsFiniteSet(F), Contiguous(F)
  PROVE  /\ Cardinality(F) \in Nat
         /\ Chain(F) \in Seq(F) /\ Chain(F) \in Seq(Record) /\ Len(Chain(F)) = Cardinality(F)
         /\ \A i \in 1..Cardinality(F) : Chain(F)[i] \in F /\ Chain(F)[i].seq = i
         /\ \A e \in F : e.seq \in 1..Cardinality(F) /\ Chain(F)[e.seq] = e
         /\ \A e, f \in F : e.seq = f.seq => e = f
<1> DEFINE n == Cardinality(F)
           place == [e \in F |-> e.seq]
<1>1. n \in Nat
  BY FS_CardinalityType
<1>2. {e.seq : e \in F} = 1..n
  BY DEF Contiguous
<1>3. place \in Surjection(F, 1..n)
  <2>1. place \in [F -> 1..n]
    BY <1>2
  <2>2. \A i \in 1..n : \E e \in F : place[e] = i
    BY <1>2
  <2> QED
    BY <2>1, <2>2 DEF Surjection
<1>4. Cardinality(1..n) = n
  BY <1>1, FS_Interval
<1>5. place \in Injection(F, 1..n)
  BY <1>3, <1>4, FS_Surjection
<1>6. \A e, f \in F : e.seq = f.seq => e = f
  <2>1. \A e, f \in F : place[e] = place[f] => e = f
    BY <1>5 DEF Injection, IsInjective
  <2> QED
    BY <2>1
<1>7. \A i \in 1..n : (CHOOSE e \in F : e.seq = i) \in F /\ (CHOOSE e \in F : e.seq = i).seq = i
  <2> SUFFICES ASSUME NEW i \in 1..n
               PROVE  (CHOOSE e \in F : e.seq = i) \in F /\ (CHOOSE e \in F : e.seq = i).seq = i
    OBVIOUS
  <2>1. \E e \in F : e.seq = i
    BY <1>2
  <2> QED
    BY <2>1
<1>8. Chain(F) = [i \in 1..n |-> CHOOSE e \in F : e.seq = i]
  BY DEF Chain
<1>9. \A i \in 1..n : Chain(F)[i] \in F /\ Chain(F)[i].seq = i
  BY <1>7, <1>8
<1>10. Chain(F) \in Seq(F) /\ Len(Chain(F)) = n
  <2>1. Chain(F) \in [1..n -> F]
    BY <1>7, <1>8
  <2> QED
    BY <1>1, <2>1
<1>11. \A e \in F : e.seq \in 1..n /\ Chain(F)[e.seq] = e
  BY <1>2, <1>6, <1>9
<1>12. Chain(F) \in Seq(Record)
  BY <1>10
<1> QED
  BY <1>1, <1>6, <1>9, <1>10, <1>11, <1>12

\* Publishing the next file of a directory appends to its chain.
LEMMA ChainExtends ==
  ASSUME NEW F \in SUBSET Record, IsFiniteSet(F), Contiguous(F),
         NEW e \in Record, e.seq = Cardinality(F) + 1
  PROVE  /\ F \cup {e} \in SUBSET Record /\ IsFiniteSet(F \cup {e}) /\ Contiguous(F \cup {e})
         /\ e \notin F /\ Cardinality(F \cup {e}) = Cardinality(F) + 1
         /\ Chain(F \cup {e}) = Append(Chain(F), e)
<1> DEFINE n == Cardinality(F)
           G == F \cup {e}
<1>1. /\ n \in Nat /\ Chain(F) \in Seq(Record) /\ Len(Chain(F)) = n
      /\ \A i \in 1..n : Chain(F)[i] \in F /\ Chain(F)[i].seq = i
      /\ \A f \in F : f.seq \in 1..n
  BY ChainOfFiles
<1>2. e \notin F
  BY <1>1
<1>3. IsFiniteSet(G) /\ Cardinality(G) = n + 1
  BY <1>2, FS_AddElement
<1>4. Contiguous(G)
  <2>1. {f.seq : f \in F} = 1..n
    BY DEF Contiguous
  <2>2. {f.seq : f \in G} = {f.seq : f \in F} \cup {n + 1}
    OBVIOUS
  <2>3. 1..(n + 1) = 1..n \cup {n + 1}
    BY <1>1
  <2> QED
    BY <1>3, <2>1, <2>2, <2>3 DEF Contiguous
<1>5. /\ Chain(G) \in Seq(Record) /\ Len(Chain(G)) = n + 1
      /\ \A i \in 1..(n + 1) : Chain(G)[i] \in G /\ Chain(G)[i].seq = i
      /\ \A f, g \in G : f.seq = g.seq => f = g
  <2>1. G \in SUBSET Record
    OBVIOUS
  <2> HIDE DEF G
  <2> QED
    BY <1>1, <1>3, <1>4, <2>1, ChainOfFiles
<1>6. /\ Append(Chain(F), e) \in Seq(Record) /\ Len(Append(Chain(F), e)) = n + 1
      /\ \A i \in 1..n : Append(Chain(F), e)[i] = Chain(F)[i]
      /\ Append(Chain(F), e)[n + 1] = e
  BY <1>1, AppendProperties
<1>7. \A i \in 1..(n + 1) : Chain(G)[i] = Append(Chain(F), e)[i]
  <2> SUFFICES ASSUME NEW i \in 1..(n + 1) PROVE Chain(G)[i] = Append(Chain(F), e)[i]
    OBVIOUS
  <2>1. Chain(G)[i] \in G /\ Chain(G)[i].seq = i
    BY <1>5
  <2>2. CASE i \in 1..n
    <3>1. Chain(F)[i] \in G /\ Chain(F)[i].seq = i
      BY <1>1, <2>2
    <3> QED
      BY <1>5, <1>6, <2>1, <2>2, <3>1
  <2>3. CASE i = n + 1
    <3>1. e \in G /\ e.seq = i
      BY <2>3
    <3> QED
      BY <1>5, <1>6, <2>1, <2>3, <3>1
  <2> QED
    BY <1>1, <2>2, <2>3
<1>8. Chain(G) = Append(Chain(F), e)
  <2> DEFINE a == Append(Chain(F), e)
             b == Chain(G)
  <2>1. a \in Seq(Record) /\ b \in Seq(Record) /\ Len(b) = Len(a)
    BY <1>5, <1>6
  <2>2. \A i \in 1..Len(b) : b[i] = a[i]
    BY <1>5, <1>7
  <2> HIDE DEF a, b
  <2>3. b = a
    BY <2>1, <2>2, SeqEqual
  <2> QED
    BY <2>3 DEF a, b
<1> QED
  BY <1>2, <1>3, <1>4, <1>8

\* The verdict of _verify_run on a directory that gets its next file, and the
\* status it then reports.
LEMMA LedgerExtends ==
  ASSUME NEW F \in SUBSET Record, IsFiniteSet(F), Contiguous(F), ChainVerifies(Chain(F)),
         NEW e \in Record, RecordVerifies(Append(Chain(F), e), Cardinality(F) + 1)
  PROVE  /\ F \cup {e} \in SUBSET Record /\ IsFiniteSet(F \cup {e}) /\ verify_run(F \cup {e})
         /\ Chain(F \cup {e}) = Append(Chain(F), e)
         /\ Cardinality(F \cup {e}) = Cardinality(F) + 1
         /\ LedgerStatus(F \cup {e}) =
              IF e.type = "run.state_transition" THEN e.to ELSE LedgerStatus(F)
<1>1. /\ Cardinality(F) \in Nat /\ Chain(F) \in Seq(Record)
      /\ Len(Chain(F)) = Cardinality(F)
  BY ChainOfFiles
<1>2. e.seq = Cardinality(F) + 1
  <2>1. Append(Chain(F), e)[Cardinality(F) + 1] = e
    BY <1>1, AppendProperties
  <2> QED
    BY <2>1 DEF RecordVerifies
<1>3. /\ F \cup {e} \in SUBSET Record /\ IsFiniteSet(F \cup {e}) /\ Contiguous(F \cup {e})
      /\ Cardinality(F \cup {e}) = Cardinality(F) + 1
      /\ Chain(F \cup {e}) = Append(Chain(F), e)
  BY <1>2, ChainExtends
<1>4. ChainVerifies(Append(Chain(F), e))
  BY <1>1, ChainVerifiesAppend
<1>5. LedgerStatus(F \cup {e}) = IF e.type = "run.state_transition" THEN e.to ELSE LedgerStatus(F)
  BY <1>1, <1>3, StatusOfAppend DEF LedgerStatus
<1> QED
  BY <1>3, <1>4, <1>5 DEF verify_run

-----------------------------------------------------------------------------
\* The inductive invariant.
StoreInvariant ==
  TypeOK /\ IndexVerifies /\ IndexNeverAhead /\ InFlight /\ OneWriter

-----------------------------------------------------------------------------
(* Rows and records.                                                       *)

\* The three kinds of record are records.
LEMMA RecordTypes ==
  /\ \A m \in Origin : CreatedRecord(m) \in Record
  /\ \A n \in Nat, d \in Digests, s, t \in RunStatus, v \in Via :
       TransitionRecord(n, d, s, t, v) \in Record
  /\ \A n \in Nat, d \in Digests, c \in SnapshotStatus :
       SnapshotRecord(n, d, c) \in Record
BY DEF Record, CreatedRecord, TransitionRecord, SnapshotRecord, EvidenceType,
       Digests, Via

\* A new database row is a row and is in step with its (empty) ledger.
LEMMA NoRowVerifies == NoRow \in Row /\ RowVerifies(NoRow)
BY DEF NoRow, Row, RowVerifies, Digests, ChainVerifies, None

\* Committing a record that fits a row writes a row, and one whose columns
\* are again in step: runs.status, last_sequence and last_evidence_digest
\* against the evidence_records rows.
LEMMA WrittenVerifies ==
  ASSUME NEW row \in Row, NEW item \in Record,
         RowVerifies(row), Fits(row, item)
  PROVE  Written(row, item) \in Row /\ RowVerifies(Written(row, item))
<1> DEFINE s == row.records
           n == row.last_sequence
           w == Written(row, item)
<1>1. /\ s \in Seq(Record) /\ n \in Nat /\ row.last_digest \in Digests
      /\ row.status \in RunStatus \cup {"absent"}
      /\ row.snapshot \in SnapshotStatus \cup {None}
      /\ Len(s) = n /\ ChainVerifies(s)
  BY DEF Row, RowVerifies
<1>2. /\ w.records = Append(s, item) /\ w.last_sequence = item.seq
      /\ w.last_digest = digest(item)
      /\ Append(s, item) \in Seq(Record) /\ Len(Append(s, item)) = n + 1
      /\ Append(s, item)[n + 1] = item
      /\ \A i \in 1..n : Append(s, item)[i] = s[i]
  BY <1>1, AppendProperties DEF Written
<1>3. /\ item.seq = n + 1
      /\ item.prev = IF n = 0 THEN NoDigest ELSE digest(s[n])
      /\ n = 0 => item.type = "run.created"
  <2>1. CASE item.type = "run.created"
    BY <2>1 DEF Fits, NoRow, CreatedRecord
  <2>2. CASE item.type # "run.created"
    <3>1. row.status # "absent" /\ item.seq = n + 1 /\ item.prev = row.last_digest
      BY <2>2 DEF Fits, TransitionRecord, SnapshotRecord
    <3>2. n > 0 /\ row.last_digest = digest(s[n])
      BY <1>1, <3>1 DEF RowVerifies
    <3> QED
      BY <3>1, <3>2
  <2> QED
    BY <2>1, <2>2
<1>4. n > 0 => row.status = StatusOf(s) /\ row.status # "absent"
  BY <1>1 DEF RowVerifies
<1>5. n > 0 /\ item.type = "run.state_transition" =>
        item.from = row.status /\ validate_transition(row.status, item.to)
  BY DEF Fits, TransitionRecord
<1>6. StatusAfter(Append(s, item), n) = StatusOf(s)
  BY <1>1, StatusAfterPrefix DEF StatusOf
<1>7. RecordVerifies(Append(s, item), n + 1)
  <2>1. n + 1 = 1 <=> n = 0
    BY <1>1
  <2>2. (n + 1) - 1 = n /\ (n # 0 => Append(s, item)[n] = s[n])
    BY <1>1, <1>2
  <2> QED
    BY <1>1, <1>2, <1>3, <1>4, <1>5, <1>6, <2>1, <2>2 DEF RecordVerifies
<1>8. ChainVerifies(Append(s, item))
  BY <1>1, <1>7, ChainVerifiesAppend
<1>9. w.status = StatusOf(Append(s, item)) /\ w.status \in RunStatus
  <2>1. StatusOf(Append(s, item)) =
          IF item.type = "run.state_transition" THEN item.to ELSE StatusOf(s)
    BY <1>1, StatusOfAppend
  <2>2. CASE item.type = "run.created"
    <3>1. s = <<>> /\ w.status = "created"
      BY <2>2 DEF Fits, NoRow, Written
    <3>2. StatusOf(<<>>) = "created"
      BY DEF StatusOf, StatusAfter, TransitionsUpTo
    <3> QED
      BY <2>1, <2>2, <3>1, <3>2 DEF RunStatus
  <2>3. CASE item.type = "run.state_transition"
    BY <2>1, <2>3 DEF Fits, Written
  <2>4. CASE item.type = "filesystem.snapshot"
    <3>1. w.status = row.status /\ row.status # "absent"
      BY <2>4 DEF Fits, Written
    <3>2. n > 0
      BY <1>1, <3>1 DEF RowVerifies
    <3> QED
      BY <1>1, <1>4, <2>1, <2>4, <3>1, <3>2
  <2> QED
    BY <2>2, <2>3, <2>4 DEF Fits
<1>10. w \in Row
  <2>1. item.seq \in Nat /\ digest(item) \in Digests /\ item.snap \in SnapshotStatus \cup {None}
    BY DigestType DEF Record
  <2>2. w.snapshot \in SnapshotStatus \cup {None}
    BY <1>1, <2>1 DEF Written
  <2> QED
    BY <1>2, <1>9, <2>1, <2>2 DEF Row, Written
<1>11. "absent" \notin RunStatus
  BY DEF RunStatus
<1> QED
  BY <1>1, <1>2, <1>3, <1>8, <1>9, <1>10, <1>11 DEF RowVerifies

-----------------------------------------------------------------------------
(* The inductive invariant.                                                *)

LEMMA IdleFacts == Idle \in Op /\ Idle.pc = "idle"
BY DEF Idle, Op

\* An operation that is not idle names a Run and a record.
LEMMA OpFacts ==
  ASSUME TypeOK, NEW p \in Procs, op[p].pc # "idle"
  PROVE  op[p].run \in Runs /\ op[p].item \in Record
BY DEF TypeOK, Op, Idle

LEMMA InitInvariant == Init => StoreInvariant
<1> SUFFICES ASSUME Init PROVE StoreInvariant
  OBVIOUS
<1>1. TypeOK
  BY IdleFacts, NoRowVerifies, BoundsAssumption DEF Init, TypeOK
<1>2. IndexVerifies
  BY NoRowVerifies DEF Init, IndexVerifies
<1>3. IndexNeverAhead
  BY DEF Init, IndexNeverAhead, NoRow
<1>4. InFlight /\ OneWriter
  BY IdleFacts DEF Init, InFlight, OneWriter, InTransaction
<1> QED
  BY <1>1, <1>2, <1>3, <1>4 DEF StoreInvariant

\* Stage is the common part of the operations' beginnings: once the record
\* fits the row that was read, taking the write lock makes the operation the
\* only writer.
LEMMA StageInvariant ==
  ASSUME StoreInvariant, NEW p \in Procs, NEW r \in Runs, NEW item \in Record,
         Fits(db[r], item), Stage(p, r, item)
  PROVE  StoreInvariant'
<1> DEFINE o == [pc |-> "staged", run |-> r, item |-> item]
<1>1. op \in [Procs -> Op] /\ op' = [op EXCEPT ![p] = o] /\ o \in Op
  BY DEF StoreInvariant, TypeOK, Stage, Op
<1>2. UNCHANGED <<files, db, faults>> /\ NameFree(r, item)
      /\ \A q \in Procs : ~InTransaction(q)
  BY DEF Stage, WriteLockFree
<1>3. \A q \in Procs : q # p => op'[q] = op[q] /\ ~InTransaction(q)'
  BY <1>1, <1>2 DEF InTransaction
<1>4. op'[p] = o
  BY <1>1
<1>5. TypeOK'
  BY <1>1, <1>2 DEF StoreInvariant, TypeOK
<1>6. IndexVerifies' /\ IndexNeverAhead'
  BY <1>2 DEF StoreInvariant, IndexVerifies, IndexNeverAhead
<1>7. InFlight'
  <2> SUFFICES ASSUME NEW q \in Procs
               PROVE  /\ op'[q].pc # "append"
                      /\ InTransaction(q)' => Fits(db[op'[q].run], op'[q].item)
                      /\ op'[q].pc = "staged" => NameFree(op'[q].run, op'[q].item)
                      /\ op'[q].pc = "published" => op'[q].item \in files[op'[q].run]
    BY <1>2 DEF InFlight, NameFree
  <2>1. CASE q = p
    BY <1>2, <1>4, <2>1
  <2>2. CASE q # p
    BY <1>3, <2>2 DEF StoreInvariant, InFlight, InTransaction
  <2> QED
    BY <2>1, <2>2
<1>8. OneWriter'
  BY <1>3 DEF OneWriter
<1> QED
  BY <1>5, <1>6, <1>7, <1>8 DEF StoreInvariant

\* The records that create_run, transition_run and _persist build fit the row
\* they read.
LEMMA CallInvariant ==
  ASSUME StoreInvariant, NEW p \in Procs, Call(p)
  PROVE  StoreInvariant'
<1>1. PICK r \in Runs :
        \/ \E m \in Origin : BeginCreate(p, r, m)
        \/ \E t \in Targets : BeginTransition(p, r, t)
        \/ \E c \in SnapshotStatus : BeginPersist(p, r, c)
  BY DEF Call
<1>2. /\ db[r].status \in RunStatus \cup {"absent"}
      /\ db[r].last_sequence \in Nat
      /\ db[r].last_digest \in Digests
  BY DEF StoreInvariant, TypeOK, Row
<1>3. CASE \E m \in Origin : BeginCreate(p, r, m)
  <2>1. PICK m \in Origin : BeginCreate(p, r, m)
    BY <1>3
  <2>2. CreatedRecord(m) \in Record /\ Fits(db[r], CreatedRecord(m))
    BY <2>1, RecordTypes DEF BeginCreate, Fits, CreatedRecord
  <2> QED
    BY <2>1, <2>2, StageInvariant DEF BeginCreate
<1>4. CASE \E t \in Targets : BeginTransition(p, r, t)
  <2>1. PICK t \in Targets : BeginTransition(p, r, t)
    BY <1>4
  <2> DEFINE item == TransitionRecord(db[r].last_sequence, db[r].last_digest,
                                      db[r].status, t, "index")
  <2>2. t \in RunStatus /\ db[r].status \in RunStatus
    BY <1>2, <2>1, TargetsAssumption DEF BeginTransition
  <2>3. item \in Record
    BY <1>2, <2>2, RecordTypes DEF Via
  <2>4. Fits(db[r], item)
    BY <2>1, <2>2 DEF BeginTransition, Fits, TransitionRecord
  <2> QED
    BY <2>1, <2>3, <2>4, StageInvariant DEF BeginTransition
<1>5. CASE \E c \in SnapshotStatus : BeginPersist(p, r, c)
  <2>1. PICK c \in SnapshotStatus : BeginPersist(p, r, c)
    BY <1>5
  <2> DEFINE item == SnapshotRecord(db[r].last_sequence, db[r].last_digest, c)
  <2>2. item \in Record
    BY <1>2, RecordTypes
  <2>3. Fits(db[r], item)
    BY <2>1 DEF BeginPersist, Fits, SnapshotRecord
  <2> QED
    BY <2>1, <2>2, <2>3, StageInvariant DEF BeginPersist
<1> QED
  BY <1>1, <1>3, <1>4, <1>5

\* Publishing adds exactly one file and touches no other: the name is still
\* free.
LEMMA PublishAdds ==
  ASSUME StoreInvariant, NEW p \in Procs, Publish(p)
  PROVE  /\ op[p].run \in Runs /\ op[p].item \in Record
         /\ files' = [files EXCEPT ![op[p].run] = @ \cup {op[p].item}]
<1>1. op[p].run \in Runs /\ op[p].item \in Record
  BY OpFacts DEF StoreInvariant, Publish
<1>2. NameFree(op[p].run, op[p].item)
  BY DEF StoreInvariant, InFlight, Publish
<1>3. {e \in files[op[p].run] : filename(e) # filename(op[p].item)} = files[op[p].run]
  BY <1>2 DEF NameFree
<1> QED
  BY <1>1, <1>3 DEF Publish, Replaced

LEMMA PublishInvariant ==
  ASSUME StoreInvariant, NEW p \in Procs, Publish(p)
  PROVE  StoreInvariant'
<1> DEFINE r == op[p].run
           item == op[p].item
<1>1. /\ r \in Runs /\ item \in Record
      /\ files' = [files EXCEPT ![r] = @ \cup {item}]
      /\ files \in [Runs -> SUBSET Record] /\ op \in [Procs -> Op]
  BY PublishAdds DEF StoreInvariant, TypeOK
<1>2. /\ op[p].pc = "staged" /\ UNCHANGED <<db, faults>>
      /\ op' = [op EXCEPT ![p].pc = "published"]
  BY DEF Publish
<1>3. /\ op'[p].pc = "published" /\ op'[p].run = r /\ op'[p].item = item
      /\ op'[p] \in Op
  BY <1>1, <1>2 DEF Op, Idle
<1>4. \A q \in Procs : q # p => op'[q] = op[q] /\ ~InTransaction(q)
  BY <1>1, <1>2 DEF StoreInvariant, OneWriter, InTransaction
<1>5. item \in files'[r] /\ \A x \in Runs : files[x] \subseteq files'[x]
  BY <1>1
<1>6. TypeOK'
  <2>1. files' \in [Runs -> SUBSET Record]
    BY <1>1
  <2>2. op' \in [Procs -> Op]
    BY <1>1, <1>2, <1>3, <1>4
  <2> QED
    BY <1>2, <2>1, <2>2 DEF StoreInvariant, TypeOK
<1>7. IndexVerifies' /\ IndexNeverAhead'
  BY <1>2, <1>5 DEF StoreInvariant, IndexVerifies, IndexNeverAhead
<1>8. InFlight'
  <2> SUFFICES ASSUME NEW q \in Procs
               PROVE  /\ op'[q].pc # "append"
                      /\ InTransaction(q)' => Fits(db'[op'[q].run], op'[q].item)
                      /\ op'[q].pc # "staged"
                      /\ op'[q].pc = "published" => op'[q].item \in files'[op'[q].run]
    BY DEF InFlight
  <2>1. CASE q = p
    BY <1>2, <1>3, <1>5, <2>1 DEF StoreInvariant, InFlight, InTransaction
  <2>2. CASE q # p
    BY <1>4, <2>2 DEF StoreInvariant, InFlight, InTransaction
  <2> QED
    BY <2>1, <2>2
<1>9. OneWriter'
  BY <1>4 DEF OneWriter, InTransaction
<1> QED
  BY <1>6, <1>7, <1>8, <1>9 DEF StoreInvariant

\* The commit writes the row its record was built from, and the only file it
\* relies on is the one this operation published.
LEMMA CommitInvariant ==
  ASSUME StoreInvariant, NEW p \in Procs, Commit(p)
  PROVE  StoreInvariant'
<1> DEFINE r == op[p].run
           item == op[p].item
<1>1. /\ op[p].pc = "published" /\ UNCHANGED <<files, faults>>
      /\ db' = [db EXCEPT ![r] = Written(db[r], item)]
      /\ op' = [op EXCEPT ![p] = Idle]
  BY DEF Commit
<1>2. /\ r \in Runs /\ item \in Record
      /\ db \in [Runs -> Row] /\ op \in [Procs -> Op]
      /\ RowVerifies(db[r]) /\ Fits(db[r], item) /\ item \in files[r]
  BY <1>1, OpFacts DEF StoreInvariant, TypeOK, IndexVerifies, InFlight, InTransaction
<1>3. Written(db[r], item) \in Row /\ RowVerifies(Written(db[r], item))
  BY <1>2, WrittenVerifies
<1>4. \A q \in Procs : ~InTransaction(q)' /\ op'[q].pc # "append"
  BY <1>1, <1>2, IdleFacts DEF StoreInvariant, OneWriter, InFlight, InTransaction
<1>5. TypeOK'
  BY <1>1, <1>2, <1>3, IdleFacts DEF StoreInvariant, TypeOK
<1>6. IndexVerifies'
  BY <1>1, <1>2, <1>3 DEF StoreInvariant, IndexVerifies
<1>7. IndexNeverAhead'
  <2> SUFFICES ASSUME NEW x \in Runs, NEW i \in 1..Len(db'[x].records)
               PROVE  db'[x].records[i] \in files[x]
    BY <1>1 DEF IndexNeverAhead
  <2>1. CASE x # r
    BY <1>1, <1>2, <2>1 DEF StoreInvariant, IndexNeverAhead
  <2>2. CASE x = r
    <3>1. db'[r].records = Append(db[r].records, item) /\ db[r].records \in Seq(Record)
      BY <1>1, <1>2 DEF Written, Row
    <3>2. i \in 1..Len(db[r].records) \/ db'[r].records[i] = item
      BY <1>2, <2>2, <3>1, AppendProperties
    <3>3. CASE i \in 1..Len(db[r].records)
      BY <1>2, <2>2, <3>1, <3>3 DEF StoreInvariant, IndexNeverAhead
    <3> QED
      BY <1>2, <2>2, <3>2, <3>3
  <2> QED
    BY <2>1, <2>2
<1>8. InFlight' /\ OneWriter'
  BY <1>4 DEF InFlight, OneWriter, InTransaction
<1> QED
  BY <1>5, <1>6, <1>7, <1>8 DEF StoreInvariant

\* A failure forgets what the operation knew and nothing else.
LEMMA AbortInvariant ==
  ASSUME StoreInvariant, NEW p \in Procs, Abort(p)
  PROVE  StoreInvariant'
<1>1. /\ UNCHANGED <<files, db>> /\ op' = [op EXCEPT ![p] = Idle]
      /\ op \in [Procs -> Op] /\ faults \in 0..MaxFaults
      /\ faults < MaxFaults /\ faults' = faults + 1
  BY DEF Abort, StoreInvariant, TypeOK
<1>2. \A q \in Procs : op'[q] = op[q] \/ op'[q].pc = "idle"
  BY <1>1, IdleFacts
<1>3. TypeOK'
  <2>1. faults' \in 0..MaxFaults
    BY <1>1, BoundsAssumption
  <2> QED
    BY <1>1, <2>1, IdleFacts DEF StoreInvariant, TypeOK
<1>4. IndexVerifies' /\ IndexNeverAhead'
  BY <1>1 DEF StoreInvariant, IndexVerifies, IndexNeverAhead
<1>5. InFlight'
  BY <1>1, <1>2 DEF StoreInvariant, InFlight, InTransaction, NameFree
<1>6. OneWriter'
  BY <1>2 DEF StoreInvariant, OneWriter, InTransaction
<1> QED
  BY <1>3, <1>4, <1>5, <1>6 DEF StoreInvariant

LEMMA NextInvariant == StoreInvariant /\ [Next]_storeVars => StoreInvariant'
<1> SUFFICES ASSUME StoreInvariant, [Next]_storeVars PROVE StoreInvariant'
  OBVIOUS
<1>1. ASSUME NEW p \in Procs, Call(p) PROVE StoreInvariant'
  BY <1>1, CallInvariant
<1>2. ASSUME NEW p \in Procs, Publish(p) PROVE StoreInvariant'
  BY <1>2, PublishInvariant
<1>3. ASSUME NEW p \in Procs, Commit(p) PROVE StoreInvariant'
  BY <1>3, CommitInvariant
<1>4. ASSUME NEW p \in Procs, Abort(p) PROVE StoreInvariant'
  BY <1>4, AbortInvariant
<1>5. CASE UNCHANGED storeVars
  BY <1>5 DEF storeVars, StoreInvariant, TypeOK, IndexVerifies, IndexNeverAhead,
              InFlight, OneWriter, InTransaction, NameFree
<1> QED
  BY <1>1, <1>2, <1>3, <1>4, <1>5 DEF Next

-----------------------------------------------------------------------------
(* The theorems.                                                           *)

\* Under any interleaving of create_run, transition_run and _persist, failing
\* at any point, what the operations know stays true and all of the parts of
\* the invariant hold.
THEOREM InvariantHolds == Spec => []StoreInvariant
BY InitInvariant, NextInvariant, PTL DEF Spec

\* Files, rows and operations keep their types: in particular no step writes
\* a row with a status outside the state machine.
THEOREM TypesHold == Spec => []TypeOK
<1>1. StoreInvariant => TypeOK
  BY DEF StoreInvariant
<1> QED
  BY <1>1, InvariantHolds, PTL

\* What create_run, transition_run and _persist read before publishing is
\* still so when they publish and when they commit.
THEOREM OperationsStayInFlight == Spec => []InFlight
<1>1. StoreInvariant => InFlight
  BY DEF StoreInvariant
<1> QED
  BY <1>1, InvariantHolds, PTL

\* The SQLite index is a verified ledger with its denormalised columns in
\* step, whatever the number of processes, Runs and failures.
THEOREM IndexAlwaysVerifies == Spec => []IndexVerifies
<1>1. StoreInvariant => IndexVerifies
  BY DEF StoreInvariant
<1> QED
  BY <1>1, InvariantHolds, PTL

\* Every indexed record is on disk: Evidence is published before its rows
\* are committed.
THEOREM IndexAlwaysBacked == Spec => []IndexNeverAhead
<1>1. StoreInvariant => IndexNeverAhead
  BY DEF StoreInvariant
<1> QED
  BY <1>1, InvariantHolds, PTL

\* Among writers that work inside SQLite transactions, the existence check
\* and the os.replace of write_evidence never overwrite a file between them.
THEOREM EvidenceNeverOverwritten == Spec => EvidenceImmutable
<1>1. StoreInvariant /\ [Next]_storeVars =>
        [\A r \in Runs : files[r] \subseteq files'[r]]_storeVars
  <2> SUFFICES ASSUME StoreInvariant, Next
               PROVE  \A r \in Runs : files[r] \subseteq files'[r]
    OBVIOUS
  <2>1. ASSUME NEW p \in Procs, Publish(p)
        PROVE  \A r \in Runs : files[r] \subseteq files'[r]
    BY <2>1, PublishAdds DEF StoreInvariant, TypeOK
  <2>2. ASSUME NEW p \in Procs, Call(p) \/ Commit(p) \/ Abort(p)
        PROVE  UNCHANGED files
    BY <2>2 DEF Call, BeginCreate, BeginTransition, BeginPersist, Stage, Commit, Abort
  <2> QED
    BY <2>1, <2>2 DEF Next
<1> QED
  BY <1>1, InvariantHolds, PTL DEF Spec, EvidenceImmutable

-----------------------------------------------------------------------------
(* How far Evidence runs ahead of the index.                               *)

\* A file is stranded exactly when its pair is in StrandedFiles.
LEMMA StrandedPair ==
  ASSUME NEW r \in Runs, NEW e
  PROVE  <<r, e>> \in StrandedFiles <=> e \in Stranded(r)
BY DEF StrandedFiles

LEMMA StrandedArePairs ==
  ASSUME NEW x \in StrandedFiles
  PROVE  \E r \in Runs : \E e \in Stranded(r) : x = <<r, e>>
BY DEF StrandedFiles

\* A step after which a Run has stranded files of before only.
LEMMA StrandedShrinks ==
  ASSUME \A r \in Runs : Stranded(r)' \subseteq Stranded(r)
  PROVE  StrandedFiles' \subseteq StrandedFiles
<1> SUFFICES ASSUME NEW x \in StrandedFiles' PROVE x \in StrandedFiles
  OBVIOUS
<1>1. PICK r \in Runs : \E e \in Stranded(r)' : x = <<r, e>>
  BY DEF StrandedFiles
<1>2. PICK e \in Stranded(r)' : x = <<r, e>>
  BY <1>1
<1> QED
  BY <1>2, StrandedPair

\* While an operation has not published, and begins or stays that way,
\* nothing is stranded or reclaimed.
LEMMA CallStrands ==
  ASSUME StoreInvariant, NEW p \in Procs, Call(p)
  PROVE  \A r \in Runs : Stranded(r)' \subseteq Stranded(r)
<1>0. PICK r \in Runs : \E item : Stage(p, r, item)
  BY DEF Call, BeginCreate, BeginTransition, BeginPersist
<1>1. PICK item : Stage(p, r, item)
  BY <1>0
<1>2. /\ UNCHANGED <<files, db>> /\ op \in [Procs -> Op] /\ op[p].pc = "idle"
      /\ op' = [op EXCEPT ![p] = [pc |-> "staged", run |-> r, item |-> item]]
  BY <1>1 DEF Stage, StoreInvariant, TypeOK, Idle
<1>3. \A q \in Procs : op[q].pc = "published" => op'[q] = op[q]
  BY <1>2
<1> QED
  BY <1>2, <1>3 DEF Stranded

\* The published file belongs to the operation that published it.
LEMMA PublishStrands ==
  ASSUME StoreInvariant, NEW p \in Procs, Publish(p)
  PROVE  \A r \in Runs : Stranded(r)' \subseteq Stranded(r)
<1>1. /\ op[p].run \in Runs
      /\ files' = [files EXCEPT ![op[p].run] = @ \cup {op[p].item}]
      /\ files \in [Runs -> SUBSET Record] /\ op \in [Procs -> Op]
  BY PublishAdds DEF StoreInvariant, TypeOK
<1>2. /\ op[p].pc = "staged" /\ db' = db
      /\ op' = [op EXCEPT ![p].pc = "published"]
  BY DEF Publish
<1>3. op'[p].pc = "published" /\ op'[p].run = op[p].run /\ op'[p].item = op[p].item
  BY <1>1, <1>2 DEF Op, Idle
<1>4. \A q \in Procs : op[q].pc = "published" => op'[q] = op[q]
  BY <1>1, <1>2
<1> SUFFICES ASSUME NEW r \in Runs, NEW e \in Stranded(r)'
             PROVE  e \in Stranded(r)
  OBVIOUS
<1>5. e \in files'[r] /\ (r = op[p].run => e # op[p].item)
  BY <1>3 DEF Stranded
<1>6. e \in files[r]
  BY <1>1, <1>5
<1> QED
  BY <1>2, <1>4, <1>6 DEF Stranded

\* A commit describes the file of its operation and forgets no other row.
LEMMA CommitStrands ==
  ASSUME StoreInvariant, NEW p \in Procs, Commit(p)
  PROVE  \A r \in Runs : Stranded(r)' \subseteq Stranded(r)
<1>1. /\ op[p].pc = "published" /\ files' = files
      /\ db' = [db EXCEPT ![op[p].run] = Written(db[op[p].run], op[p].item)]
      /\ op' = [op EXCEPT ![p] = Idle]
  BY DEF Commit
<1>2. op[p].run \in Runs /\ op[p].item \in Record /\ db \in [Runs -> Row] /\ op \in [Procs -> Op]
  BY <1>1, OpFacts DEF StoreInvariant, TypeOK
<1>3. \A q \in Procs : q # p => op[q].pc # "published"
  BY <1>1 DEF StoreInvariant, OneWriter, InTransaction
<1> SUFFICES ASSUME NEW r \in Runs, NEW e \in Stranded(r)'
             PROVE  e \in Stranded(r)
  OBVIOUS
<1>4. e \in files[r] /\ \A i \in 1..Len(db'[r].records) : db'[r].records[i] # e
  BY <1>1 DEF Stranded
<1>5. CASE r # op[p].run
  BY <1>1, <1>2, <1>3, <1>4, <1>5 DEF Stranded
<1>6. CASE r = op[p].run
  <2> DEFINE s == db[r].records
  <2>1. db'[r].records = Append(s, op[p].item) /\ s \in Seq(Record)
    BY <1>1, <1>2, <1>6 DEF Written, Row
  <2>2. /\ Len(Append(s, op[p].item)) = Len(s) + 1 /\ Len(s) \in Nat
        /\ Append(s, op[p].item)[Len(s) + 1] = op[p].item
        /\ \A i \in 1..Len(s) : Append(s, op[p].item)[i] = s[i]
    BY <1>2, <2>1, AppendProperties
  <2>3. e # op[p].item /\ \A i \in 1..Len(s) : s[i] # e
    BY <1>4, <2>1, <2>2
  <2> QED
    BY <1>3, <1>4, <2>3 DEF Stranded
<1> QED
  BY <1>5, <1>6

\* A failure strands the file its operation published, if it had.
LEMMA AbortStrands ==
  ASSUME StoreInvariant, NEW p \in Procs, Abort(p)
  PROVE  StrandedFiles' \subseteq StrandedFiles \cup {<<op[p].run, op[p].item>>}
<1>1. /\ UNCHANGED <<files, db>> /\ op \in [Procs -> Op]
      /\ op' = [op EXCEPT ![p] = Idle]
  BY DEF Abort, StoreInvariant, TypeOK
<1> SUFFICES ASSUME NEW x \in StrandedFiles', x # <<op[p].run, op[p].item>>
             PROVE  x \in StrandedFiles
  OBVIOUS
<1>2. PICK r \in Runs : \E e \in Stranded(r)' : x = <<r, e>>
  BY DEF StrandedFiles
<1>3. PICK e \in Stranded(r)' : x = <<r, e>>
  BY <1>2
<1>4. ~(op[p].run = r /\ op[p].item = e)
  BY <1>3
<1>5. e \in Stranded(r)
  BY <1>1, <1>3, <1>4 DEF Stranded
<1> QED
  BY <1>3, <1>5, StrandedPair

\* An element more makes a finite set larger by one at most.
LEMMA OneMore ==
  ASSUME NEW S, NEW x, IsFiniteSet(S)
  PROVE  IsFiniteSet(S \cup {x}) /\ Cardinality(S \cup {x}) <= Cardinality(S) + 1
<1>1. Cardinality(S) \in Nat
  BY FS_CardinalityType
<1> QED
  BY <1>1, FS_AddElement

\* The inductive invariant of the bound.
StrandedInvariant ==
  StoreInvariant /\ IsFiniteSet(StrandedFiles) /\ StrandedBound

LEMMA StrandedStep ==
  ASSUME StrandedInvariant, [Next]_storeVars
  PROVE  StrandedInvariant'
<1>1. /\ StoreInvariant /\ StoreInvariant'
      /\ IsFiniteSet(StrandedFiles) /\ Cardinality(StrandedFiles) <= faults
      /\ faults \in Nat
  <2>1. StoreInvariant /\ IsFiniteSet(StrandedFiles) /\ Cardinality(StrandedFiles) <= faults
    BY DEF StrandedInvariant, StrandedBound
  <2>2. StoreInvariant'
    BY <2>1, NextInvariant
  <2>3. faults \in Nat
    BY <2>1, BoundsAssumption DEF StoreInvariant, TypeOK
  <2> QED
    BY <2>1, <2>2, <2>3
<1>2. ASSUME StrandedFiles' \subseteq StrandedFiles, faults' = faults
      PROVE  StrandedInvariant'
  <2>1. IsFiniteSet(StrandedFiles') /\ Cardinality(StrandedFiles') <= Cardinality(StrandedFiles)
    BY <1>1, <1>2, FS_Subset
  <2>2. Cardinality(StrandedFiles) \in Nat /\ Cardinality(StrandedFiles') \in Nat
    BY <1>1, <2>1, FS_CardinalityType
  <2> QED
    BY <1>1, <1>2, <2>1, <2>2 DEF StrandedInvariant, StrandedBound
<1>3. ASSUME NEW p \in Procs, Call(p) \/ Publish(p) \/ Commit(p)
      PROVE  StrandedInvariant'
  <2>1. faults' = faults
    BY <1>3 DEF Call, BeginCreate, BeginTransition, BeginPersist, Stage, Publish, Commit
  <2>2. \A r \in Runs : Stranded(r)' \subseteq Stranded(r)
    BY <1>1, <1>3, CallStrands, PublishStrands, CommitStrands
  <2> QED
    BY <1>2, <2>1, <2>2, StrandedShrinks
<1>4. ASSUME NEW p \in Procs, Abort(p)
      PROVE  StrandedInvariant'
  <2> DEFINE more == StrandedFiles \cup {<<op[p].run, op[p].item>>}
  <2>1. IsFiniteSet(more) /\ Cardinality(more) <= Cardinality(StrandedFiles) + 1
    BY <1>1, OneMore
  <2>2. StrandedFiles' \subseteq more
    BY <1>1, <1>4, AbortStrands
  <2>3. IsFiniteSet(StrandedFiles') /\ Cardinality(StrandedFiles') <= Cardinality(more)
    BY <2>1, <2>2, FS_Subset
  <2>4. /\ Cardinality(StrandedFiles) \in Nat /\ Cardinality(more) \in Nat
        /\ Cardinality(StrandedFiles') \in Nat
    BY <1>1, <2>1, <2>3, FS_CardinalityType
  <2>5. faults' = faults + 1
    BY <1>4 DEF Abort
  <2> QED
    BY <1>1, <2>1, <2>3, <2>4, <2>5 DEF StrandedInvariant, StrandedBound
<1>5. CASE UNCHANGED storeVars
  <2>1. \A r \in Runs : Stranded(r)' \subseteq Stranded(r)
    BY <1>5 DEF storeVars, Stranded
  <2> QED
    BY <1>2, <1>5, <2>1, StrandedShrinks DEF storeVars
<1> QED
  BY <1>3, <1>4, <1>5 DEF Next

\* Every failure leaves at most one Evidence file that no row describes, over
\* all Runs and processes together (create_run, transition_run and _persist
\* publish before they commit).
THEOREM StrandedAlwaysBounded == Spec => []StrandedBound
<1>1. Init => StrandedInvariant
  <2> SUFFICES ASSUME Init PROVE StrandedInvariant
    OBVIOUS
  <2>1. StrandedFiles = {}
    BY DEF Init, StrandedFiles, Stranded
  <2>2. IsFiniteSet(StrandedFiles) /\ Cardinality(StrandedFiles) = 0
    BY <2>1, FS_EmptySet
  <2> QED
    BY <2>2, InitInvariant DEF Init, StrandedInvariant, StrandedBound
<1>2. StrandedInvariant /\ [Next]_storeVars => StrandedInvariant'
  BY StrandedStep
<1>3. StrandedInvariant => StrandedBound
  BY DEF StrandedInvariant
<1> QED
  BY <1>1, <1>2, <1>3, PTL DEF Spec

-----------------------------------------------------------------------------
(* The commands.                                                           *)

\* The steps of a command that hold a storage operation's transaction.
StorageSteps == {"create", "persist", "cancel"} \cup TransitionSteps

\* Command w agrees with the storage operation o of its process: a command
\* names a Run, no command is left half ended, a transaction belongs to a step
\* that opens one, a record is staged from the ledger by the step that
\* publishes it, and the candidate that a rebuild carries is a verified index.
CommandFits(w, o) ==
  /\ w.step # "idle" => w.run \in Runs
  /\ w.step = "idle" => w = NoCommand
  /\ w.step = "persist" => w.snap \in SnapshotStatus
  /\ o.pc \in {"staged", "published"} => w.step \in StorageSteps
  /\ o.pc = "append" => w.step = "append"
  /\ w.step \in {"backup", "install"} => \A r \in Runs : RowVerifies(w.candidate[r])

CommandsFit == wf \in [Procs -> Command] /\ \A p \in Procs : CommandFits(wf[p], op[p])

\* The row an open transaction read is still there.
RowsStand == \A p \in Procs : InTransaction(p) => Fits(db[op[p].run], op[p].item)

\* The part of the invariant about the two stores.
StoreFits ==
  /\ TypeOK
  /\ \A r \in Runs : IsFiniteSet(files[r])
  /\ IndexVerifies
  /\ OneWriter
  /\ RowsStand

\* The types of what remains.
RestOK ==
  /\ lease \in Procs \cup {NoProc}
  /\ sidecar \in BOOLEAN
  /\ published \in [Runs -> SnapshotStatus \cup {None}]

\* The inductive invariant.
IndexInvariant == StoreFits /\ CommandsFit /\ RestOK

-----------------------------------------------------------------------------
(* What a rebuild writes for a Run.                                         *)

\* A Snapshot's status is one, if the Run has a Snapshot.
LEMMA SnapshotOfType ==
  ASSUME NEW F \in SUBSET Record
  PROVE  SnapshotOf(F) \in SnapshotStatus \cup {None} \/ SnapshotsIn(F) = {}
<1>1. CASE SnapshotsIn(F) # {}
  <2>1. (CHOOSE e \in SnapshotsIn(F) : TRUE) \in SnapshotsIn(F)
    BY <1>1
  <2>2. (CHOOSE e \in SnapshotsIn(F) : TRUE) \in Record
    BY <2>1 DEF SnapshotsIn
  <2> QED
    BY <2>2 DEF SnapshotOf, Record
<1> QED
  BY <1>1

\* What _verify_run establishes of a directory, for its readers.
LEMMA LedgerFacts ==
  ASSUME NEW F \in SUBSET Record, IsFiniteSet(F), verify_run(F)
  PROVE  /\ Cardinality(F) \in Nat \ {0}
         /\ Chain(F) \in Seq(Record) /\ Len(Chain(F)) = Cardinality(F)
         /\ \A i \in 1..Cardinality(F) : Chain(F)[i] \in F /\ Chain(F)[i].seq = i
         /\ \A e \in F : e.seq \in 1..Cardinality(F) /\ Chain(F)[e.seq] = e
         /\ ChainVerifies(Chain(F))
         /\ LedgerStatus(F) \in RunStatus
         /\ digest(Chain(F)[Cardinality(F)]) \in Digests
         /\ Chain(F)[1].type = "run.created"
<1>1. Contiguous(F) /\ ChainVerifies(Chain(F)) /\ F # {}
  BY DEF verify_run
<1>2. /\ Cardinality(F) \in Nat
      /\ Chain(F) \in Seq(Record) /\ Len(Chain(F)) = Cardinality(F)
      /\ \A i \in 1..Cardinality(F) : Chain(F)[i] \in F /\ Chain(F)[i].seq = i
      /\ \A e \in F : e.seq \in 1..Cardinality(F) /\ Chain(F)[e.seq] = e
  BY <1>1, ChainOfFiles
<1>3. Cardinality(F) # 0
  BY <1>1, FS_EmptySet
<1>4. LedgerStatus(F) \in RunStatus
  BY <1>1, <1>2, VerifiedStatus DEF LedgerStatus
<1>5. Chain(F)[Cardinality(F)] \in Record
  BY <1>2, <1>3
<1>6. RecordVerifies(Chain(F), 1)
  BY <1>1, <1>2, <1>3 DEF ChainVerifies
<1>7. Chain(F)[1].type = "run.created"
  BY <1>6 DEF RecordVerifies
<1> QED
  BY <1>1, <1>2, <1>3, <1>4, <1>5, <1>7, DigestType

\* The row that replay writes for a directory that verified is in step with
\* its ledger.
LEMMA ReplayedVerifies ==
  ASSUME NEW F \in SUBSET Record, IsFiniteSet(F), verify_run(F)
  PROVE  ReplayedRow(F) \in Row /\ RowVerifies(ReplayedRow(F))
<1> DEFINE s == Chain(F)
           n == Cardinality(F)
           row == ReplayedRow(F)
<1>1. /\ n \in Nat \ {0} /\ s \in Seq(Record) /\ Len(s) = n /\ ChainVerifies(s)
      /\ StatusOf(s) \in RunStatus /\ digest(s[n]) \in Digests
  BY LedgerFacts DEF LedgerStatus
<1>2. /\ row.status = StatusOf(s) /\ row.last_sequence = n /\ row.last_digest = digest(s[n])
      /\ row.records = s
      /\ row.snapshot = IF SnapshotsIn(F) # {} /\ Eligible(F) THEN SnapshotOf(F) ELSE None
  BY <1>1 DEF ReplayedRow
<1>3. row.snapshot \in SnapshotStatus \cup {None}
  BY <1>2, SnapshotOfType
<1>4. "absent" \notin RunStatus
  BY DEF RunStatus
<1>5. row \in Row
  BY <1>1, <1>2, <1>3 DEF Row, ReplayedRow
<1>6. RowVerifies(row)
  BY <1>1, <1>2, <1>4 DEF RowVerifies
<1> QED
  BY <1>5, <1>6

-----------------------------------------------------------------------------
(* Types of what commands are doing.                                        *)

Steps == {"idle", "create", "scanning", "observe", "persist", "close",
          "verify", "verifying", "verified", "publish", "cancel",
          "interrupted", "append", "ensure", "recheck", "replay",
          "backup", "install"}

Thens == {"idle", "report", "ensure", "recheck"}

Cmds == {"none", "acquire", "create_snapshot", "cancel", "recover"}

\* A command, field by field.
Cmd(c, x, r, o, t, a, b) ==
  [cmd |-> c, step |-> x, run |-> r, snap |-> o, then |-> t, candidate |-> a, backup |-> b]

\* A command is its fields, and fields of the right types make a command.
LEMMA CommandIsFields ==
  /\ \A w \in Command :
       w = Cmd(w.cmd, w.step, w.run, w.snap, w.then, w.candidate, w.backup)
  /\ \A c \in Cmds, x \in Steps, r \in Runs \cup {NoRun}, o \in SnapshotStatus \cup {None},
        t \in Thens, a, b \in [Runs -> Row] : Cmd(c, x, r, o, t, a, b) \in Command
  /\ \A w \in Command : /\ w.cmd \in Cmds /\ w.step \in Steps /\ w.run \in Runs \cup {NoRun}
                        /\ w.snap \in SnapshotStatus \cup {None} /\ w.then \in Thens
                        /\ w.candidate \in [Runs -> Row] /\ w.backup \in [Runs -> Row]
<1>1. \A w \in Command :
        w = Cmd(w.cmd, w.step, w.run, w.snap, w.then, w.candidate, w.backup)
  BY DEF Command, Cmd
<1>2. \A c \in Cmds, x \in Steps, r \in Runs \cup {NoRun}, o \in SnapshotStatus \cup {None},
         t \in Thens, a, b \in [Runs -> Row] : Cmd(c, x, r, o, t, a, b) \in Command
  BY DEF Command, Cmd, Cmds, Steps, Thens
<1>3. \A w \in Command : /\ w.cmd \in Cmds /\ w.step \in Steps /\ w.run \in Runs \cup {NoRun}
                         /\ w.snap \in SnapshotStatus \cup {None} /\ w.then \in Thens
                         /\ w.candidate \in [Runs -> Row] /\ w.backup \in [Runs -> Row]
  BY DEF Command, Cmds, Steps, Thens
<1> QED
  BY <1>1, <1>2, <1>3

\* A field of a command gets another value of its type.
LEMMA FieldsTyped ==
  ASSUME NEW w \in Command
  PROVE  /\ \A x \in Steps :
              Cmd(w.cmd, x, w.run, w.snap, w.then, w.candidate, w.backup) \in Command
         /\ \A x \in SnapshotStatus :
              Cmd(w.cmd, w.step, w.run, x, w.then, w.candidate, w.backup) \in Command
         /\ \A x \in Thens :
              Cmd(w.cmd, w.step, w.run, w.snap, x, w.candidate, w.backup) \in Command
         /\ \A x \in [Runs -> Row] :
              /\ Cmd(w.cmd, w.step, w.run, w.snap, w.then, x, w.backup) \in Command
              /\ Cmd(w.cmd, w.step, w.run, w.snap, w.then, w.candidate, x) \in Command
BY CommandIsFields

LEMMA StepChanged ==
  ASSUME NEW w \in Command, NEW x \in Steps, NEW v, v = [w EXCEPT !.step = x]
  PROVE  /\ v \in Command
         /\ v.cmd = w.cmd /\ v.step = x /\ v.run = w.run /\ v.snap = w.snap
         /\ v.then = w.then /\ v.candidate = w.candidate /\ v.backup = w.backup
<1>1. v = Cmd(w.cmd, x, w.run, w.snap, w.then, w.candidate, w.backup)
  BY DEF Command, Cmd
<1>2. Cmd(w.cmd, x, w.run, w.snap, w.then, w.candidate, w.backup) \in Command
  BY FieldsTyped
<1>3. /\ v.cmd = w.cmd /\ v.step = x /\ v.run = w.run /\ v.snap = w.snap
      /\ v.then = w.then /\ v.candidate = w.candidate /\ v.backup = w.backup
  BY <1>1 DEF Cmd
<1> QED
  BY <1>1, <1>2, <1>3, Zenon

LEMMA SnapChanged ==
  ASSUME NEW w \in Command, NEW x \in SnapshotStatus, NEW v, v = [w EXCEPT !.snap = x]
  PROVE  /\ v \in Command
         /\ v.cmd = w.cmd /\ v.step = w.step /\ v.run = w.run /\ v.snap = x
         /\ v.then = w.then /\ v.candidate = w.candidate /\ v.backup = w.backup
<1>1. v = Cmd(w.cmd, w.step, w.run, x, w.then, w.candidate, w.backup)
  BY DEF Command, Cmd
<1>2. Cmd(w.cmd, w.step, w.run, x, w.then, w.candidate, w.backup) \in Command
  BY FieldsTyped
<1>3. /\ v.cmd = w.cmd /\ v.step = w.step /\ v.run = w.run /\ v.snap = x
      /\ v.then = w.then /\ v.candidate = w.candidate /\ v.backup = w.backup
  BY <1>1 DEF Cmd
<1> QED
  BY <1>1, <1>2, <1>3, Zenon

LEMMA ThenChanged ==
  ASSUME NEW w \in Command, NEW x \in Thens, NEW v, v = [w EXCEPT !.then = x]
  PROVE  /\ v \in Command
         /\ v.cmd = w.cmd /\ v.step = w.step /\ v.run = w.run /\ v.snap = w.snap
         /\ v.then = x /\ v.candidate = w.candidate /\ v.backup = w.backup
<1>1. v = Cmd(w.cmd, w.step, w.run, w.snap, x, w.candidate, w.backup)
  BY DEF Command, Cmd
<1>2. Cmd(w.cmd, w.step, w.run, w.snap, x, w.candidate, w.backup) \in Command
  BY FieldsTyped
<1>3. /\ v.cmd = w.cmd /\ v.step = w.step /\ v.run = w.run /\ v.snap = w.snap
      /\ v.then = x /\ v.candidate = w.candidate /\ v.backup = w.backup
  BY <1>1 DEF Cmd
<1> QED
  BY <1>1, <1>2, <1>3, Zenon

LEMMA CandidateChanged ==
  ASSUME NEW w \in Command, NEW x \in [Runs -> Row], NEW v, v = [w EXCEPT !.candidate = x]
  PROVE  /\ v \in Command
         /\ v.cmd = w.cmd /\ v.step = w.step /\ v.run = w.run /\ v.snap = w.snap
         /\ v.then = w.then /\ v.candidate = x /\ v.backup = w.backup
<1>1. v = Cmd(w.cmd, w.step, w.run, w.snap, w.then, x, w.backup)
  BY DEF Command, Cmd
<1>2. Cmd(w.cmd, w.step, w.run, w.snap, w.then, x, w.backup) \in Command
  BY FieldsTyped
<1>3. /\ v.cmd = w.cmd /\ v.step = w.step /\ v.run = w.run /\ v.snap = w.snap
      /\ v.then = w.then /\ v.candidate = x /\ v.backup = w.backup
  BY <1>1 DEF Cmd
<1> QED
  BY <1>1, <1>2, <1>3, Zenon

LEMMA BackupChanged ==
  ASSUME NEW w \in Command, NEW x \in [Runs -> Row], NEW v, v = [w EXCEPT !.backup = x]
  PROVE  /\ v \in Command
         /\ v.cmd = w.cmd /\ v.step = w.step /\ v.run = w.run /\ v.snap = w.snap
         /\ v.then = w.then /\ v.candidate = w.candidate /\ v.backup = x
<1>1. v = Cmd(w.cmd, w.step, w.run, w.snap, w.then, w.candidate, x)
  BY DEF Command, Cmd
<1>2. Cmd(w.cmd, w.step, w.run, w.snap, w.then, w.candidate, x) \in Command
  BY FieldsTyped
<1>3. /\ v.cmd = w.cmd /\ v.step = w.step /\ v.run = w.run /\ v.snap = w.snap
      /\ v.then = w.then /\ v.candidate = w.candidate /\ v.backup = x
  BY <1>1 DEF Cmd
<1> QED
  BY <1>1, <1>2, <1>3, Zenon

LEMMA EmptyDbType == EmptyDb \in [Runs -> Row]
BY NoRowVerifies DEF EmptyDb

LEMMA NoCommandFits ==
  /\ NoCommand \in Command /\ NoCommand.step = "idle" /\ NoCommand.cmd = "none"
  /\ CommandFits(NoCommand, Idle)
<1>1. NoCommand \in Command /\ NoCommand.step = "idle" /\ NoCommand.cmd = "none"
  BY EmptyDbType DEF NoCommand, Command
<1> QED
  BY <1>1, IdleFacts DEF CommandFits

\* A command that has just begun.
LEMMA RunningFacts ==
  ASSUME NEW p, NEW cmd \in Cmds, NEW x \in Steps, NEW r \in Runs
  PROVE  /\ Running(p, cmd, x, r) = Cmd(cmd, x, r, None, "idle", EmptyDb, EmptyDb)
         /\ Running(p, cmd, x, r) \in Command
         /\ Running(p, cmd, x, r).step = x /\ Running(p, cmd, x, r).run = r
<1> DEFINE u == [NoCommand EXCEPT !.cmd = cmd]
           v == [u EXCEPT !.step = x]
<1>1. NoCommand = Cmd("none", "idle", NoRun, None, "idle", EmptyDb, EmptyDb)
  BY DEF NoCommand, Cmd
<1>2. u = Cmd(cmd, "idle", NoRun, None, "idle", EmptyDb, EmptyDb)
  BY <1>1 DEF Cmd
<1>3. Running(p, cmd, x, r) = [v EXCEPT !.run = r]
  BY DEF Running
<1> HIDE DEF u
<1>4. v = Cmd(cmd, x, NoRun, None, "idle", EmptyDb, EmptyDb)
  BY <1>2 DEF Cmd
<1> HIDE DEF v
<1>5. [v EXCEPT !.run = r] = Cmd(cmd, x, r, None, "idle", EmptyDb, EmptyDb)
  BY <1>4 DEF Cmd
<1>6. Running(p, cmd, x, r) = Cmd(cmd, x, r, None, "idle", EmptyDb, EmptyDb)
  BY <1>3, <1>5
<1>7. Cmd(cmd, x, r, None, "idle", EmptyDb, EmptyDb) \in Command
  BY CommandIsFields, EmptyDbType DEF Thens
<1> QED
  BY <1>6, <1>7 DEF Cmd

LEMMA RecoveringFacts ==
  ASSUME NEW p, NEW x \in Steps, NEW r \in Runs, NEW t \in Thens
  PROVE  /\ Recovering(p, r, x, t) \in Command
         /\ Recovering(p, r, x, t).step = x /\ Recovering(p, r, x, t).run = r
<1> DEFINE u == Running(p, "recover", x, r)
<1>1. u = Cmd("recover", x, r, None, "idle", EmptyDb, EmptyDb)
  BY RunningFacts DEF Cmds
<1>2. Recovering(p, r, x, t) = [u EXCEPT !.then = t]
  BY DEF Recovering
<1> HIDE DEF u
<1>3. Recovering(p, r, x, t) = Cmd("recover", x, r, None, t, EmptyDb, EmptyDb)
  BY <1>1, <1>2 DEF Cmd
<1>4. Cmd("recover", x, r, None, t, EmptyDb, EmptyDb) \in Command
  BY CommandIsFields, EmptyDbType DEF Cmds
<1> QED
  BY <1>3, <1>4 DEF Cmd

-----------------------------------------------------------------------------
(* What the steps do to the two stores.                                     *)

\* The two databases and the directories stay; p's operation may end.
LEMMA StoreKept ==
  ASSUME StoreFits, NEW p \in Procs, UNCHANGED <<files, db>>, faults' \in 0..MaxFaults,
         op' = op \/ op' = [op EXCEPT ![p] = Idle]
  PROVE  StoreFits' /\ \A q \in Procs : op'[q] = op[q] \/ (q = p /\ op'[q] = Idle)
<1>1. op \in [Procs -> Op]
  BY DEF StoreFits, TypeOK
<1>2. \A q \in Procs : op'[q] = op[q] \/ (q = p /\ op'[q] = Idle)
  BY <1>1
<1>3. \A q \in Procs : op'[q] = op[q] \/ op'[q].pc = "idle"
  BY <1>2, IdleFacts
<1>4. TypeOK'
  BY <1>1, IdleFacts DEF StoreFits, TypeOK
<1>5. OneWriter' /\ RowsStand'
  BY <1>3 DEF StoreFits, OneWriter, RowsStand, InTransaction
<1>6. IndexVerifies' /\ \A r \in Runs : IsFiniteSet(files'[r])
  BY DEF StoreFits, IndexVerifies
<1> QED
  BY <1>2, <1>4, <1>5, <1>6 DEF StoreFits

\* An operation begins: it read the row, and nobody else may begin.
LEMMA StoreStages ==
  ASSUME StoreFits, NEW p \in Procs, NEW r \in Runs, NEW item \in Record,
         Fits(db[r], item), Stage(p, r, item)
  PROVE  /\ StoreFits' /\ op'[p].pc = "staged"
         /\ \A q \in Procs : q # p => op'[q] = op[q]
<1> DEFINE o == [pc |-> "staged", run |-> r, item |-> item]
<1>1. op \in [Procs -> Op] /\ op' = [op EXCEPT ![p] = o] /\ o \in Op
  BY DEF StoreFits, TypeOK, Stage, Op
<1>2. UNCHANGED <<files, db, faults>> /\ \A q \in Procs : ~InTransaction(q)
  BY DEF Stage, WriteLockFree
<1>3. \A q \in Procs : q # p => op'[q] = op[q] /\ ~InTransaction(q)'
  BY <1>1, <1>2 DEF InTransaction
<1>4. op'[p] = o
  BY <1>1
<1>5. TypeOK'
  BY <1>1, <1>2 DEF StoreFits, TypeOK
<1>6. OneWriter'
  BY <1>3 DEF OneWriter
<1>7. RowsStand'
  <2> SUFFICES ASSUME NEW q \in Procs, InTransaction(q)'
               PROVE  Fits(db'[op'[q].run], op'[q].item)
    BY DEF RowsStand
  <2>1. q = p
    BY <1>3
  <2> QED
    BY <1>2, <1>4, <2>1
<1>8. IndexVerifies' /\ \A x \in Runs : IsFiniteSet(files'[x])
  BY <1>2 DEF StoreFits, IndexVerifies
<1> QED
  BY <1>3, <1>4, <1>5, <1>6, <1>7, <1>8 DEF StoreFits

\* A record is built from the ledger, outside any transaction.
LEMMA StoreStagesAppend ==
  ASSUME StoreFits, NEW p \in Procs, NEW r \in Runs, NEW t \in RunStatus,
         LedgerReadable(r), StageAppend(p, r, t)
  PROVE  /\ StoreFits' /\ op'[p].pc = "append"
         /\ \A q \in Procs : q # p => op'[q] = op[q]
<1> DEFINE item == TransitionRecord(Cardinality(files[r]),
                     digest(Chain(files[r])[Cardinality(files[r])]),
                     LedgerStatus(files[r]), t, "ledger")
           o == [pc |-> "append", run |-> r, item |-> item]
<1>1. files[r] \in SUBSET Record /\ IsFiniteSet(files[r]) /\ verify_run(files[r])
  BY DEF StoreFits, TypeOK, LedgerReadable
<1>2. item \in Record
  <2>1. /\ Cardinality(files[r]) \in Nat /\ LedgerStatus(files[r]) \in RunStatus
        /\ digest(Chain(files[r])[Cardinality(files[r])]) \in Digests
    BY <1>1, LedgerFacts
  <2> QED
    BY <2>1, RecordTypes DEF Via
<1>3. op \in [Procs -> Op] /\ op' = [op EXCEPT ![p] = o] /\ UNCHANGED <<files, db, faults>>
  BY DEF StoreFits, TypeOK, StageAppend
<1> HIDE DEF item
<1>4. o \in Op /\ o.pc = "append"
  BY <1>2 DEF Op
<1> HIDE DEF o
<1>5. op'[p] = o /\ \A q \in Procs : q # p => op'[q] = op[q]
  BY <1>3
<1>6. \A q \in Procs : InTransaction(q)' => InTransaction(q) /\ op'[q] = op[q]
  BY <1>4, <1>5 DEF InTransaction
<1>7. TypeOK'
  BY <1>3, <1>4 DEF StoreFits, TypeOK
<1>8. OneWriter' /\ RowsStand'
  BY <1>3, <1>6 DEF StoreFits, OneWriter, RowsStand
<1>9. IndexVerifies' /\ \A x \in Runs : IsFiniteSet(files'[x])
  BY <1>3 DEF StoreFits, IndexVerifies
<1> QED
  BY <1>4, <1>5, <1>7, <1>8, <1>9 DEF StoreFits

\* A file is put under its name, whether the name is free or not.
LEMMA ReplacedFiles ==
  ASSUME StoreFits, NEW r \in Runs, NEW item \in Record, files' = Replaced(r, item)
  PROVE  files' \in [Runs -> SUBSET Record] /\ \A x \in Runs : IsFiniteSet(files'[x])
<1> DEFINE kept == {e \in files[r] : filename(e) # filename(item)}
<1>1. files \in [Runs -> SUBSET Record] /\ \A x \in Runs : IsFiniteSet(files[x])
  BY DEF StoreFits, TypeOK
<1>2. files' = [files EXCEPT ![r] = kept \cup {item}]
  BY DEF Replaced
<1>3. kept \in SUBSET files[r] /\ IsFiniteSet(kept)
  BY <1>1, FS_Subset
<1> HIDE DEF kept
<1>4. IsFiniteSet(kept \cup {item})
  BY <1>3, FS_AddElement
<1>5. kept \cup {item} \in SUBSET Record
  BY <1>1, <1>3
<1>6. files' \in [Runs -> SUBSET Record]
  BY <1>1, <1>2, <1>5
<1>7. \A x \in Runs : IsFiniteSet(files'[x])
  BY <1>1, <1>2, <1>4
<1> QED
  BY <1>6, <1>7

LEMMA StorePublishes ==
  ASSUME StoreFits, NEW p \in Procs, Publish(p)
  PROVE  /\ StoreFits' /\ op[p].pc = "staged" /\ op'[p].pc = "published"
         /\ \A q \in Procs : q # p => op'[q] = op[q]
<1>1. /\ op[p].pc = "staged" /\ UNCHANGED <<db, faults>>
      /\ op' = [op EXCEPT ![p].pc = "published"] /\ files' = Replaced(op[p].run, op[p].item)
      /\ op \in [Procs -> Op]
  BY DEF Publish, StoreFits, TypeOK
<1>2. op[p].run \in Runs /\ op[p].item \in Record
  BY <1>1, OpFacts DEF StoreFits
<1>3. files' \in [Runs -> SUBSET Record] /\ \A x \in Runs : IsFiniteSet(files'[x])
  BY <1>1, <1>2, ReplacedFiles
<1>4. /\ op'[p].pc = "published" /\ op'[p].run = op[p].run /\ op'[p].item = op[p].item
      /\ op'[p] \in Op
  BY <1>1 DEF Op, Idle
<1>5. \A q \in Procs : q # p => op'[q] = op[q]
  BY <1>1
<1>6. op' \in [Procs -> Op]
  BY <1>1, <1>4, <1>5
<1>7. TypeOK'
  BY <1>1, <1>3, <1>6 DEF StoreFits, TypeOK
<1>8. \A q \in Procs : InTransaction(q)' => /\ InTransaction(q) /\ op'[q].run = op[q].run
                                            /\ op'[q].item = op[q].item
  BY <1>1, <1>4, <1>5 DEF InTransaction
<1>9. OneWriter' /\ RowsStand'
  BY <1>1, <1>8 DEF StoreFits, OneWriter, RowsStand
<1>10. IndexVerifies'
  BY <1>1 DEF StoreFits, IndexVerifies
<1> QED
  BY <1>1, <1>3, <1>4, <1>5, <1>7, <1>9, <1>10 DEF StoreFits

LEMMA StoreAppends ==
  ASSUME StoreFits, NEW p \in Procs, op[p].pc = "append",
         files' = Replaced(op[p].run, op[p].item), op' = [op EXCEPT ![p] = Idle],
         UNCHANGED <<db, faults>>
  PROVE  /\ StoreFits' /\ op'[p] = Idle
         /\ \A q \in Procs : q # p => op'[q] = op[q]
<1>1. op \in [Procs -> Op] /\ op[p].run \in Runs /\ op[p].item \in Record
  BY OpFacts DEF StoreFits, TypeOK
<1>2. files' \in [Runs -> SUBSET Record] /\ \A x \in Runs : IsFiniteSet(files'[x])
  BY <1>1, ReplacedFiles
<1>3. op'[p] = Idle /\ \A q \in Procs : q # p => op'[q] = op[q]
  BY <1>1
<1>4. \A q \in Procs : InTransaction(q)' => InTransaction(q) /\ op'[q] = op[q]
  BY <1>3, IdleFacts DEF InTransaction
<1>5. TypeOK'
  BY <1>1, <1>2, IdleFacts DEF StoreFits, TypeOK
<1>6. OneWriter' /\ RowsStand'
  BY <1>4 DEF StoreFits, OneWriter, RowsStand
<1>7. IndexVerifies'
  BY DEF StoreFits, IndexVerifies
<1> QED
  BY <1>2, <1>3, <1>5, <1>6, <1>7 DEF StoreFits

\* The rows of a record are committed: the row the record was built from is
\* the row it finds.
LEMMA StoreCommits ==
  ASSUME StoreFits, NEW p \in Procs, Commit(p)
  PROVE  /\ StoreFits' /\ InTransaction(p) /\ op'[p] = Idle
         /\ \A q \in Procs : q # p => op'[q] = op[q]
<1> DEFINE r == op[p].run
           item == op[p].item
<1>1. /\ op[p].pc = "published" /\ UNCHANGED <<files, faults>>
      /\ db' = [db EXCEPT ![r] = Written(db[r], item)]
      /\ op' = [op EXCEPT ![p] = Idle]
  BY DEF Commit
<1>2. InTransaction(p)
  BY <1>1 DEF InTransaction
<1>3. /\ r \in Runs /\ item \in Record
      /\ db \in [Runs -> Row] /\ op \in [Procs -> Op]
      /\ RowVerifies(db[r]) /\ Fits(db[r], item)
  BY <1>1, <1>2, OpFacts DEF StoreFits, TypeOK, IndexVerifies, RowsStand
<1>4. Written(db[r], item) \in Row /\ RowVerifies(Written(db[r], item))
  BY <1>3, WrittenVerifies
<1>5. op'[p] = Idle /\ \A q \in Procs : q # p => op'[q] = op[q]
  BY <1>1, <1>3
<1>6. \A q \in Procs : ~InTransaction(q)'
  BY <1>2, <1>5, IdleFacts DEF StoreFits, OneWriter, InTransaction
<1>7. TypeOK'
  BY <1>1, <1>3, <1>4, IdleFacts DEF StoreFits, TypeOK
<1>8. IndexVerifies'
  BY <1>1, <1>3, <1>4 DEF StoreFits, IndexVerifies
<1>9. OneWriter' /\ RowsStand' /\ \A x \in Runs : IsFiniteSet(files'[x])
  BY <1>1, <1>6 DEF StoreFits, OneWriter, RowsStand
<1> QED
  BY <1>2, <1>5, <1>7, <1>8, <1>9 DEF StoreFits

\* A verified database replaces the index while no transaction is open.
LEMMA StoreInstalls ==
  ASSUME StoreFits, db' \in [Runs -> Row], \A r \in Runs : RowVerifies(db'[r]),
         \A q \in Procs : ~InTransaction(q), UNCHANGED <<files, op, faults>>
  PROVE  StoreFits'
<1>1. TypeOK'
  BY DEF StoreFits, TypeOK
<1>2. IndexVerifies'
  BY DEF IndexVerifies
<1>3. OneWriter' /\ RowsStand' /\ \A x \in Runs : IsFiniteSet(files'[x])
  BY DEF StoreFits, OneWriter, RowsStand, InTransaction
<1> QED
  BY <1>1, <1>2, <1>3 DEF StoreFits

-----------------------------------------------------------------------------
(* What the steps do to the commands.                                       *)

\* Process p's command becomes w, p's operation may change.
LEMMA CommandMoves ==
  ASSUME CommandsFit, NEW p \in Procs, NEW w \in Command, wf' = [wf EXCEPT ![p] = w],
         \A q \in Procs : q # p => op'[q] = op[q], CommandFits(w, op'[p])
  PROVE  CommandsFit'
<1>1. wf \in [Procs -> Command] /\ wf' \in [Procs -> Command] /\ wf'[p] = w
  BY DEF CommandsFit
<1>2. \A q \in Procs : q # p => wf'[q] = wf[q] /\ op'[q] = op[q]
  BY <1>1
<1>3. \A q \in Procs : CommandFits(wf'[q], op'[q])
  BY <1>1, <1>2 DEF CommandsFit
<1> QED
  BY <1>1, <1>3 DEF CommandsFit

LEMMA CommandStays ==
  ASSUME CommandsFit, NEW p \in Procs, UNCHANGED wf,
         \A q \in Procs : q # p => op'[q] = op[q], CommandFits(wf[p], op'[p])
  PROVE  CommandsFit'
<1>1. \A q \in Procs : CommandFits(wf'[q], op'[q])
  BY DEF CommandsFit
<1> QED
  BY <1>1 DEF CommandsFit

\* Outside the steps that hold a transaction or a staged record the process
\* holds no operation.
LEMMA RestingOp ==
  ASSUME IndexInvariant, NEW p \in Procs, wf[p].step \notin StorageSteps \cup {"append"}
  PROVE  op[p] = Idle /\ ~InTransaction(p)
<1>1. op[p] \in Op /\ CommandFits(wf[p], op[p])
  BY DEF IndexInvariant, StoreFits, TypeOK, CommandsFit
<1>2. op[p].pc \notin {"staged", "published", "append"}
  BY <1>1 DEF CommandFits
<1> QED
  BY <1>1, <1>2 DEF Op, InTransaction

\* A command that goes on to another step.
LEMMA CommandGoes ==
  ASSUME IndexInvariant, NEW p \in Procs, wf[p].step # "idle",
         NEW x \in Steps \ {"idle", "persist", "backup", "install"},
         wf' = [wf EXCEPT ![p].step = x]
  PROVE  LET w == [wf[p] EXCEPT !.step = x]
         IN  /\ wf' = [wf EXCEPT ![p] = w] /\ w \in Command /\ CommandFits(w, Idle)
             /\ w.step = x /\ w.run = wf[p].run /\ w.run \in Runs
<1> DEFINE w == [wf[p] EXCEPT !.step = x]
<1>1. wf \in [Procs -> Command] /\ wf[p] \in Command /\ wf[p].run \in Runs
  BY DEF IndexInvariant, CommandsFit, CommandFits
<1>2. wf' = [wf EXCEPT ![p] = w]
  BY <1>1
<1>3. w \in Command /\ w.step = x /\ w.run = wf[p].run
  <2>1. x \in Steps /\ w = [wf[p] EXCEPT !.step = x]
    OBVIOUS
  <2> HIDE DEF w
  <2> QED
    BY <1>1, <2>1, StepChanged
<1>6. CommandFits(w, Idle)
  <2> HIDE DEF w
  <2> QED
    BY <1>1, <1>3, IdleFacts DEF CommandFits
<1> QED
  BY <1>1, <1>2, <1>3, <1>6

\* A command that ends.
LEMMA CommandLeaves ==
  ASSUME IndexInvariant, NEW p \in Procs, Leave(p), op'[p] = Idle,
         \A q \in Procs : q # p => op'[q] = op[q]
  PROVE  CommandsFit' /\ lease' \in Procs \cup {NoProc}
<1>1. CommandsFit'
  BY CommandMoves, NoCommandFits DEF IndexInvariant, Leave
<1>2. lease' \in Procs \cup {NoProc}
  BY DEF IndexInvariant, RestOK, Leave
<1> QED
  BY <1>1, <1>2

-----------------------------------------------------------------------------
(* The inductive invariant holds through every step.                        *)

LEMMA IndexInit == AcquisitionInit => IndexInvariant
<1> SUFFICES ASSUME AcquisitionInit PROVE IndexInvariant
  OBVIOUS
<1>1. Init
  BY DEF AcquisitionInit
<1>2. TypeOK /\ IndexVerifies /\ OneWriter
  BY <1>1, InitInvariant DEF StoreInvariant
<1>3. \A r \in Runs : IsFiniteSet(files[r])
  BY <1>1, FS_EmptySet DEF Init
<1>4. \A p \in Procs : op[p] = Idle /\ ~InTransaction(p)
  BY <1>1, IdleFacts DEF Init, InTransaction
<1>5. StoreFits
  BY <1>2, <1>3, <1>4 DEF StoreFits, RowsStand
<1>6. wf = [p \in Procs |-> NoCommand]
  BY DEF AcquisitionInit
<1>7. CommandsFit
  BY <1>4, <1>6, NoCommandFits DEF CommandsFit
<1>8. RestOK
  BY DEF AcquisitionInit, RestOK
<1> QED
  BY <1>5, <1>7, <1>8 DEF IndexInvariant

\* A storage operation begins under a command that has just begun.
LEMMA StartStep ==
  ASSUME IndexInvariant, NEW p \in Procs, NEW r \in Runs, NEW item \in Record,
         Fits(db[r], item), Stage(p, r, item),
         NEW cmd \in Cmds, NEW x \in StorageSteps \ {"persist"},
         wf' = [wf EXCEPT ![p] = Running(p, cmd, x, r)], RestOK'
  PROVE  IndexInvariant'
<1>1. /\ StoreFits' /\ op'[p].pc = "staged"
      /\ \A q \in Procs : q # p => op'[q] = op[q]
  BY StoreStages DEF IndexInvariant
<1>2. x \in Steps /\ x \notin {"idle", "persist", "backup", "install"}
  BY DEF StorageSteps, TransitionSteps, Steps
<1>3. /\ Running(p, cmd, x, r) \in Command /\ Running(p, cmd, x, r).step = x
      /\ Running(p, cmd, x, r).run = r
  BY <1>2, RunningFacts
<1>4. CommandFits(Running(p, cmd, x, r), op'[p])
  BY <1>1, <1>2, <1>3 DEF CommandFits
<1>5. CommandsFit'
  BY <1>1, <1>3, <1>4, CommandMoves DEF IndexInvariant
<1> QED
  BY <1>1, <1>5 DEF IndexInvariant

LEMMA StartCommandStep ==
  ASSUME IndexInvariant, NEW p \in Procs, StartCommand(p)
  PROVE  IndexInvariant'
<1>1. \A r \in Runs : db[r] \in Row
  BY DEF IndexInvariant, StoreFits, TypeOK
<1>2. /\ "acquire" \in Cmds /\ "create_snapshot" \in Cmds /\ "cancel" \in Cmds
      /\ "create" \in StorageSteps \ {"persist"} /\ "cancel" \in StorageSteps \ {"persist"}
  BY DEF Cmds, StorageSteps
<1>3. \A m \in Origin : CreatedRecord(m) \in Record /\ CreatedRecord(m).type = "run.created"
                        /\ CreatedRecord(m).meta = m
  BY RecordTypes DEF CreatedRecord
<1>4. "governed" \in Origin /\ "plain" \in Origin
  BY DEF Origin
<1>5. ASSUME NEW r \in Runs, StartAcquire(p, r)
      PROVE  IndexInvariant'
  <2>1. Fits(db[r], CreatedRecord("governed")) /\ Stage(p, r, CreatedRecord("governed"))
    BY <1>3, <1>4, <1>5 DEF StartAcquire, BeginCreate, Fits
  <2>2. RestOK'
    BY <1>5 DEF IndexInvariant, RestOK, StartAcquire
  <2>3. wf' = [wf EXCEPT ![p] = Running(p, "acquire", "create", r)]
    BY <1>5 DEF StartAcquire
  <2> QED
    BY <1>2, <1>3, <1>4, <2>1, <2>2, <2>3, StartStep
<1>6. ASSUME NEW r \in Runs, StartCreateSnapshot(p, r)
      PROVE  IndexInvariant'
  <2>1. Fits(db[r], CreatedRecord("plain")) /\ Stage(p, r, CreatedRecord("plain"))
    BY <1>3, <1>4, <1>6 DEF StartCreateSnapshot, BeginCreate, Fits
  <2>2. RestOK'
    BY <1>6 DEF IndexInvariant, RestOK, StartCreateSnapshot
  <2>3. wf' = [wf EXCEPT ![p] = Running(p, "create_snapshot", "create", r)]
    BY <1>6 DEF StartCreateSnapshot
  <2> QED
    BY <1>2, <1>3, <1>4, <2>1, <2>2, <2>3, StartStep
<1>7. ASSUME NEW r \in Runs, StartCancel(p, r)
      PROVE  IndexInvariant'
  <2> DEFINE item == TransitionRecord(db[r].last_sequence, db[r].last_digest,
                                      db[r].status, "cancelled", "index")
  <2>1. /\ db[r].status # "absent" /\ validate_transition(db[r].status, "cancelled")
        /\ Stage(p, r, item)
        /\ db[r].status \in RunStatus /\ db[r].last_sequence \in Nat /\ db[r].last_digest \in Digests
    BY <1>1, <1>7 DEF StartCancel, BeginTransition, Row
  <2>2. "cancelled" \in RunStatus
    BY DEF RunStatus
  <2>3. item \in Record
    BY <2>1, <2>2, RecordTypes DEF Via
  <2>4. Fits(db[r], item)
    BY <2>1, <2>2 DEF Fits, TransitionRecord
  <2>5. RestOK'
    BY <1>7 DEF IndexInvariant, RestOK, StartCancel
  <2>6. wf' = [wf EXCEPT ![p] = Running(p, "cancel", "cancel", r)]
    BY <1>7 DEF StartCancel
  <2> HIDE DEF item
  <2> QED
    BY <1>2, <2>1, <2>3, <2>4, <2>5, <2>6, StartStep
<1> QED
  BY <1>5, <1>6, <1>7 DEF StartCommand

\* Recovery begins with a record from the ledger, or with no operation.
LEMMA StartRecoverStep ==
  ASSUME IndexInvariant, NEW p \in Procs, wf[p] = NoCommand, NEW r \in Runs, StartRecover(p, r)
  PROVE  IndexInvariant'
<1>1. lease' = p /\ LedgerReadable(r) /\ UNCHANGED <<sidecar, published>>
  BY DEF StartRecover
<1>2. RestOK'
  BY <1>1 DEF IndexInvariant, RestOK
<1>3. /\ "append" \in Steps /\ "ensure" \in Steps /\ "replay" \in Steps
      /\ "report" \in Thens /\ "ensure" \in Thens /\ "recheck" \in Thens
  BY DEF Steps, Thens
<1>4. ASSUME NEW t \in RunStatus, NEW then \in Thens, StageAppend(p, r, t),
             wf' = [wf EXCEPT ![p] = Recovering(p, r, "append", then)]
      PROVE  IndexInvariant'
  <2>1. /\ StoreFits' /\ op'[p].pc = "append"
        /\ \A q \in Procs : q # p => op'[q] = op[q]
    BY <1>1, <1>4, StoreStagesAppend DEF IndexInvariant
  <2>2. /\ Recovering(p, r, "append", then) \in Command
        /\ Recovering(p, r, "append", then).step = "append"
        /\ Recovering(p, r, "append", then).run = r
    BY <1>3, RecoveringFacts
  <2>3. CommandFits(Recovering(p, r, "append", then), op'[p])
    BY <2>1, <2>2 DEF CommandFits
  <2>4. CommandsFit'
    BY <1>4, <2>1, <2>2, <2>3, CommandMoves DEF IndexInvariant
  <2> QED
    BY <1>2, <2>1, <2>4 DEF IndexInvariant
<1>5. ASSUME NEW x \in {"ensure", "replay"}, NEW then \in Thens, UNCHANGED storeVars,
             wf' = [wf EXCEPT ![p] = Recovering(p, r, x, then)]
      PROVE  IndexInvariant'
  <2>1. x \in Steps
    BY <1>3
  <2>2. op' = op /\ op[p] = Idle
    BY <1>5, NoCommandFits, RestingOp DEF storeVars, StorageSteps, TransitionSteps
  <2>3. StoreFits'
    BY <1>5, StoreKept DEF IndexInvariant, StoreFits, TypeOK, storeVars
  <2>4. /\ Recovering(p, r, x, then) \in Command /\ Recovering(p, r, x, then).step = x
        /\ Recovering(p, r, x, then).run = r
    BY <2>1, RecoveringFacts
  <2>5. CommandFits(Recovering(p, r, x, then), op'[p])
    BY <2>2, <2>4, IdleFacts DEF CommandFits
  <2>6. CommandsFit'
    BY <1>5, <2>2, <2>4, <2>5, CommandMoves DEF IndexInvariant
  <2> QED
    BY <1>2, <2>3, <2>6 DEF IndexInvariant
<1>6. "failed" \in RunStatus /\ expected_run_status(SnapshotOf(files[r])) \in RunStatus
  BY DEF RunStatus, expected_run_status
<1>7. CASE /\ StageAppend(p, r, "failed")
           /\ wf' = [wf EXCEPT ![p] = Recovering(p, r, "append", "report")]
  BY <1>3, <1>4, <1>6, <1>7
<1>8. CASE /\ StageAppend(p, r, expected_run_status(SnapshotOf(files[r])))
           /\ wf' = [wf EXCEPT ![p] = Recovering(p, r, "append", "ensure")]
  BY <1>3, <1>4, <1>6, <1>8
<1>9. CASE /\ wf' = [wf EXCEPT ![p] = Recovering(p, r, "ensure", "recheck")]
           /\ UNCHANGED storeVars
  BY <1>3, <1>5, <1>9
<1>10. CASE /\ wf' = [wf EXCEPT ![p] = Recovering(p, r, "replay", "report")]
            /\ UNCHANGED storeVars
  BY <1>3, <1>5, <1>10
<1> QED
  BY <1>7, <1>8, <1>9, <1>10 DEF StartRecover

\* A storage operation begins under the command that is under way.
LEMMA BeginOperationStep ==
  ASSUME IndexInvariant, NEW p \in Procs, BeginOperation(p)
  PROVE  IndexInvariant'
<1> DEFINE w == wf[p]
<1>1. w \in Command /\ UNCHANGED <<lease, sidecar, wf, published>> /\ CommandFits(w, op[p])
  BY DEF IndexInvariant, CommandsFit, BeginOperation
<1>2. RestOK'
  BY <1>1 DEF IndexInvariant, RestOK
<1>3. w.step \in TransitionSteps \cup {"persist"} /\ w.run \in Runs
  BY <1>1 DEF BeginOperation, CommandFits, TransitionSteps
<1>4. db[w.run] \in Row
  BY <1>3 DEF IndexInvariant, StoreFits, TypeOK
<1>5. /\ db[w.run].status \in RunStatus \cup {"absent"} /\ db[w.run].last_sequence \in Nat
      /\ db[w.run].last_digest \in Digests
  BY <1>4 DEF Row
<1>6. ASSUME NEW item \in Record, Fits(db[w.run], item), Stage(p, w.run, item)
      PROVE  IndexInvariant'
  <2>1. /\ StoreFits' /\ op'[p].pc = "staged"
        /\ \A q \in Procs : q # p => op'[q] = op[q]
    BY <1>3, <1>6, StoreStages DEF IndexInvariant
  <2>2. CommandFits(w, op'[p])
    BY <1>1, <1>3, <2>1 DEF CommandFits, StorageSteps
  <2>3. CommandsFit'
    BY <1>1, <2>1, <2>2, CommandStays DEF IndexInvariant
  <2> QED
    BY <1>2, <2>1, <2>3 DEF IndexInvariant
<1>7. CASE w.step \in TransitionSteps /\ BeginTransition(p, w.run, StepTarget(w))
  <2> DEFINE t == StepTarget(w)
             item == TransitionRecord(db[w.run].last_sequence, db[w.run].last_digest,
                                      db[w.run].status, t, "index")
  <2>1. t \in RunStatus
    BY <1>7 DEF StepTarget, TransitionSteps, expected_run_status, RunStatus
  <2>2. /\ db[w.run].status # "absent" /\ db[w.run].status \in RunStatus
        /\ validate_transition(db[w.run].status, t) /\ Stage(p, w.run, item)
    BY <1>5, <1>7 DEF BeginTransition
  <2> HIDE DEF t
  <2>3. item \in Record
    BY <1>5, <2>1, <2>2, RecordTypes DEF Via
  <2>4. Fits(db[w.run], item)
    BY <2>1, <2>2 DEF Fits, TransitionRecord
  <2> HIDE DEF item
  <2> QED
    BY <1>6, <2>2, <2>3, <2>4
<1>8. CASE w.step = "persist" /\ BeginPersist(p, w.run, w.snap)
  <2> DEFINE item == SnapshotRecord(db[w.run].last_sequence, db[w.run].last_digest, w.snap)
  <2>1. w.snap \in SnapshotStatus
    BY <1>1, <1>8 DEF CommandFits
  <2>2. item \in Record
    BY <1>5, <2>1, RecordTypes
  <2>3. Fits(db[w.run], item) /\ Stage(p, w.run, item)
    BY <1>8, <2>1 DEF BeginPersist, Fits, SnapshotRecord
  <2> HIDE DEF item
  <2> QED
    BY <1>6, <2>2, <2>3
<1> QED
  BY <1>7, <1>8 DEF BeginOperation

LEMMA PublishOperationStep ==
  ASSUME IndexInvariant, NEW p \in Procs, PublishOperation(p)
  PROVE  IndexInvariant'
<1>1. Publish(p) /\ UNCHANGED <<lease, sidecar, wf, published>>
  BY DEF PublishOperation
<1>2. /\ StoreFits' /\ op[p].pc = "staged" /\ op'[p].pc = "published"
      /\ \A q \in Procs : q # p => op'[q] = op[q]
  BY <1>1, StorePublishes DEF IndexInvariant
<1>3. CommandFits(wf[p], op'[p])
  BY <1>2 DEF IndexInvariant, CommandsFit, CommandFits
<1>4. CommandsFit'
  BY <1>1, <1>2, <1>3, CommandStays DEF IndexInvariant
<1>5. RestOK'
  BY <1>1 DEF IndexInvariant, RestOK
<1> QED
  BY <1>2, <1>4, <1>5 DEF IndexInvariant

LEMMA CommitOperationStep ==
  ASSUME IndexInvariant, NEW p \in Procs, CommitOperation(p)
  PROVE  IndexInvariant'
<1>1. /\ Commit(p) /\ sidecar' = FALSE /\ UNCHANGED published
      /\ IF NextStep(wf[p]) = "done" THEN Leave(p) ELSE Goto(p, NextStep(wf[p]))
  BY DEF CommitOperation
<1>2. /\ StoreFits' /\ InTransaction(p) /\ op'[p] = Idle
      /\ \A q \in Procs : q # p => op'[q] = op[q]
  BY <1>1, StoreCommits DEF IndexInvariant
<1>3. wf[p].step \in StorageSteps
  BY <1>2 DEF IndexInvariant, CommandsFit, CommandFits, InTransaction
<1>4. CASE Leave(p)
  <2>1. CommandsFit' /\ lease' \in Procs \cup {NoProc}
    BY <1>2, <1>4, CommandLeaves
  <2>2. RestOK'
    BY <1>1, <2>1 DEF IndexInvariant, RestOK
  <2> QED
    BY <1>2, <2>1, <2>2 DEF IndexInvariant
<1>5. CASE NextStep(wf[p]) # "done" /\ Goto(p, NextStep(wf[p]))
  <2> DEFINE x == NextStep(wf[p])
  <2>1. x \in Steps \ {"idle", "persist", "backup", "install"} /\ wf[p].step # "idle"
    BY <1>3, <1>5 DEF NextStep, StorageSteps, TransitionSteps, Steps
  <2> HIDE DEF x
  <2>2. wf' = [wf EXCEPT ![p].step = x] /\ UNCHANGED lease
    BY <1>5 DEF Goto, x
  <2> DEFINE w == [wf[p] EXCEPT !.step = x]
  <2>3. wf' = [wf EXCEPT ![p] = w] /\ w \in Command /\ CommandFits(w, Idle)
    BY <2>1, <2>2, CommandGoes
  <2> HIDE DEF w
  <2>4. CommandsFit'
    BY <1>2, <2>3, CommandMoves DEF IndexInvariant
  <2>5. RestOK'
    BY <1>1, <2>2 DEF IndexInvariant, RestOK
  <2> QED
    BY <1>2, <2>4, <2>5 DEF IndexInvariant
<1> QED
  BY <1>1, <1>4, <1>5

\* A step outside every operation: the stores stay, the command becomes w.
LEMMA RestStep ==
  ASSUME IndexInvariant, NEW p \in Procs, wf[p].step \notin StorageSteps \cup {"append"},
         UNCHANGED <<files, db, op>>, faults' \in 0..MaxFaults, sidecar' \in BOOLEAN,
         published' \in [Runs -> SnapshotStatus \cup {None}],
         \/ Leave(p)
         \/ \E w \in Command : CommandFits(w, Idle) /\ wf' = [wf EXCEPT ![p] = w] /\ UNCHANGED lease
  PROVE  IndexInvariant'
<1>1. StoreFits'
  BY StoreKept DEF IndexInvariant
<1>2. op'[p] = Idle /\ \A q \in Procs : q # p => op'[q] = op[q]
  BY RestingOp
<1>3. CASE Leave(p)
  <2>1. CommandsFit' /\ lease' \in Procs \cup {NoProc}
    BY <1>2, <1>3, CommandLeaves
  <2> QED
    BY <1>1, <2>1 DEF IndexInvariant, RestOK
<1>4. CASE \E w \in Command : CommandFits(w, Idle) /\ wf' = [wf EXCEPT ![p] = w] /\ UNCHANGED lease
  <2>1. PICK w \in Command : CommandFits(w, Idle) /\ wf' = [wf EXCEPT ![p] = w] /\ UNCHANGED lease
    BY <1>4
  <2>2. CommandsFit'
    BY <1>2, <2>1, CommandMoves DEF IndexInvariant
  <2> QED
    BY <1>1, <2>1, <2>2 DEF IndexInvariant, RestOK
<1> QED
  BY <1>3, <1>4

\* Such a step that only goes on.
LEMMA GoStep ==
  ASSUME IndexInvariant, NEW p \in Procs, wf[p].step \notin StorageSteps \cup {"append", "idle"},
         UNCHANGED <<files, db, op>>, faults' \in 0..MaxFaults, sidecar' \in BOOLEAN,
         published' \in [Runs -> SnapshotStatus \cup {None}],
         NEW x \in Steps \ {"idle", "persist", "backup", "install"}, Goto(p, x)
  PROVE  IndexInvariant'
<1> DEFINE w == [wf[p] EXCEPT !.step = x]
<1>1. wf' = [wf EXCEPT ![p].step = x] /\ UNCHANGED lease
  BY DEF Goto
<1>2. wf' = [wf EXCEPT ![p] = w] /\ w \in Command /\ CommandFits(w, Idle)
  BY <1>1, CommandGoes
<1> HIDE DEF w
<1> QED
  BY <1>1, <1>2, RestStep

\* The steps that name an operation's end or a read.
LEMMA OperationRefusedStep ==
  ASSUME IndexInvariant, NEW p \in Procs, OperationRefused(p)
  PROVE  IndexInvariant'
<1>1. /\ op[p] = Idle /\ Leave(p) /\ sidecar' = FALSE
      /\ UNCHANGED <<files, db, op, faults, published>>
  BY DEF OperationRefused
<1>2. StoreFits'
  BY <1>1, StoreKept DEF IndexInvariant, StoreFits, TypeOK
<1>3. CommandsFit' /\ lease' \in Procs \cup {NoProc}
  BY <1>1, CommandLeaves
<1>4. RestOK'
  BY <1>1, <1>3 DEF IndexInvariant, RestOK
<1> QED
  BY <1>2, <1>3, <1>4 DEF IndexInvariant

LEMMA ReadingSteps ==
  ASSUME IndexInvariant, NEW p \in Procs,
         \/ Observe(p) \/ RootChanged(p) \/ VerifyObservation(p) \/ Report(p)
         \/ Ensure(p) \/ Recheck(p) \/ Replay(p) \/ Backup(p)
  PROVE  IndexInvariant'
<1> DEFINE Rests == /\ wf[p].step \in {"observe", "verify", "publish", "ensure", "recheck",
                                       "replay", "backup"}
                    /\ UNCHANGED <<files, db, op, faults>> /\ sidecar' \in BOOLEAN
<1>1. /\ faults \in 0..MaxFaults /\ sidecar \in BOOLEAN
      /\ published \in [Runs -> SnapshotStatus \cup {None}]
  BY DEF IndexInvariant, StoreFits, TypeOK, RestOK
<1>2. ASSUME Rests, published' \in [Runs -> SnapshotStatus \cup {None}], Leave(p)
      PROVE  IndexInvariant'
  BY <1>1, <1>2, RestStep DEF StorageSteps, TransitionSteps
<1>3. ASSUME Rests, UNCHANGED published, NEW x \in {"verifying", "verified", "publish", "replay"},
             Goto(p, x)
      PROVE  IndexInvariant'
  BY <1>1, <1>3, GoStep DEF StorageSteps, TransitionSteps, Steps
<1>4. ASSUME Rests, UNCHANGED published, NEW w \in Command, CommandFits(w, Idle),
             wf' = [wf EXCEPT ![p] = w], UNCHANGED lease
      PROVE  IndexInvariant'
  BY <1>1, <1>4, RestStep DEF StorageSteps, TransitionSteps
<1>5. /\ wf \in [Procs -> Command] /\ wf[p] \in Command /\ CommandFits(wf[p], op[p])
      /\ wf[p].step # "idle" => wf[p].run \in Runs
  BY DEF IndexInvariant, CommandsFit, CommandFits
<1>6. /\ wf[p].cmd \in Cmds /\ wf[p].run \in Runs \cup {NoRun}
      /\ wf[p].snap \in SnapshotStatus \cup {None} /\ wf[p].then \in Thens
      /\ wf[p].candidate \in [Runs -> Row] /\ wf[p].backup \in [Runs -> Row]
  BY <1>5, CommandIsFields
<1>7. CASE Observe(p)
  <2>1. Rests /\ UNCHANGED <<lease, published>> /\ wf[p].run \in Runs
    BY <1>5, <1>7 DEF Observe
  <2>2. PICK c \in SnapshotStatus : wf' = [wf EXCEPT ![p].step = "persist", ![p].snap = c]
    BY <1>7 DEF Observe
  <2> DEFINE w == [wf[p] EXCEPT !.step = "persist", !.snap = c]
  <2>3. wf' = [wf EXCEPT ![p] = w]
    BY <1>5, <2>2
  <2>4. "persist" \in Steps
    BY DEF Steps
  <2>5. /\ w \in Command /\ w.step = "persist" /\ w.run = wf[p].run /\ w.cmd = wf[p].cmd
        /\ w.snap = c /\ w.then = wf[p].then
        /\ w.candidate = wf[p].candidate /\ w.backup = wf[p].backup
    <3> DEFINE u == [wf[p] EXCEPT !.step = "persist"]
    <3>1. w = [u EXCEPT !.snap = c]
      OBVIOUS
    <3>2. /\ u \in Command /\ u.step = "persist" /\ u.run = wf[p].run /\ u.cmd = wf[p].cmd
          /\ u.then = wf[p].then /\ u.candidate = wf[p].candidate /\ u.backup = wf[p].backup
      BY <1>5, <2>4, StepChanged
    <3> HIDE DEF w, u
    <3> QED
      BY <3>1, <3>2, SnapChanged
  <2> HIDE DEF w
  <2>7. CommandFits(w, Idle)
    BY <2>1, <2>5, IdleFacts DEF CommandFits
  <2> QED
    BY <1>4, <2>1, <2>3, <2>5, <2>7
<1>8. CASE RootChanged(p)
  <2>1. Rests /\ UNCHANGED published /\ Leave(p)
    BY <1>8 DEF RootChanged
  <2> QED
    BY <1>1, <1>2, <2>1
<1>9. CASE VerifyObservation(p)
  <2>1. /\ Rests /\ UNCHANGED published
        /\ Leave(p) \/ Goto(p, "verifying")
    BY <1>1, <1>9 DEF VerifyObservation
  <2> QED
    BY <1>1, <1>2, <1>3, <2>1
<1>10. CASE Report(p)
  <2>1. Rests /\ Leave(p) /\ wf[p].run \in Runs
    BY <1>1, <1>5, <1>10 DEF Report
  <2>2. published' \in [Runs -> SnapshotStatus \cup {None}]
    <3>1. files[wf[p].run] \in SUBSET Record
      BY <2>1 DEF IndexInvariant, StoreFits, TypeOK
    <3>2. SnapshotsIn(files[wf[p].run]) = {} \/ SnapshotOf(files[wf[p].run]) \in SnapshotStatus \cup {None}
      BY <3>1, SnapshotOfType
    <3>3. \/ published' = published
          \/ /\ published' = [published EXCEPT ![wf[p].run] = SnapshotOf(files[wf[p].run])]
             /\ SnapshotsIn(files[wf[p].run]) # {}
      BY <1>10 DEF Report, VerificationValid, Observed
    <3> QED
      BY <1>1, <3>2, <3>3
  <2> QED
    BY <1>2, <2>1, <2>2
<1>11. CASE Ensure(p)
  <2>1. Rests /\ UNCHANGED published
    BY <1>1, <1>11 DEF Ensure
  <2>2. \/ Leave(p)
        \/ Goto(p, IF VerificationValid(wf[p].run) THEN ResumeStep(wf[p].run) ELSE "replay")
    BY <1>11 DEF Ensure
  <2>3. ResumeStep(wf[p].run) \in {"verifying", "verified", "publish"}
    BY DEF ResumeStep
  <2> QED
    BY <1>1, <1>2, <1>3, <2>1, <2>2, <2>3
<1>12. CASE Recheck(p)
  <2>1. Rests /\ UNCHANGED published
    BY <1>1, <1>12 DEF Recheck
  <2>2. Leave(p) \/ Goto(p, ResumeStep(wf[p].run))
    BY <1>12 DEF Recheck
  <2>3. ResumeStep(wf[p].run) \in {"verifying", "verified", "publish"}
    BY DEF ResumeStep
  <2> QED
    BY <1>1, <1>2, <1>3, <2>1, <2>2, <2>3
<1>13. CASE Replay(p)
  <2>1. Rests /\ UNCHANGED published /\ wf[p].run \in Runs
    BY <1>1, <1>5, <1>13 DEF Replay
  <2>2. CASE Leave(p)
    BY <1>1, <1>2, <2>1, <2>2
  <2> DEFINE a == [r \in Runs |-> IF files[r] = {} THEN NoRow ELSE ReplayedRow(files[r])]
             w == [wf[p] EXCEPT !.step = "backup", !.candidate = a]
  <2>3. CASE /\ ClassificationComplete(files) /\ UNCHANGED lease
             /\ wf' = [wf EXCEPT ![p].step = "backup", ![p].candidate = a]
    <3>1. \A r \in Runs : a[r] \in Row /\ RowVerifies(a[r])
      <4> SUFFICES ASSUME NEW r \in Runs PROVE a[r] \in Row /\ RowVerifies(a[r])
        OBVIOUS
      <4>1. CASE files[r] = {}
        BY <4>1, NoRowVerifies
      <4>2. CASE files[r] # {}
        <5>1. files[r] \in SUBSET Record /\ IsFiniteSet(files[r]) /\ DOMAIN files = Runs
          BY DEF IndexInvariant, StoreFits, TypeOK
        <5>2. verify_run(files[r])
          BY <2>3, <4>2, <5>1 DEF ClassificationComplete
        <5>3. ReplayedRow(files[r]) \in Row /\ RowVerifies(ReplayedRow(files[r]))
          BY <5>1, <5>2, ReplayedVerifies
        <5> QED
          BY <4>2, <5>3
      <4> QED
        BY <4>1, <4>2
    <3>2. a \in [Runs -> Row]
      BY <3>1
    <3> HIDE DEF a
    <3>3. wf' = [wf EXCEPT ![p] = w]
      BY <1>5, <2>3
    <3>4. "backup" \in Steps
      BY DEF Steps
    <3>5. /\ w \in Command /\ w.step = "backup" /\ w.run = wf[p].run /\ w.cmd = wf[p].cmd
          /\ w.snap = wf[p].snap /\ w.then = wf[p].then
          /\ w.candidate = a /\ w.backup = wf[p].backup
      <4> DEFINE u == [wf[p] EXCEPT !.step = "backup"]
      <4>1. w = [u EXCEPT !.candidate = a]
        OBVIOUS
      <4>2. /\ u \in Command /\ u.step = "backup" /\ u.run = wf[p].run /\ u.cmd = wf[p].cmd
            /\ u.snap = wf[p].snap /\ u.then = wf[p].then /\ u.backup = wf[p].backup
        BY <1>5, <3>4, StepChanged
      <4> HIDE DEF w, u
      <4> QED
        BY <3>2, <4>1, <4>2, CandidateChanged
    <3> HIDE DEF w
    <3>7. CommandFits(w, Idle)
      BY <2>1, <3>1, <3>5, IdleFacts DEF CommandFits
    <3> QED
      BY <1>4, <2>1, <2>3, <3>3, <3>5, <3>7
  <2> QED
    BY <1>13, <2>2, <2>3 DEF Replay
<1>14. CASE Backup(p)
  <2>1. Rests /\ UNCHANGED published /\ wf[p].run \in Runs /\ wf[p].step = "backup"
    BY <1>1, <1>5, <1>14 DEF Backup
  <2>2. CASE Leave(p)
    BY <1>1, <1>2, <2>1, <2>2
  <2> DEFINE w == [wf[p] EXCEPT !.step = "install", !.backup = db]
  <2>3. CASE wf' = [wf EXCEPT ![p].step = "install", ![p].backup = db] /\ UNCHANGED lease
    <3>1. db \in [Runs -> Row]
      BY DEF IndexInvariant, StoreFits, TypeOK
    <3>2. \A r \in Runs : RowVerifies(wf[p].candidate[r])
      BY <1>5, <2>1 DEF CommandFits
    <3>3. wf' = [wf EXCEPT ![p] = w]
      BY <1>5, <2>3
    <3>4. "install" \in Steps
      BY DEF Steps
    <3>5. /\ w \in Command /\ w.step = "install" /\ w.run = wf[p].run /\ w.cmd = wf[p].cmd
          /\ w.snap = wf[p].snap /\ w.then = wf[p].then
          /\ w.candidate = wf[p].candidate /\ w.backup = db
      <4> DEFINE u == [wf[p] EXCEPT !.step = "install"]
      <4>1. w = [u EXCEPT !.backup = db]
        OBVIOUS
      <4>2. /\ u \in Command /\ u.step = "install" /\ u.run = wf[p].run /\ u.cmd = wf[p].cmd
            /\ u.snap = wf[p].snap /\ u.then = wf[p].then /\ u.candidate = wf[p].candidate
        BY <1>5, <3>4, StepChanged
      <4> HIDE DEF w, u
      <4> QED
        BY <3>1, <4>1, <4>2, BackupChanged
    <3> HIDE DEF w
    <3>7. CommandFits(w, Idle)
      BY <2>1, <3>2, <3>5, IdleFacts DEF CommandFits
    <3> QED
      BY <1>4, <2>1, <2>3, <3>3, <3>5, <3>7
  <2> QED
    BY <1>14, <2>2, <2>3 DEF Backup
<1> HIDE DEF Rests
<1> QED
  BY <1>7, <1>8, <1>9, <1>10, <1>11, <1>12, <1>13, <1>14

\* The candidate becomes the index: nobody is inside a transaction, so no
\* operation relies on a row that disappears.
LEMMA InstallStep ==
  ASSUME IndexInvariant, NEW p \in Procs, Install(p)
  PROVE  IndexInvariant'
<1>1. wf[p].step = "install" /\ UNCHANGED <<files, op, faults, published>>
  BY DEF Install
<1>2. /\ wf \in [Procs -> Command] /\ wf[p] \in Command /\ CommandFits(wf[p], op[p])
      /\ faults \in 0..MaxFaults /\ sidecar \in BOOLEAN /\ op[p] = Idle /\ ~InTransaction(p)
      /\ published \in [Runs -> SnapshotStatus \cup {None}]
      /\ wf[p].step \notin StorageSteps \cup {"append", "idle"}
  BY <1>1, RestingOp
     DEF IndexInvariant, CommandsFit, StoreFits, TypeOK, RestOK, StorageSteps, TransitionSteps
<1>3. CASE OthersWriting(p) \/ db # wf[p].backup
  <2>1. Leave(p) /\ UNCHANGED db /\ sidecar' \in BOOLEAN
    BY <1>2, <1>3 DEF Install
  <2> QED
    BY <1>1, <1>2, <2>1, RestStep
<1>4. CASE ~(OthersWriting(p) \/ db # wf[p].backup)
  <2>1. db' = wf[p].candidate /\ sidecar' = FALSE
    BY <1>4 DEF Install
  <2>2. db' \in [Runs -> Row] /\ \A r \in Runs : RowVerifies(db'[r])
    BY <1>1, <1>2, <2>1, CommandIsFields DEF CommandFits
  <2>3. \A q \in Procs : ~InTransaction(q)
    BY <1>2, <1>4 DEF OthersWriting
  <2>4. StoreFits'
    BY <1>1, <2>2, <2>3, StoreInstalls DEF IndexInvariant
  <2>5. op'[p] = Idle /\ \A q \in Procs : q # p => op'[q] = op[q]
    BY <1>1, <1>2
  <2>6. CASE Leave(p)
    BY <1>1, <1>2, <2>1, <2>4, <2>5, <2>6, CommandLeaves DEF IndexInvariant, RestOK
  <2>7. CASE /\ wf' = [wf EXCEPT ![p].step = "recheck", ![p].candidate = EmptyDb,
                                 ![p].backup = EmptyDb]
             /\ UNCHANGED lease
    <3> DEFINE u == [wf[p] EXCEPT !.step = "recheck"]
               v == [u EXCEPT !.candidate = EmptyDb]
               w == [v EXCEPT !.backup = EmptyDb]
    <3>1. wf' = [wf EXCEPT ![p] = w]
      BY <1>2, <2>7
    <3>2. "recheck" \in Steps
      BY DEF Steps
    <3>3. u \in Command /\ u.step = "recheck" /\ u.run = wf[p].run
      BY <1>2, <3>2, StepChanged
    <3> HIDE DEF u
    <3>4. v \in Command /\ v.step = "recheck" /\ v.run = wf[p].run
      BY <3>3, EmptyDbType, CandidateChanged
    <3> HIDE DEF v
    <3>5. w \in Command /\ w.step = "recheck" /\ w.run = wf[p].run
      BY <3>4, EmptyDbType, BackupChanged
    <3> HIDE DEF w
    <3>6. CommandFits(w, Idle)
      BY <1>1, <1>2, <3>5, IdleFacts DEF CommandFits
    <3>7. CommandsFit'
      BY <2>5, <3>1, <3>5, <3>6, CommandMoves DEF IndexInvariant
    <3> QED
      BY <1>1, <2>1, <2>4, <2>7, <3>7 DEF IndexInvariant, RestOK
  <2> QED
    BY <1>4, <2>6, <2>7 DEF Install
<1> QED
  BY <1>3, <1>4

\* A record staged from the ledger is published.
LEMMA PublishAppendStep ==
  ASSUME IndexInvariant, NEW p \in Procs, PublishAppend(p)
  PROVE  IndexInvariant'
<1>1. /\ op[p].pc = "append" /\ files' = Replaced(op[p].run, op[p].item)
      /\ op' = [op EXCEPT ![p] = Idle] /\ UNCHANGED <<db, faults, lease, sidecar, published>>
      /\ wf' = IF wf[p].then = "report"
               THEN [wf EXCEPT ![p].step = "replay"]
               ELSE [wf EXCEPT ![p].step = "ensure", ![p].then = "recheck"]
  BY DEF PublishAppend
<1>2. /\ StoreFits' /\ op'[p] = Idle
      /\ \A q \in Procs : q # p => op'[q] = op[q]
  BY <1>1, StoreAppends DEF IndexInvariant
<1>3. /\ wf \in [Procs -> Command] /\ wf[p] \in Command /\ wf[p].step = "append"
      /\ wf[p].run \in Runs
  BY <1>1 DEF IndexInvariant, CommandsFit, CommandFits
<1>4. RestOK'
  BY <1>1 DEF IndexInvariant, RestOK
<1>5. "replay" \in Steps \ {"idle", "persist", "backup", "install"} /\ "ensure" \in Steps
      /\ "recheck" \in Thens
  BY DEF Steps, Thens
<1>6. CASE wf' = [wf EXCEPT ![p].step = "replay"]
  <2> DEFINE w == [wf[p] EXCEPT !.step = "replay"]
  <2>1. wf' = [wf EXCEPT ![p] = w] /\ w \in Command /\ CommandFits(w, Idle)
    BY <1>3, <1>5, <1>6, CommandGoes
  <2> HIDE DEF w
  <2>2. CommandsFit'
    BY <1>2, <2>1, CommandMoves DEF IndexInvariant
  <2> QED
    BY <1>2, <1>4, <2>2 DEF IndexInvariant
<1>7. CASE wf' = [wf EXCEPT ![p].step = "ensure", ![p].then = "recheck"]
  <2> DEFINE u == [wf[p] EXCEPT !.step = "ensure"]
             w == [u EXCEPT !.then = "recheck"]
  <2>1. wf' = [wf EXCEPT ![p] = w]
    BY <1>3, <1>7
  <2>2. u \in Command /\ u.step = "ensure" /\ u.run = wf[p].run
    BY <1>3, <1>5, StepChanged
  <2> HIDE DEF u
  <2>3. w \in Command /\ w.step = "ensure" /\ w.run = wf[p].run
    BY <1>5, <2>2, ThenChanged
  <2> HIDE DEF w
  <2>4. CommandFits(w, Idle)
    BY <1>3, <2>3, IdleFacts DEF CommandFits
  <2>5. CommandsFit'
    BY <1>2, <2>1, <2>3, <2>4, CommandMoves DEF IndexInvariant
  <2> QED
    BY <1>2, <1>4, <2>5 DEF IndexInvariant
<1> QED
  BY <1>1, <1>6, <1>7

\* The interrupt handler: a record from the ledger, or nothing.
LEMMA HandleInterruptStep ==
  ASSUME IndexInvariant, NEW p \in Procs, HandleInterrupt(p)
  PROVE  IndexInvariant'
<1>1. wf[p].step = "interrupted" /\ UNCHANGED <<sidecar, published>>
  BY DEF HandleInterrupt
<1>2. /\ wf \in [Procs -> Command] /\ wf[p] \in Command /\ wf[p].run \in Runs
      /\ faults \in 0..MaxFaults /\ sidecar \in BOOLEAN
      /\ published \in [Runs -> SnapshotStatus \cup {None}]
  BY <1>1 DEF IndexInvariant, CommandsFit, CommandFits, StoreFits, TypeOK, RestOK
<1>3. CASE Leave(p) /\ UNCHANGED storeVars
  BY <1>1, <1>2, <1>3, RestStep DEF storeVars, StorageSteps, TransitionSteps
<1>4. CASE /\ LedgerReadable(wf[p].run) /\ StageAppend(p, wf[p].run, "cancelled")
           /\ wf' = [wf EXCEPT ![p].step = "append", ![p].then = "report"] /\ UNCHANGED lease
  <2>1. "cancelled" \in RunStatus
    BY DEF RunStatus
  <2>2. /\ StoreFits' /\ op'[p].pc = "append"
        /\ \A q \in Procs : q # p => op'[q] = op[q]
    BY <1>2, <1>4, <2>1, StoreStagesAppend DEF IndexInvariant
  <2> DEFINE u == [wf[p] EXCEPT !.step = "append"]
             w == [u EXCEPT !.then = "report"]
  <2>3. wf' = [wf EXCEPT ![p] = w]
    BY <1>2, <1>4
  <2>4. "append" \in Steps /\ "report" \in Thens
    BY DEF Steps, Thens
  <2>5. u \in Command /\ u.step = "append" /\ u.run = wf[p].run
    BY <1>2, <2>4, StepChanged
  <2> HIDE DEF u
  <2>6. w \in Command /\ w.step = "append" /\ w.run = wf[p].run
    BY <2>4, <2>5, ThenChanged
  <2> HIDE DEF w
  <2>7. CommandFits(w, op'[p])
    BY <1>2, <2>2, <2>6 DEF CommandFits
  <2>8. CommandsFit'
    BY <2>2, <2>3, <2>6, <2>7, CommandMoves DEF IndexInvariant
  <2> QED
    BY <1>1, <1>4, <2>2, <2>8 DEF IndexInvariant, RestOK
<1> QED
  BY <1>3, <1>4 DEF HandleInterrupt

\* Failures forget the operation of the process and change no store.
LEMMA FailureSteps ==
  ASSUME IndexInvariant, NEW p \in Procs, Interrupt(p) \/ Fail(p) \/ Crash(p)
  PROVE  IndexInvariant'
<1>1. /\ op' = [op EXCEPT ![p] = Idle] /\ faults < MaxFaults /\ faults' = faults + 1
      /\ UNCHANGED <<files, db, published>>
  BY DEF Interrupt, Fail, Crash
<1>2. /\ faults \in 0..MaxFaults /\ sidecar \in BOOLEAN /\ op \in [Procs -> Op]
      /\ wf \in [Procs -> Command] /\ CommandFits(wf[p], op[p])
  BY DEF IndexInvariant, CommandsFit, StoreFits, TypeOK, RestOK
<1>3. faults' \in 0..MaxFaults
  BY <1>1, <1>2, BoundsAssumption
<1>4. StoreFits'
  BY <1>1, <1>3, StoreKept DEF IndexInvariant
<1>5. op'[p] = Idle /\ \A q \in Procs : q # p => op'[q] = op[q]
  BY <1>1, <1>2
<1>6. sidecar' \in BOOLEAN
  <2>1. CASE Interrupt(p)
    BY <1>2, <2>1 DEF Interrupt
  <2>2. CASE Fail(p)
    BY <1>2, <2>2 DEF Fail
  <2>3. CASE Crash(p)
    BY <1>2, <2>3 DEF Crash
  <2> QED
    BY <2>1, <2>2, <2>3
<1>7. CASE Leave(p)
  BY <1>1, <1>4, <1>5, <1>6, <1>7, CommandLeaves DEF IndexInvariant, RestOK
<1>8. CASE Interrupt(p)
  <2>1. Goto(p, "interrupted") /\ wf[p].cmd = "acquire"
    BY <1>8 DEF Interrupt
  <2>2. wf[p].step # "idle"
    BY <1>2, <2>1, NoCommandFits DEF CommandFits
  <2>3. "interrupted" \in Steps \ {"idle", "persist", "backup", "install"}
    BY DEF Steps
  <2> DEFINE w == [wf[p] EXCEPT !.step = "interrupted"]
  <2>4. wf' = [wf EXCEPT ![p] = w] /\ w \in Command /\ CommandFits(w, Idle)
    BY <2>1, <2>2, <2>3, CommandGoes DEF Goto
  <2> HIDE DEF w
  <2>5. CommandsFit'
    BY <1>5, <2>4, CommandMoves DEF IndexInvariant
  <2> QED
    BY <1>1, <1>4, <1>6, <2>1, <2>5 DEF IndexInvariant, RestOK, Goto
<1> QED
  BY <1>7, <1>8 DEF Fail, Crash

\* The inductive invariant holds through every step of every command.
LEMMA IndexStep == IndexInvariant /\ [AcquisitionNext]_vars => IndexInvariant'
<1> SUFFICES ASSUME IndexInvariant, [AcquisitionNext]_vars PROVE IndexInvariant'
  OBVIOUS
<1>1. CASE UNCHANGED vars
  BY <1>1 DEF vars, IndexInvariant, StoreFits, CommandsFit, RestOK, TypeOK, IndexVerifies,
              OneWriter, RowsStand, InTransaction
<1>2. ASSUME NEW p \in Procs, StartCommand(p)
      PROVE  IndexInvariant'
  BY <1>2, StartCommandStep
<1>3. ASSUME NEW p \in Procs, Continue(p)
      PROVE  IndexInvariant'
  BY <1>3, BeginOperationStep, OperationRefusedStep, PublishOperationStep, CommitOperationStep,
     ReadingSteps, HandleInterruptStep, PublishAppendStep, InstallStep DEF Continue
<1>4. ASSUME NEW p \in Procs, Interrupt(p) \/ Fail(p) \/ Crash(p)
      PROVE  IndexInvariant'
  BY <1>4, FailureSteps
<1>5. ASSUME NEW r \in Runs, RecoverRun(r)
      PROVE  IndexInvariant'
  BY <1>5, StartRecoverStep DEF RecoverRun
<1>6. CASE Inspect
  <2>1. sidecar' = FALSE /\ UNCHANGED <<files, db, op, faults, lease, wf, published>>
    BY <1>6 DEF Inspect, ReadWriteOpen
  <2> QED
    BY <2>1 DEF IndexInvariant, StoreFits, CommandsFit, RestOK, TypeOK, IndexVerifies,
                OneWriter, RowsStand, InTransaction
<1> QED
  BY <1>1, <1>2, <1>3, <1>4, <1>5, <1>6 DEF AcquisitionNext

THEOREM IndexAlways == AcquisitionSpec => []IndexInvariant
<1>1. AcquisitionInit => IndexInvariant
  BY IndexInit
<1>2. IndexInvariant /\ [AcquisitionNext]_vars => IndexInvariant'
  BY IndexStep
<1> QED
  BY <1>1, <1>2, PTL DEF AcquisitionSpec

-----------------------------------------------------------------------------
\* Every step of every command, in any mix of acquisition, recovery, legacy
\* create_snapshot and cancel, keeps the two stores, the lease, the commands
\* and the reports within their types.
THEOREM AcquisitionTypesHold == AcquisitionSpec => []AcquisitionTypeOK
<1>1. IndexInvariant => AcquisitionTypeOK
  BY DEF IndexInvariant, StoreFits, CommandsFit, RestOK, AcquisitionTypeOK
<1> QED
  BY <1>1, IndexAlways, PTL

\* The runs row of every indexed Run (status, last_sequence,
\* last_evidence_digest) is that of its evidence_records rows, and those form
\* a chain that _verify_run accepts, under any mix of commands, failures and
\* rebuilds of the index (replace_snapshot_index) -- also where a ledger on
\* disk no longer verifies.
THEOREM IndexStaysVerified == AcquisitionSpec => []IndexVerifies
<1>1. IndexInvariant => IndexVerifies
  BY DEF IndexInvariant, StoreFits
<1> QED
  BY <1>1, IndexAlways, PTL

\* At most one process is inside a transaction of the index at any moment.
THEOREM OneWriterAlways == AcquisitionSpec => []OneWriter
<1>1. IndexInvariant => OneWriter
  BY DEF IndexInvariant, StoreFits
<1> QED
  BY <1>1, IndexAlways, PTL
-----------------------------------------------------------------------------
(* Acquisition beside the legacy commands, while nothing fails: the lease   *)
(* does not keep create_snapshot and cancel out, but the write lock is      *)
(* enough.  A Run's directory is exactly its indexed records and the file   *)
(* of a transaction that has not committed yet, so the name a transaction   *)
(* chose for its record is free until it publishes it.                      *)

\* No recovery, and nothing fails, is interrupted or dies.
NothingFails ==
  Commands \subseteq {"acquire", "create_snapshot", "cancel", "inspect"} /\ MaxFaults = 0

\* Where a command can be then.
OrdinarySteps == {"idle", "create", "scanning", "observe", "persist", "close", "verify",
                  "verifying", "verified", "publish", "cancel"}

IsIndexed(r, e) == \E i \in 1..Len(db[r].records) : db[r].records[i] = e

IsInHand(r, e) == \E p \in Procs : op[p].pc = "published" /\ op[p].run = r /\ op[p].item = e

NoneRecovers == \A p \in Procs : wf[p].step \in OrdinarySteps

FilesAreIndexed == \A r \in Runs : \A e : e \in files[r] <=> IsIndexed(r, e) \/ IsInHand(r, e)

\* The inductive invariant.
MixedInvariant == IndexInvariant /\ NoneRecovers /\ FilesAreIndexed

\* A directory that holds the records of a verified row verifies.
LEMMA RowLedger ==
  ASSUME NEW row \in Row, RowVerifies(row), NEW F \in SUBSET Record, F # {},
         \A e : e \in F <=> \E i \in 1..Len(row.records) : row.records[i] = e
  PROVE  verify_run(F)
<1> DEFINE s == row.records
           n == Len(s)
<1>1. s \in Seq(Record) /\ n \in Nat /\ \A i \in 1..n : s[i] \in F /\ s[i].seq = i
  BY DEF Row, RowVerifies, ChainVerifies, RecordVerifies
<1>2. \A e \in F : e.seq \in 1..n /\ s[e.seq] = e
  BY <1>1
<1>3. {e.seq : e \in F} = 1..n
  <2>1. \A i \in 1..n : i \in {e.seq : e \in F}
    BY <1>1
  <2>2. \A i \in {e.seq : e \in F} : i \in 1..n
    BY <1>2
  <2> QED
    BY <2>1, <2>2
<1>4. IsFiniteSet(F) /\ Cardinality(F) = n
  <2> DEFINE place == [i \in 1..n |-> s[i]]
  <2>1. place \in [1..n -> F] /\ \A i, j \in 1..n : place[i] = place[j] => i = j
    BY <1>1
  <2>2. \A e \in F : \E i \in 1..n : place[i] = e
    BY <1>2
  <2>3. place \in Bijection(1..n, F)
    <3> HIDE DEF place
    <3> QED
      BY <2>1, <2>2 DEF Bijection, Injection, Surjection, IsInjective
  <2>4. ExistsBijection(1..n, F)
    BY <2>3 DEF ExistsBijection
  <2> HIDE DEF place, n
  <2>5. IsFiniteSet(1..n) /\ Cardinality(1..n) = n
    BY <1>1, FS_Interval
  <2> QED
    BY <2>4, <2>5, FS_Bijection
<1>5. Contiguous(F)
  BY <1>3, <1>4 DEF Contiguous
<1>6. Chain(F) \in Seq(Record) /\ Len(Chain(F)) = n /\ \A e \in F : Chain(F)[e.seq] = e
  BY <1>4, <1>5, ChainOfFiles
<1>7. \A i \in 1..n : Chain(F)[i] = s[i]
  BY <1>1, <1>6
<1>8. Chain(F) = s
  <2> DEFINE c == Chain(F)
  <2>1. c \in Seq(Record) /\ Len(c) = Len(s) /\ \A i \in 1..Len(c) : c[i] = s[i]
    BY <1>6, <1>7
  <2> HIDE DEF c, s
  <2>2. c = s
    BY <1>1, <2>1, SeqEqual
  <2> QED
    BY <2>2 DEF c
<1>9. ChainVerifies(s)
  BY DEF RowVerifies
<1> QED
  BY <1>5, <1>8, <1>9 DEF verify_run

\* A record in hand fits the row of its Run and no other is in hand.
LEMMA RecordInHand ==
  ASSUME MixedInvariant, NEW p \in Procs, op[p].pc \in {"staged", "published"}
  PROVE  /\ op[p].run \in Runs /\ op[p].item \in Record
         /\ db[op[p].run] \in Row /\ RowVerifies(db[op[p].run])
         /\ Fits(db[op[p].run], op[p].item)
         /\ \A q \in Procs : q # p => op[q].pc \notin {"staged", "published"}
<1>1. StoreFits /\ op \in [Procs -> Op] /\ db \in [Runs -> Row]
  BY DEF MixedInvariant, IndexInvariant, StoreFits, TypeOK
<1>2. op[p].run \in Runs /\ op[p].item \in Record
  BY <1>1, OpFacts, IdleFacts DEF Op
<1>3. InTransaction(p) /\ \A q \in Procs : InTransaction(q) => q = p
  BY <1>1 DEF StoreFits, OneWriter, InTransaction
<1>4. Fits(db[op[p].run], op[p].item)
  BY <1>1, <1>3 DEF StoreFits, RowsStand
<1>5. RowVerifies(db[op[p].run])
  BY <1>1, <1>2 DEF StoreFits, IndexVerifies
<1> QED
  BY <1>1, <1>2, <1>3, <1>4, <1>5 DEF InTransaction

\* What a row holds after a record has been written.
LEMMA WrittenRecords ==
  ASSUME NEW row \in Row, NEW item \in Record
  PROVE  \A e : (\E i \in 1..Len(Written(row, item).records) : Written(row, item).records[i] = e)
                <=> (\E i \in 1..Len(row.records) : row.records[i] = e) \/ e = item
<1> DEFINE s == row.records
           a == Append(s, item)
<1>1. s \in Seq(Record) /\ Len(s) \in Nat
  BY DEF Row
<1>2. Len(a) = Len(s) + 1 /\ a[Len(s) + 1] = item /\ \A i \in 1..Len(s) : a[i] = s[i]
  BY <1>1, AppendProperties
<1>3. Written(row, item).records = a
  BY DEF Written
<1> HIDE DEF a, s
<1>4. \A e : (\E i \in 1..Len(a) : a[i] = e) <=> (\E i \in 1..Len(s) : s[i] = e) \/ e = item
  <2>1. \A i \in 1..Len(a) : i \in 1..Len(s) \/ i = Len(s) + 1
    BY <1>1, <1>2
  <2>2. \A i \in 1..Len(s) : i \in 1..Len(a)
    BY <1>1, <1>2
  <2>3. Len(s) + 1 \in 1..Len(a)
    BY <1>1, <1>2
  <2> QED
    BY <1>2, <2>1, <2>2, <2>3
<1> QED
  BY <1>3, <1>4 DEF s

LEMMA MixedLedgers == MixedInvariant => LedgersVerify
<1> SUFFICES ASSUME MixedInvariant, NEW r \in Runs, files[r] # {} PROVE verify_run(files[r])
  BY DEF LedgersVerify
<1>1. /\ files[r] \in SUBSET Record /\ db[r] \in Row /\ RowVerifies(db[r])
      /\ \A e : e \in files[r] <=> IsIndexed(r, e) \/ IsInHand(r, e)
  BY DEF MixedInvariant, IndexInvariant, StoreFits, TypeOK, IndexVerifies, FilesAreIndexed
<1>2. CASE \A p \in Procs : ~(op[p].pc = "published" /\ op[p].run = r)
  <2>1. \A e : e \in files[r] <=> \E i \in 1..Len(db[r].records) : db[r].records[i] = e
    BY <1>1, <1>2 DEF IsIndexed, IsInHand
  <2> QED
    BY <1>1, <2>1, RowLedger
<1>3. ASSUME NEW p \in Procs, op[p].pc = "published", op[p].run = r
      PROVE  verify_run(files[r])
  <2> DEFINE item == op[p].item
             row == Written(db[r], item)
  <2>1. item \in Record /\ Fits(db[r], item)
        /\ \A q \in Procs : op[q].pc = "published" => q = p
    BY <1>3, RecordInHand
  <2>2. row \in Row /\ RowVerifies(row)
    BY <1>1, <2>1, WrittenVerifies
  <2>3. \A e : IsInHand(r, e) <=> e = item
    BY <1>3, <2>1 DEF IsInHand
  <2>4. \A e : (\E i \in 1..Len(row.records) : row.records[i] = e) <=> IsIndexed(r, e) \/ e = item
    BY <1>1, <2>1, WrittenRecords DEF IsIndexed
  <2> HIDE DEF row, item
  <2>5. \A e : e \in files[r] <=> \E i \in 1..Len(row.records) : row.records[i] = e
    BY <1>1, <2>3, <2>4
  <2> QED
    BY <1>1, <2>2, <2>5, RowLedger
<1> QED
  BY <1>2, <1>3

\* The name of a record that fits a row is taken by none of its records.
LEMMA NextNameFree ==
  ASSUME NEW row \in Row, RowVerifies(row), NEW item \in Record, Fits(row, item),
         NEW i \in 1..Len(row.records)
  PROVE  filename(row.records[i]) # filename(item)
<1>1. row.records[i].seq = i /\ Len(row.records) = row.last_sequence /\ row.last_sequence \in Nat
  BY DEF Row, RowVerifies, ChainVerifies, RecordVerifies
<1>2. item.seq = row.last_sequence + 1
  BY DEF Fits, CreatedRecord, TransitionRecord, SnapshotRecord, NoRow
<1> QED
  BY <1>1, <1>2 DEF filename

\* A step that publishes and commits nothing.
LEMMA MixedRests ==
  ASSUME MixedInvariant, UNCHANGED <<files, db>>,
         \A q \in Procs : op'[q] = op[q] \/ (op[q].pc # "published" /\ op'[q].pc # "published")
  PROVE  FilesAreIndexed' /\ \A r \in Runs : files[r] \subseteq files'[r]
<1>1. \A r \in Runs : \A e : IsInHand(r, e)' <=> IsInHand(r, e)
  BY DEF IsInHand
<1>2. \A r \in Runs : \A e : IsIndexed(r, e)' <=> IsIndexed(r, e)
  BY DEF IsIndexed
<1> QED
  BY <1>1, <1>2 DEF MixedInvariant, FilesAreIndexed

\* os.replace in write_evidence: the file appears beside the others.
LEMMA MixedPublishes ==
  ASSUME MixedInvariant, NEW p \in Procs, Publish(p)
  PROVE  FilesAreIndexed' /\ \A r \in Runs : files[r] \subseteq files'[r]
<1> DEFINE o == op[p].run
           item == op[p].item
<1>1. /\ op[p].pc = "staged" /\ UNCHANGED db /\ files' = Replaced(o, item)
      /\ op' = [op EXCEPT ![p].pc = "published"]
      /\ op \in [Procs -> Op] /\ files \in [Runs -> SUBSET Record]
  BY DEF Publish, MixedInvariant, IndexInvariant, StoreFits, TypeOK
<1>2. /\ o \in Runs /\ item \in Record /\ db[o] \in Row /\ RowVerifies(db[o]) /\ Fits(db[o], item)
      /\ \A q \in Procs : op[q].pc # "published"
  BY <1>1, RecordInHand
<1>3. /\ op'[p].pc = "published" /\ op'[p].run = o /\ op'[p].item = item
      /\ \A q \in Procs : q # p => op'[q] = op[q]
  BY <1>1 DEF Op, Idle
<1>4. \A r \in Runs : \A e : ~ IsInHand(r, e) /\ (IsInHand(r, e)' <=> r = o /\ e = item)
  BY <1>2, <1>3 DEF IsInHand
<1>5. \A r \in Runs : \A e : e \in files[r] <=> IsIndexed(r, e)
  BY <1>4 DEF MixedInvariant, FilesAreIndexed
<1>6. \A e \in files[o] : filename(e) # filename(item)
  BY <1>2, <1>5, NextNameFree DEF IsIndexed
<1>7. {e \in files[o] : filename(e) # filename(item)} = files[o]
  BY <1>6
<1>8. files' = [files EXCEPT ![o] = files[o] \cup {item}]
  BY <1>1, <1>7 DEF Replaced
<1>9. \A r \in Runs : \A e : e \in files'[r] <=> e \in files[r] \/ (r = o /\ e = item)
  BY <1>1, <1>2, <1>8
<1>10. \A r \in Runs : \A e : IsIndexed(r, e)' <=> IsIndexed(r, e)
  BY <1>1 DEF IsIndexed
<1>11. FilesAreIndexed'
  BY <1>4, <1>5, <1>9, <1>10 DEF FilesAreIndexed
<1> QED
  BY <1>9, <1>11

\* commit(): the record in hand becomes the last of the rows.
LEMMA MixedCommits ==
  ASSUME MixedInvariant, NEW p \in Procs, Commit(p)
  PROVE  FilesAreIndexed' /\ \A r \in Runs : files[r] \subseteq files'[r]
<1> DEFINE o == op[p].run
           item == op[p].item
           row == Written(db[o], item)
<1>1. /\ op[p].pc = "published" /\ UNCHANGED files /\ db' = [db EXCEPT ![o] = row]
      /\ op' = [op EXCEPT ![p] = Idle]
      /\ op \in [Procs -> Op] /\ db \in [Runs -> Row]
  BY DEF Commit, MixedInvariant, IndexInvariant, StoreFits, TypeOK
<1>2. /\ o \in Runs /\ item \in Record /\ db[o] \in Row
      /\ \A q \in Procs : q # p => op[q].pc # "published"
  BY <1>1, RecordInHand
<1>3. op'[p].pc = "idle" /\ \A q \in Procs : q # p => op'[q] = op[q]
  BY <1>1, IdleFacts
<1>4. \A r \in Runs : \A e : ~ IsInHand(r, e)' /\ (IsInHand(r, e) <=> r = o /\ e = item)
  BY <1>1, <1>2, <1>3 DEF IsInHand
<1>5. \A e : (\E i \in 1..Len(row.records) : row.records[i] = e) <=> IsIndexed(o, e) \/ e = item
  BY <1>2, WrittenRecords DEF IsIndexed
<1> HIDE DEF row
<1>6. \A r \in Runs : db'[r] = IF r = o THEN row ELSE db[r]
  BY <1>1, <1>2
<1> HIDE DEF o, item
<1>7. \A r \in Runs : r = o => \A e : IsIndexed(r, e)' <=> IsIndexed(r, e) \/ e = item
  BY <1>5, <1>6 DEF IsIndexed
<1>8. \A r \in Runs : r # o => \A e : IsIndexed(r, e)' <=> IsIndexed(r, e)
  BY <1>6 DEF IsIndexed
<1>9. \A r \in Runs : \A e : e \in files'[r] <=> IsIndexed(r, e)'
  <2>1. \A r \in Runs : \A e : e \in files[r] <=> IsIndexed(r, e) \/ (r = o /\ e = item)
    BY <1>4 DEF MixedInvariant, FilesAreIndexed
  <2>2. \A r \in Runs : \A e : IsIndexed(r, e)' <=> IsIndexed(r, e) \/ (r = o /\ e = item)
    BY <1>7, <1>8
  <2> QED
    BY <1>1, <2>1, <2>2
<1>10. FilesAreIndexed'
  BY <1>4, <1>9 DEF FilesAreIndexed
<1> QED
  BY <1>1, <1>10

\* A command that begins a storage operation.
LEMMA MixedStages ==
  ASSUME MixedInvariant, NEW p \in Procs, NEW r, NEW item, Stage(p, r, item)
  PROVE  FilesAreIndexed' /\ \A x \in Runs : files[x] \subseteq files'[x]
<1>1. /\ UNCHANGED <<files, db>> /\ op[p] = Idle /\ op \in [Procs -> Op]
      /\ op' = [op EXCEPT ![p] = [pc |-> "staged", run |-> r, item |-> item]]
  BY DEF Stage, MixedInvariant, IndexInvariant, StoreFits, TypeOK
<1>2. op[p].pc = "idle" /\ op'[p].pc = "staged" /\ \A q \in Procs : q # p => op'[q] = op[q]
  BY <1>1, IdleFacts
<1> QED
  BY <1>1, <1>2, MixedRests

\* The step of one command.
LEMMA MixedMoves ==
  ASSUME MixedInvariant, NEW p \in Procs, NEW w \in Command,
         \/ wf' = [wf EXCEPT ![p] = w] /\ w.step \in OrdinarySteps
         \/ UNCHANGED wf
  PROVE  NoneRecovers'
<1>1. wf \in [Procs -> Command] /\ \A q \in Procs : wf[q].step \in OrdinarySteps
  BY DEF MixedInvariant, IndexInvariant, CommandsFit, NoneRecovers
<1> QED
  BY <1>1 DEF NoneRecovers

\* A command ends, or goes on to an ordinary step.
LEMMA MixedLeaves ==
  ASSUME MixedInvariant, NEW p \in Procs, Leave(p)
  PROVE  NoneRecovers'
<1>1. NoCommand \in Command /\ NoCommand.step = "idle"
  BY NoCommandFits DEF NoCommand
<1> QED
  BY <1>1, MixedMoves DEF Leave, OrdinarySteps

LEMMA MixedGoes ==
  ASSUME MixedInvariant, NEW p \in Procs, NEW x \in OrdinarySteps,
         NEW w, w = [wf[p] EXCEPT !.step = x], wf' = [wf EXCEPT ![p] = w]
  PROVE  NoneRecovers'
<1>1. wf[p] \in Command /\ x \in Steps
  BY DEF MixedInvariant, IndexInvariant, CommandsFit, OrdinarySteps, Steps
<1>2. w \in Command /\ w.step = x
  BY <1>1, StepChanged
<1> QED
  BY <1>2, MixedMoves

\* A command that begins.
LEMMA MixedStarts ==
  ASSUME NothingFails, MixedInvariant, NEW p \in Procs, StartCommand(p)
  PROVE  NoneRecovers' /\ FilesAreIndexed' /\ \A r \in Runs : files[r] \subseteq files'[r]
<1> DEFINE Started(r, cmd, x) ==
             (\E item : Stage(p, r, item)) /\ wf' = [wf EXCEPT ![p] = Running(p, cmd, x, r)]
<1>1. \E r \in Runs : Started(r, "acquire", "create") \/ Started(r, "create_snapshot", "create")
                     \/ Started(r, "cancel", "cancel")
  <2>1. ASSUME NEW r \in Runs, StartAcquire(p, r) PROVE Started(r, "acquire", "create")
    BY <2>1 DEF StartAcquire, BeginCreate
  <2>2. ASSUME NEW r \in Runs, StartCreateSnapshot(p, r)
        PROVE  Started(r, "create_snapshot", "create")
    BY <2>2 DEF StartCreateSnapshot, BeginCreate
  <2>3. ASSUME NEW r \in Runs, StartCancel(p, r) PROVE Started(r, "cancel", "cancel")
    BY <2>3 DEF StartCancel, BeginTransition
  <2> HIDE DEF Started
  <2> QED
    BY <2>1, <2>2, <2>3 DEF StartCommand
<1>2. ASSUME NEW r \in Runs, NEW cmd \in Cmds, NEW x \in OrdinarySteps, Started(r, cmd, x)
      PROVE  NoneRecovers' /\ FilesAreIndexed' /\ \A y \in Runs : files[y] \subseteq files'[y]
  <2> DEFINE w == Running(p, cmd, x, r)
  <2>1. w \in Command /\ w.step = x
    <3>1. x \in Steps
      BY DEF OrdinarySteps, Steps
    <3> QED
      BY <3>1, RunningFacts
  <2>2. wf' = [wf EXCEPT ![p] = w] /\ \E item : Stage(p, r, item)
    BY <1>2
  <2> HIDE DEF w, Started
  <2>3. NoneRecovers'
    BY <2>1, <2>2, MixedMoves
  <2> QED
    BY <2>2, <2>3, MixedStages
<1>3. /\ {"acquire", "create_snapshot", "cancel"} \subseteq Cmds
      /\ {"create", "cancel"} \subseteq OrdinarySteps
  BY DEF Cmds, OrdinarySteps
<1> HIDE DEF Started
<1> QED
  BY <1>1, <1>2, <1>3

\* A storage operation begins, is refused, publishes or commits.
LEMMA MixedOperates ==
  ASSUME MixedInvariant, NEW p \in Procs,
         \/ BeginOperation(p) \/ OperationRefused(p) \/ PublishOperation(p) \/ CommitOperation(p)
  PROVE  NoneRecovers' /\ FilesAreIndexed' /\ \A r \in Runs : files[r] \subseteq files'[r]
<1>1. CASE BeginOperation(p)
  <2>1. (\E r, item : Stage(p, r, item)) /\ UNCHANGED wf
    BY <1>1 DEF BeginOperation, BeginTransition, BeginPersist
  <2>2. NoneRecovers'
    BY <2>1 DEF MixedInvariant, NoneRecovers
  <2> QED
    BY <2>1, <2>2, MixedStages
<1>2. CASE OperationRefused(p)
  <2>1. UNCHANGED <<files, db, op>> /\ Leave(p)
    BY <1>2 DEF OperationRefused
  <2> QED
    BY <2>1, MixedRests, MixedLeaves
<1>3. CASE PublishOperation(p)
  <2>1. Publish(p) /\ UNCHANGED wf
    BY <1>3 DEF PublishOperation
  <2>2. NoneRecovers'
    BY <2>1 DEF MixedInvariant, NoneRecovers
  <2> QED
    BY <2>1, <2>2, MixedPublishes
<1>4. CASE CommitOperation(p)
  <2>1. Commit(p) /\ IF NextStep(wf[p]) = "done" THEN Leave(p) ELSE Goto(p, NextStep(wf[p]))
    BY <1>4 DEF CommitOperation
  <2>2. wf[p].step \in StorageSteps
    BY <2>1, StoreCommits DEF MixedInvariant, IndexInvariant, CommandsFit, CommandFits, InTransaction
  <2>3. CASE Leave(p)
    BY <2>1, <2>3, MixedCommits, MixedLeaves
  <2>4. CASE NextStep(wf[p]) # "done" /\ Goto(p, NextStep(wf[p]))
    <3> DEFINE x == NextStep(wf[p])
               w == [wf[p] EXCEPT !.step = x]
    <3>1. x \in OrdinarySteps
      BY <2>2, <2>4 DEF NextStep, StorageSteps, TransitionSteps, OrdinarySteps
    <3>2. wf \in [Procs -> Command]
      BY DEF MixedInvariant, IndexInvariant, CommandsFit
    <3>3. wf' = [wf EXCEPT ![p] = w]
      BY <2>4, <3>2 DEF Goto
    <3> HIDE DEF x
    <3>4. NoneRecovers'
      BY <3>1, <3>3, MixedGoes
    <3> QED
      BY <2>1, <3>4, MixedCommits
  <2> QED
    BY <2>1, <2>3, <2>4
<1> QED
  BY <1>1, <1>2, <1>3, <1>4

\* The steps between storage operations.
LEMMA MixedReads ==
  ASSUME MixedInvariant, NEW p \in Procs,
         Observe(p) \/ RootChanged(p) \/ VerifyObservation(p) \/ Report(p)
  PROVE  NoneRecovers' /\ FilesAreIndexed' /\ \A r \in Runs : files[r] \subseteq files'[r]
<1>1. UNCHANGED <<files, db, op>>
  BY DEF Observe, RootChanged, VerifyObservation, Report
<1>2. FilesAreIndexed' /\ \A r \in Runs : files[r] \subseteq files'[r]
  BY <1>1, MixedRests
<1>3. wf \in [Procs -> Command]
  BY DEF MixedInvariant, IndexInvariant, CommandsFit
<1>4. CASE Observe(p)
  <2>1. PICK c \in SnapshotStatus :
          wf' = [wf EXCEPT ![p].step = "persist", ![p].snap = c]
    BY <1>4 DEF Observe
  <2> DEFINE v == [wf[p] EXCEPT !.step = "persist"]
             w == [v EXCEPT !.snap = c]
  <2>2. wf' = [wf EXCEPT ![p] = w]
    BY <1>3, <2>1
  <2>3. v \in Command /\ v.step = "persist"
    BY <1>3, StepChanged DEF Steps
  <2> HIDE DEF v
  <2>4. w \in Command /\ w.step = "persist"
    BY <2>3, SnapChanged
  <2> HIDE DEF w
  <2>5. NoneRecovers'
    BY <2>2, <2>4, MixedMoves DEF OrdinarySteps
  <2> QED
    BY <1>2, <2>5
<1>5. CASE VerifyObservation(p) /\ Goto(p, "verifying")
  <2> DEFINE w == [wf[p] EXCEPT !.step = "verifying"]
  <2>1. wf' = [wf EXCEPT ![p] = w]
    BY <1>3, <1>5 DEF Goto
  <2>2. NoneRecovers'
    BY <2>1, MixedGoes DEF OrdinarySteps
  <2> QED
    BY <1>2, <2>2
<1>6. CASE Leave(p)
  BY <1>2, <1>6, MixedLeaves
<1>7. Observe(p) \/ (VerifyObservation(p) /\ Goto(p, "verifying")) \/ Leave(p)
  BY DEF RootChanged, VerifyObservation, Report
<1> QED
  BY <1>4, <1>5, <1>6, <1>7

\* One step: the invariant is kept, and Evidence only grows.
LEMMA MixedStep ==
  ASSUME NothingFails, MixedInvariant, [AcquisitionNext]_vars
  PROVE  MixedInvariant' /\ \A r \in Runs : files[r] \subseteq files'[r]
<1>1. IndexInvariant'
  BY IndexStep DEF MixedInvariant
<1>2. faults = 0 /\ MaxFaults = 0 /\ "recover" \notin Commands
  BY DEF NothingFails, MixedInvariant, IndexInvariant, StoreFits, TypeOK
<1>3. NoneRecovers' /\ FilesAreIndexed' /\ \A r \in Runs : files[r] \subseteq files'[r]
  <2>1. CASE UNCHANGED <<files, db, op, wf>>
    BY <2>1, MixedRests DEF MixedInvariant, NoneRecovers
  <2>2. ASSUME NEW p \in Procs, StartCommand(p)
        PROVE  NoneRecovers' /\ FilesAreIndexed' /\ \A r \in Runs : files[r] \subseteq files'[r]
    BY <2>2, MixedStarts
  <2>3. ASSUME NEW p \in Procs, Continue(p)
        PROVE  \/ BeginOperation(p) \/ OperationRefused(p)
               \/ PublishOperation(p) \/ CommitOperation(p)
               \/ Observe(p) \/ RootChanged(p) \/ VerifyObservation(p) \/ Report(p)
    <3>1. wf[p].step \in OrdinarySteps
      BY DEF MixedInvariant, NoneRecovers
    <3>2. op[p].pc # "append"
      BY <3>1 DEF MixedInvariant, IndexInvariant, CommandsFit, CommandFits, OrdinarySteps
    <3>3. ~ (HandleInterrupt(p) \/ PublishAppend(p) \/ Ensure(p) \/ Recheck(p)
             \/ Replay(p) \/ Backup(p) \/ Install(p))
      BY <3>1, <3>2 DEF OrdinarySteps, HandleInterrupt, PublishAppend, Ensure, Recheck,
                        Replay, Backup, Install
    <3> QED
      BY <2>3, <3>3 DEF Continue
  <2>4. ASSUME NEW p \in Procs PROVE ~ (Interrupt(p) \/ Fail(p) \/ Crash(p))
    BY <1>2 DEF Interrupt, Fail, Crash
  <2>5. ASSUME NEW r \in Runs PROVE ~ RecoverRun(r)
    BY <1>2 DEF RecoverRun
  <2>6. CASE Inspect
    BY <2>1, <2>6 DEF Inspect, ReadWriteOpen
  <2> QED
    BY <2>1, <2>2, <2>3, <2>4, <2>5, <2>6, MixedOperates, MixedReads DEF AcquisitionNext, vars
<1> QED
  BY <1>1, <1>3 DEF MixedInvariant

LEMMA MixedInit == AcquisitionInit => MixedInvariant
<1> SUFFICES ASSUME AcquisitionInit PROVE MixedInvariant
  OBVIOUS
<1>1. IndexInvariant
  BY IndexInit
<1>2. NoneRecovers
  BY NoCommandFits DEF AcquisitionInit, NoneRecovers, OrdinarySteps
<1>3. FilesAreIndexed
  BY IdleFacts DEF AcquisitionInit, Init, FilesAreIndexed, IsIndexed, IsInHand, NoRow
<1> QED
  BY <1>1, <1>2, <1>3 DEF MixedInvariant

THEOREM MixedAlways == ASSUME NothingFails PROVE AcquisitionSpec => []MixedInvariant
<1>1. MixedInvariant /\ [AcquisitionNext]_vars => MixedInvariant'
  BY MixedStep
<1> QED
  BY <1>1, MixedInit, PTL DEF AcquisitionSpec

\* Acquisition, the legacy create_snapshot and cancel keep every ledger
\* verified while nothing fails: SQLite's write lock is enough for that
\* (create_run, transition_run, _persist).
THEOREM MixedLedgersVerify == ASSUME NothingFails PROVE AcquisitionSpec => []LedgersVerify
BY MixedAlways, MixedLedgers, PTL

\* Nor do they overwrite one another's files, although write_evidence looks
\* for a file and renames over its name in two steps.
THEOREM MixedEvidenceStays == ASSUME NothingFails PROVE AcquisitionSpec => EvidenceImmutable
<1>1. MixedInvariant /\ [AcquisitionNext]_vars =>
        [\A r \in Runs : files[r] \subseteq files'[r]]_storeVars
  BY MixedStep
<1> QED
  BY <1>1, MixedAlways, PTL DEF AcquisitionSpec, EvidenceImmutable

-----------------------------------------------------------------------------
(***************************************************************************)
(* Where only the supported commands run (acquire_snapshot,                *)
(* recover_snapshot_acquisition, and commands that change nothing): the    *)
(* ledgers verify, Evidence is immutable, the index never regresses,       *)
(* reports stay true, and the workflow implements the contract of          *)
(* acquisition.                                                            *)
(*                                                                         *)
(* None of these is inductive.  The lease leaves one process that writes   *)
(* (Leased), so what a command read when it began a step still holds when  *)
(* it acts on it: where it is in its Run's ledger (Expects), that the      *)
(* index holds all of that ledger before each storage operation (InStep),  *)
(* that a record built from the ledger is its next record (AppendItem),    *)
(* and that the candidate of a rebuild is what the Evidence says now.      *)
(***************************************************************************)

\* The supported commands: acquire_snapshot, recover_snapshot_acquisition, and
\* commands that open the index and change nothing.
SupportedOnly == Commands \subseteq {"acquire", "recover", "inspect"}

\* A Run that is being acquired has no Snapshot while it is created or
\* scanning; one that has a Snapshot is on its way to verified.
LedgerFits(F) ==
  /\ verify_run(F)
  /\ Cardinality(SnapshotsIn(F)) <= 1
  /\ \A e \in F : e.type = "run.created" => e.meta = "governed"
  /\ LedgerStatus(F) \in IF SnapshotsIn(F) = {}
                         THEN {"created", "scanning", "failed", "cancelled"}
                         ELSE {"scanning", "scanned", "partial", "verifying", "verified"}

\* The index holds all of the ledger of Run r.
InStep(r) == db[r].last_sequence = Cardinality(files[r])

\* What a command relies on before the storage operation of a step.
Expects(step, F) ==
  /\ step = "scanning" => LedgerStatus(F) = "created" /\ SnapshotsIn(F) = {}
  /\ step \in {"observe", "persist"} => LedgerStatus(F) = "scanning" /\ SnapshotsIn(F) = {}
  /\ step = "close" => LedgerStatus(F) = "scanning" /\ SnapshotsIn(F) # {}
  /\ step \in {"verify", "verifying"} =>
        LedgerStatus(F) \in {"scanned", "partial"} /\ SnapshotsIn(F) # {}
  /\ step = "verified" => LedgerStatus(F) = "verifying" /\ SnapshotsIn(F) # {}

ExpectingSteps == {"scanning", "observe", "persist", "close", "verify", "verifying", "verified"}

\* The record that the operation of a step publishes.
StepItem(w, item) ==
  /\ w.step = "create" => item = CreatedRecord("governed")
  /\ w.step = "persist" => item.type = "filesystem.snapshot"
  /\ w.step \in TransitionSteps => item.type = "run.state_transition" /\ item.to = StepTarget(w)

\* A record staged from the ledger abandons a Run that has no Snapshot or
\* closes one that has.
AppendItem(F, item) ==
  /\ item = TransitionRecord(Cardinality(F), digest(Chain(F)[Cardinality(F)]),
                             LedgerStatus(F), item.to, "ledger")
  /\ \/ /\ SnapshotsIn(F) = {} /\ LedgerStatus(F) \in {"created", "scanning"}
        /\ item.to \in {"failed", "cancelled"}
     \/ /\ SnapshotsIn(F) # {} /\ LedgerStatus(F) = "scanning"
        /\ item.to \in {"scanned", "partial"}

\* Process p is where its command and its operation say.
StepFits(p) ==
  LET w == wf[p]
      o == op[p]
      F == files[w.run]
  IN  /\ w.step # "cancel"
      /\ w.step \in ExpectingSteps /\ o.pc # "published" =>
            F # {} /\ InStep(w.run) /\ Expects(w.step, F)
      /\ InTransaction(p) => o.run = w.run /\ StepItem(w, o.item)
      /\ o.pc = "staged" /\ w.step = "create" => F = {}
      /\ o.pc = "published" =>
            /\ F # {} /\ Cardinality(F) = db[w.run].last_sequence + 1
            /\ o.item \in F /\ Expects(NextStep(w), F)
      /\ o.pc = "append" => o.run = w.run /\ F # {} /\ AppendItem(F, o.item)
      /\ w.step \in {"backup", "install"} =>
            \A r \in Runs : w.candidate[r] = IF files[r] = {} THEN NoRow ELSE ReplayedRow(files[r])

\* A reported Run, as far as its ledger and its rows go.
ReportTrue(r) ==
  /\ files[r] # {} /\ LedgerStatus(files[r]) = "verified" /\ SnapshotsIn(files[r]) # {}
  /\ SnapshotOf(files[r]) = published[r] /\ IndexMatches(r)
  /\ db[r].snapshot = SnapshotOf(files[r]) /\ Eligible(files[r])

Leased == \A p \in Procs : wf[p].step # "idle" => lease = p

LedgersFit == \A r \in Runs : files[r] # {} => LedgerFits(files[r])

StepsFit == \A p \in Procs : wf[p].step # "idle" => StepFits(p)

ReportsTrue == \A r \in Runs : published[r] # None => ReportTrue(r)

\* The inductive invariant, on top of that of every mix of commands.
WorkflowInvariant ==
  IndexInvariant /\ Leased /\ IndexNeverAhead /\ LedgersFit /\ StepsFit /\ ReportsTrue

\* What every step keeps to.
EvidenceKept == \A r \in Runs : files[r] \subseteq files'[r]

IndexKept == \A r \in Runs : db[r].last_sequence <= db'[r].last_sequence

ContractStep == [Contract!ContractNext]_(Contract!contractVars)

StepPromise == EvidenceKept /\ IndexKept /\ ContractStep

-----------------------------------------------------------------------------
(* How the directory of a Run grows.                                        *)

\* A file of another type than a Snapshot is no Snapshot.
LEMMA SnapshotsOfMore ==
  ASSUME NEW F, NEW e
  PROVE  SnapshotsIn(F \cup {e}) = IF e.type = "filesystem.snapshot" THEN SnapshotsIn(F) \cup {e}
                                   ELSE SnapshotsIn(F)
BY DEF SnapshotsIn

\* The first file of a Run.
LEMMA LedgerStarts ==
  LET e == CreatedRecord("governed")
  IN  /\ LedgerFits({e}) /\ LedgerStatus({e}) = "created" /\ SnapshotsIn({e}) = {}
      /\ Cardinality({e}) = 1 /\ Cardinality({}) = 0
<1> DEFINE e == CreatedRecord("governed")
<1>1. /\ e \in Record /\ e.seq = 1 /\ e.type = "run.created" /\ e.meta = "governed"
      /\ e.prev = NoDigest
  BY RecordTypes DEF CreatedRecord, Origin
<1> HIDE DEF e
<1>2. {} \in SUBSET Record /\ IsFiniteSet({}) /\ Cardinality({}) = 0
  BY FS_EmptySet
<1>3. Contiguous({})
  BY <1>2 DEF Contiguous
<1>4. Chain({}) \in Seq(Record) /\ Len(Chain({})) = 0
  BY <1>2, <1>3, ChainOfFiles
<1>5. ChainVerifies(Chain({}))
  BY <1>4 DEF ChainVerifies
<1>6. Append(Chain({}), e)[1] = e
  BY <1>1, <1>4
<1>7. RecordVerifies(Append(Chain({}), e), Cardinality({}) + 1)
  BY <1>1, <1>2, <1>6 DEF RecordVerifies
<1>8. /\ verify_run({} \cup {e}) /\ Cardinality({} \cup {e}) = 0 + 1
      /\ LedgerStatus({} \cup {e}) = LedgerStatus({})
  BY <1>1, <1>2, <1>3, <1>5, <1>7, LedgerExtends
<1>9. {} \cup {e} = {e}
  OBVIOUS
<1>10. LedgerStatus({}) = "created"
  <2>1. TransitionsUpTo(Chain({}), Len(Chain({}))) = {}
    BY <1>4 DEF TransitionsUpTo
  <2> QED
    BY <2>1 DEF LedgerStatus, StatusOf, StatusAfter
<1>11. SnapshotsIn({e}) = {}
  BY <1>1 DEF SnapshotsIn
<1>12. LedgerFits({e})
  BY <1>1, <1>2, <1>8, <1>9, <1>10, <1>11 DEF LedgerFits
<1> QED
  BY <1>2, <1>8, <1>9, <1>10, <1>11, <1>12 DEF e

\* e is the next record of directory F.
NextOf(F, e) ==
  /\ e.seq = Cardinality(F) + 1
  /\ e.prev = digest(Chain(F)[Cardinality(F)])
  /\ e.type \in {"run.state_transition", "filesystem.snapshot"}
  /\ e.type = "run.state_transition" =>
        e.from = LedgerStatus(F) /\ validate_transition(LedgerStatus(F), e.to)

\* The next file of a Run: its name is new, the directory verifies again.
LEMMA LedgerGrows ==
  ASSUME NEW F \in SUBSET Record, IsFiniteSet(F), F # {}, verify_run(F),
         NEW e \in Record, NextOf(F, e)
  PROVE  /\ verify_run(F \cup {e}) /\ e \notin F /\ IsFiniteSet(F \cup {e})
         /\ Cardinality(F) \in Nat \ {0} /\ Cardinality(F \cup {e}) = Cardinality(F) + 1
         /\ LedgerStatus(F \cup {e}) = IF e.type = "run.state_transition" THEN e.to
                                       ELSE LedgerStatus(F)
         /\ \A x \in F : filename(x) # filename(e)
<1> DEFINE n == Cardinality(F)
           s == Chain(F)
<1>1. /\ n \in Nat \ {0} /\ s \in Seq(Record) /\ Len(s) = n /\ ChainVerifies(s)
      /\ \A x \in F : x.seq \in 1..n
  BY LedgerFacts
<1>2. e \notin F /\ \A x \in F : x.seq # e.seq
  BY <1>1 DEF NextOf
<1>3. \A x \in F : filename(x) # filename(e)
  BY <1>2 DEF filename
<1>4. Append(s, e)[n + 1] = e /\ Append(s, e)[n] = s[n]
  BY <1>1, AppendProperties
<1>5. StatusAfter(Append(s, e), n) = LedgerStatus(F)
  BY <1>1, StatusAfterPrefix DEF LedgerStatus, StatusOf
<1>6. RecordVerifies(Append(s, e), n + 1)
  <2>1. (n + 1) - 1 = n /\ n + 1 # 1
    BY <1>1
  <2> QED
    BY <1>4, <1>5, <2>1 DEF RecordVerifies, NextOf
<1>7. Contiguous(F)
  BY DEF verify_run
<1>8. /\ verify_run(F \cup {e}) /\ IsFiniteSet(F \cup {e}) /\ Cardinality(F \cup {e}) = n + 1
      /\ LedgerStatus(F \cup {e}) = IF e.type = "run.state_transition" THEN e.to
                                    ELSE LedgerStatus(F)
  BY <1>1, <1>6, <1>7, LedgerExtends
<1> QED
  BY <1>1, <1>2, <1>3, <1>8

\* A transition of the workflow keeps the directory what acquisition makes it.
LEMMA TransitionFits ==
  ASSUME NEW F \in SUBSET Record, IsFiniteSet(F), F # {}, LedgerFits(F),
         NEW e \in Record, NextOf(F, e), e.type = "run.state_transition",
         e.to \in IF SnapshotsIn(F) = {} THEN {"scanning", "failed", "cancelled"}
                  ELSE {"scanned", "partial", "verifying", "verified"}
  PROVE  LedgerFits(F \cup {e}) /\ LedgerStatus(F \cup {e}) = e.to
         /\ SnapshotsIn(F \cup {e}) = SnapshotsIn(F)
<1>1. verify_run(F \cup {e}) /\ LedgerStatus(F \cup {e}) = e.to
  BY LedgerGrows DEF LedgerFits
<1>2. SnapshotsIn(F \cup {e}) = SnapshotsIn(F)
  BY SnapshotsOfMore
<1> QED
  BY <1>1, <1>2 DEF LedgerFits

\* So does the Snapshot of a Run that is scanning.
LEMMA SnapshotFits ==
  ASSUME NEW F \in SUBSET Record, IsFiniteSet(F), F # {}, LedgerFits(F),
         NEW e \in Record, NextOf(F, e), e.type = "filesystem.snapshot",
         SnapshotsIn(F) = {}, LedgerStatus(F) = "scanning"
  PROVE  LedgerFits(F \cup {e}) /\ LedgerStatus(F \cup {e}) = "scanning"
         /\ SnapshotsIn(F \cup {e}) = {e} /\ SnapshotOf(F \cup {e}) = e.snap
<1>1. verify_run(F \cup {e}) /\ LedgerStatus(F \cup {e}) = "scanning"
  BY LedgerGrows DEF LedgerFits
<1>2. SnapshotsIn(F \cup {e}) = {e}
  BY SnapshotsOfMore
<1>3. Cardinality({e}) = 1
  BY FS_Singleton
<1>4. SnapshotOf(F \cup {e}) = e.snap
  BY <1>2 DEF SnapshotOf
<1> QED
  BY <1>1, <1>2, <1>3, <1>4 DEF LedgerFits

-----------------------------------------------------------------------------
(* One command at a time.                                                   *)

\* While a command of p runs, nothing else does.
LEMMA OneActive ==
  ASSUME WorkflowInvariant, NEW p \in Procs, wf[p].step # "idle"
  PROVE  /\ lease = p /\ StepFits(p) /\ wf[p].run \in Runs /\ wf[p] \in Command
         /\ wf \in [Procs -> Command] /\ CommandFits(wf[p], op[p])
         /\ \A q \in Procs : q # p => wf[q].step = "idle" /\ op[q] = Idle /\ ~InTransaction(q)
         /\ ~OthersWriting(p)
<1>1. /\ lease = p /\ StepFits(p) /\ wf[p].run \in Runs /\ wf[p] \in Command
      /\ wf \in [Procs -> Command] /\ CommandFits(wf[p], op[p])
  BY DEF WorkflowInvariant, Leased, StepsFit, IndexInvariant, CommandsFit, CommandFits
<1>2. \A q \in Procs : q # p => wf[q].step = "idle"
  BY <1>1 DEF WorkflowInvariant, Leased
<1>3. "idle" \notin StorageSteps \cup {"append"}
  BY DEF StorageSteps, TransitionSteps
<1>4. \A q \in Procs : q # p => op[q] = Idle /\ ~InTransaction(q)
  BY <1>2, <1>3, RestingOp DEF WorkflowInvariant
<1> QED
  BY <1>1, <1>2, <1>4 DEF OthersWriting

\* While the lease is free, nothing runs.
LEMMA NoneActive ==
  ASSUME WorkflowInvariant, LeaseFree
  PROVE  \A q \in Procs : wf[q].step = "idle"
BY NoProcAssumption DEF WorkflowInvariant, Leased, LeaseFree

\* A step of the one command that runs has to be judged by itself.
LEMMA StepOfOne ==
  ASSUME IndexInvariant', NEW p \in Procs,
         \A q \in Procs : q # p => wf[q].step = "idle" /\ wf'[q] = wf[q],
         wf'[p].step # "idle" => lease' = p /\ StepFits(p)',
         IndexNeverAhead', LedgersFit', ReportsTrue'
  PROVE  WorkflowInvariant'
<1>1. Leased' /\ StepsFit'
  BY DEF Leased, StepsFit
<1> QED
  BY <1>1 DEF WorkflowInvariant

\* A step that changes no Evidence, no row and no report.
LEMMA QuietStep ==
  ASSUME WorkflowInvariant, IndexInvariant', NEW p \in Procs,
         \A q \in Procs : q # p => wf[q].step = "idle" /\ wf'[q] = wf[q],
         wf'[p].step # "idle" => lease' = p /\ StepFits(p)',
         UNCHANGED <<files, db, published>>
  PROVE  WorkflowInvariant' /\ StepPromise
<1>1. IndexNeverAhead' /\ LedgersFit' /\ ReportsTrue'
  BY DEF WorkflowInvariant, IndexNeverAhead, LedgersFit, ReportsTrue, ReportTrue, IndexMatches
<1>2. WorkflowInvariant'
  BY <1>1, StepOfOne
<1>3. EvidenceKept /\ IndexKept
  <2>1. \A r \in Runs : db[r].last_sequence \in Nat
    BY DEF WorkflowInvariant, IndexInvariant, StoreFits, TypeOK, Row
  <2> QED
    BY <2>1 DEF EvidenceKept, IndexKept
<1>4. ContractStep
  <2>1. UNCHANGED Contract!contractVars
    BY DEF Contract!contractVars
  <2> QED
    BY <2>1 DEF ContractStep
<1> QED
  BY <1>2, <1>3, <1>4 DEF StepPromise

\* The command of p ends.
LEMMA LeavingStep ==
  ASSUME WorkflowInvariant, IndexInvariant', NEW p \in Procs, wf[p].step # "idle",
         Leave(p), UNCHANGED <<files, db, published>>
  PROVE  WorkflowInvariant' /\ StepPromise
<1>1. \A q \in Procs : q # p => wf[q].step = "idle" /\ wf'[q] = wf[q]
  BY OneActive DEF Leave
<1>2. wf'[p].step = "idle"
  BY OneActive, NoCommandFits DEF Leave
<1> QED
  BY <1>1, <1>2, QuietStep

\* The command of p goes on to a step that expects nothing yet, or what is
\* there; it holds no operation.
LEMMA GoingStep ==
  ASSUME WorkflowInvariant, IndexInvariant', NEW p \in Procs, wf[p].step # "idle",
         NEW w, wf' = [wf EXCEPT ![p] = w], UNCHANGED lease, op'[p] = Idle,
         UNCHANGED <<files, db, published>>, w.run = wf[p].run, w.step # "cancel",
         w.step \in ExpectingSteps =>
            files[w.run] # {} /\ InStep(w.run) /\ Expects(w.step, files[w.run]),
         w.step \in {"backup", "install"} =>
            \A r \in Runs : w.candidate[r] = IF files[r] = {} THEN NoRow ELSE ReplayedRow(files[r])
  PROVE  WorkflowInvariant' /\ StepPromise
<1>1. /\ \A q \in Procs : q # p => wf[q].step = "idle" /\ wf'[q] = wf[q]
      /\ wf'[p] = w /\ lease' = p
  BY OneActive
<1>2. StepFits(p)'
  BY <1>1, IdleFacts DEF StepFits, InStep, InTransaction
<1> QED
  BY <1>1, <1>2, QuietStep

-----------------------------------------------------------------------------
(* The rows of a Run and its ledger.                                        *)

\* The types a step of Run r works with.
LEMMA RunTypes ==
  ASSUME WorkflowInvariant, NEW r \in Runs
  PROVE  /\ files \in [Runs -> SUBSET Record] /\ files[r] \in SUBSET Record
         /\ IsFiniteSet(files[r]) /\ db \in [Runs -> Row] /\ db[r] \in Row
         /\ RowVerifies(db[r]) /\ (files[r] # {} => LedgerFits(files[r]))
         /\ db[r].records \in Seq(Record) /\ db[r].last_sequence \in Nat
         /\ op \in [Procs -> Op] /\ published \in [Runs -> SnapshotStatus \cup {None}]
<1>1. /\ files \in [Runs -> SUBSET Record] /\ files[r] \in SUBSET Record
      /\ IsFiniteSet(files[r]) /\ db \in [Runs -> Row] /\ db[r] \in Row
      /\ RowVerifies(db[r]) /\ (files[r] # {} => LedgerFits(files[r])) /\ op \in [Procs -> Op]
      /\ published \in [Runs -> SnapshotStatus \cup {None}]
  BY DEF WorkflowInvariant, IndexInvariant, StoreFits, TypeOK, IndexVerifies, LedgersFit, RestOK
<1> QED
  BY <1>1 DEF Row

\* The indexed records of a Run are the first files of its ledger.
LEMMA RowsAreFirst ==
  ASSUME WorkflowInvariant, NEW r \in Runs, files[r] # {}
  PROVE  /\ Cardinality(files[r]) \in Nat
         /\ db[r].last_sequence <= Cardinality(files[r])
         /\ \A i \in 1..db[r].last_sequence : db[r].records[i] = Chain(files[r])[i]
<1> DEFINE F == files[r]
           s == db[r].records
           n == db[r].last_sequence
<1>1. /\ F \in SUBSET Record /\ IsFiniteSet(F) /\ verify_run(F) /\ n \in Nat
      /\ Len(s) = n /\ ChainVerifies(s) /\ \A i \in 1..Len(s) : s[i] \in F
  BY RunTypes DEF LedgerFits, RowVerifies, WorkflowInvariant, IndexNeverAhead
<1>2. Cardinality(F) \in Nat /\ \A e \in F : e.seq \in 1..Cardinality(F) /\ Chain(F)[e.seq] = e
  BY <1>1, LedgerFacts
<1>3. \A i \in 1..n : s[i].seq = i
  BY <1>1 DEF ChainVerifies, RecordVerifies
<1>4. \A i \in 1..n : s[i] \in F /\ s[i].seq = i /\ i \in 1..Cardinality(F) /\ s[i] = Chain(F)[i]
  BY <1>1, <1>2, <1>3
<1>5. n <= Cardinality(F)
  <2>1. CASE n = 0
    BY <1>2, <2>1
  <2>2. CASE n # 0
    <3>1. n \in 1..n
      BY <1>1, <2>2
    <3>2. n \in 1..Cardinality(F)
      BY <1>4, <3>1
    <3> QED
      BY <1>2, <3>2
  <2> QED
    BY <2>1, <2>2
<1> QED
  BY <1>2, <1>4, <1>5

\* An index in step with the ledger holds it, and its columns are the
\* ledger's.
LEMMA InStepChain ==
  ASSUME WorkflowInvariant, NEW r \in Runs, files[r] # {}, InStep(r)
  PROVE  /\ db[r].records = Chain(files[r]) /\ db[r].status = LedgerStatus(files[r])
         /\ db[r].last_sequence = Cardinality(files[r])
         /\ db[r].last_digest = digest(Chain(files[r])[Cardinality(files[r])])
<1> DEFINE F == files[r]
           s == db[r].records
           c == Chain(F)
<1>1. /\ F \in SUBSET Record /\ IsFiniteSet(F) /\ verify_run(F) /\ RowVerifies(db[r])
      /\ s \in Seq(Record) /\ db[r].last_sequence = Cardinality(F)
  BY RunTypes DEF LedgerFits, InStep
<1>2. /\ Cardinality(F) \in Nat \ {0} /\ c \in Seq(Record) /\ Len(c) = Cardinality(F)
  BY <1>1, LedgerFacts
<1>3. Len(s) = Cardinality(F)
  BY <1>1 DEF RowVerifies
<1>4. \A i \in 1..Len(s) : s[i] = c[i]
  BY <1>1, <1>3, RowsAreFirst
<1> HIDE DEF s, c
<1>5. s = c
  BY <1>1, <1>2, <1>3, <1>4, SeqEqual
<1>6. /\ db[r].status = StatusOf(s) /\ db[r].last_digest = digest(s[Cardinality(F)])
  BY <1>1, <1>2 DEF RowVerifies, s
<1> QED
  BY <1>1, <1>5, <1>6 DEF LedgerStatus, s, c

\* A Run's only Snapshot is the one SnapshotOf names.
LEMMA OneSnapshot ==
  ASSUME NEW F \in SUBSET Record, IsFiniteSet(F), Cardinality(SnapshotsIn(F)) <= 1,
         NEW e \in SnapshotsIn(F)
  PROVE  SnapshotsIn(F) = {e} /\ SnapshotOf(F) = e.snap
<1> DEFINE S == SnapshotsIn(F)
<1>1. IsFiniteSet(S) /\ S \subseteq F
  BY FS_Subset DEF SnapshotsIn
<1>2. S \ {e} = {}
  <2>1. IsFiniteSet(S \ {e}) /\ Cardinality(S \ {e}) = Cardinality(S) - 1
    BY <1>1, FS_RemoveElement
  <2>2. Cardinality(S) \in Nat /\ Cardinality(S \ {e}) \in Nat
    BY <1>1, <2>1, FS_CardinalityType
  <2>3. Cardinality(S \ {e}) = 0
    BY <2>1, <2>2
  <2> QED
    BY <2>1, <2>3, FS_EmptySet
<1>3. S = {e}
  BY <1>2
<1> QED
  BY <1>3 DEF SnapshotOf

\* _verification of a Run reads, through the index, what the classification
\* reads from Evidence.
LEMMA VerificationReads ==
  ASSUME WorkflowInvariant, NEW r \in Runs, files[r] # {}, IndexMatches(r)
  PROVE  /\ IndexedChain(r) = Chain(files[r])
         /\ db[r].records[1].meta = "governed" /\ Governed(files[r])
         /\ InStep(r)
<1> DEFINE F == files[r]
           c == Chain(F)
<1>1. InStep(r)
  BY DEF IndexMatches, InStep
<1>2. db[r].records = c
  BY <1>1, InStepChain
<1>3. /\ F \in SUBSET Record /\ IsFiniteSet(F) /\ verify_run(F) /\ LedgerFits(F)
  BY RunTypes DEF LedgerFits
<1>4. /\ Cardinality(F) \in Nat \ {0} /\ c \in Seq(Record) /\ Len(c) = Cardinality(F)
      /\ \A i \in 1..Cardinality(F) : c[i] \in F /\ c[i].seq = i
      /\ \A e \in F : e.seq \in 1..Cardinality(F) /\ c[e.seq] = e
      /\ c[1].type = "run.created"
  BY <1>3, LedgerFacts
<1>5. c[1] \in F /\ c[1].meta = "governed"
  BY <1>3, <1>4 DEF LedgerFits
<1>6. \A i \in 1..Len(c) : (CHOOSE e \in F : filename(e) = filename(c[i])) = c[i]
  <2> SUFFICES ASSUME NEW i \in 1..Len(c)
               PROVE  (CHOOSE e \in F : filename(e) = filename(c[i])) = c[i]
    OBVIOUS
  <2>1. c[i] \in F /\ \A e \in F : filename(e) = filename(c[i]) => e = c[i]
    <3> SUFFICES ASSUME NEW e \in F, filename(e) = filename(c[i]) PROVE e = c[i]
      BY <1>4
    <3>1. e.seq = c[i].seq
      BY DEF filename
    <3> QED
      BY <1>4, <3>1
  <2> QED
    BY <2>1
<1>7. IndexedChain(r) = c
  <2>1. IndexedChain(r) = [i \in 1..Len(c) |-> CHOOSE e \in F : filename(e) = filename(c[i])]
    BY <1>2 DEF IndexedChain
  <2>2. IndexedChain(r) = [i \in 1..Len(c) |-> c[i]]
    BY <1>6, <2>1
  <2>3. c = [i \in 1..Len(c) |-> c[i]]
    BY <1>4
  <2> QED
    BY <2>2, <2>3
<1>8. Governed(F)
  BY <1>4, <1>5 DEF Governed
<1>9. db[r].records[1].meta = "governed"
  BY <1>2, <1>5
<1> HIDE DEF F
<1> QED
  BY <1>1, <1>7, <1>8, <1>9 DEF F

-----------------------------------------------------------------------------
(* Steps that change no Evidence, no row and no report.                     *)

\* Nothing changes but the sidecar files, if that.
LEMMA StillStep ==
  ASSUME WorkflowInvariant, IndexInvariant', UNCHANGED <<files, db, op, lease, wf, published>>
  PROVE  WorkflowInvariant' /\ StepPromise
<1>1. Leased' /\ IndexNeverAhead' /\ LedgersFit' /\ ReportsTrue'
  BY DEF WorkflowInvariant, Leased, IndexNeverAhead, LedgersFit, ReportsTrue, ReportTrue,
         IndexMatches
<1>2. StepsFit'
  BY DEF WorkflowInvariant, StepsFit, StepFits, InStep, InTransaction
<1>3. EvidenceKept /\ IndexKept
  <2>1. \A r \in Runs : db[r].last_sequence \in Nat
    BY RunTypes
  <2> QED
    BY <2>1 DEF EvidenceKept, IndexKept
<1>4. ContractStep
  <2>1. UNCHANGED Contract!contractVars
    BY DEF Contract!contractVars
  <2> QED
    BY <2>1 DEF ContractStep
<1> QED
  BY <1>1, <1>2, <1>3, <1>4 DEF WorkflowInvariant, StepPromise

\* A storage operation has begun for the step its command is at.
LEMMA StagedFits ==
  ASSUME NEW p \in Procs, NEW w, NEW item,
         wf'[p] = w, op'[p] = [pc |-> "staged", run |-> w.run, item |-> item],
         StepItem(w, item), w.step \notin {"cancel", "backup", "install"},
         w.step = "create" => files'[w.run] = {},
         w.step \in ExpectingSteps =>
            /\ files'[w.run] # {} /\ db'[w.run].last_sequence = Cardinality(files'[w.run])
            /\ Expects(w.step, files'[w.run])
  PROVE  StepFits(p)'
<1>1. op'[p].pc = "staged" /\ op'[p].run = w.run /\ op'[p].item = item
  OBVIOUS
<1> QED
  BY <1>1 DEF StepFits, InStep

\* A record has been staged from the ledger.
LEMMA AppendFits ==
  ASSUME NEW p \in Procs, NEW w, NEW item,
         wf'[p] = w, op'[p] = [pc |-> "append", run |-> w.run, item |-> item],
         w.step = "append", files'[w.run] # {}, AppendItem(files'[w.run], item)
  PROVE  StepFits(p)'
<1>1. op'[p].pc = "append" /\ op'[p].run = w.run /\ op'[p].item = item
  OBVIOUS
<1> QED
  BY <1>1 DEF StepFits, InTransaction, ExpectingSteps

\* The record that StageAppend stages.
LEMMA StagedAppend ==
  ASSUME WorkflowInvariant, NEW p \in Procs, NEW r \in Runs, NEW t, StageAppend(p, r, t),
         files[r] # {},
         \/ /\ SnapshotsIn(files[r]) = {} /\ LedgerStatus(files[r]) \in {"created", "scanning"}
            /\ t \in {"failed", "cancelled"}
         \/ /\ SnapshotsIn(files[r]) # {} /\ LedgerStatus(files[r]) = "scanning"
            /\ t \in {"scanned", "partial"}
  PROVE  \E item : /\ op'[p] = [pc |-> "append", run |-> r, item |-> item]
                   /\ AppendItem(files'[r], item) /\ UNCHANGED <<files, db, faults>>
<1> DEFINE item == TransitionRecord(Cardinality(files[r]),
                                    digest(Chain(files[r])[Cardinality(files[r])]),
                                    LedgerStatus(files[r]), t, "ledger")
<1>1. /\ op' = [op EXCEPT ![p] = [pc |-> "append", run |-> r, item |-> item]]
      /\ UNCHANGED <<files, db, faults>>
  BY DEF StageAppend
<1>2. item.to = t
  BY DEF TransitionRecord
<1>3. AppendItem(files[r], item)
  <2>1. item = TransitionRecord(Cardinality(files[r]),
                                digest(Chain(files[r])[Cardinality(files[r])]),
                                LedgerStatus(files[r]), item.to, "ledger")
    BY <1>2
  <2> HIDE DEF item
  <2> QED
    BY <1>2, <2>1 DEF AppendItem
<1> HIDE DEF item
<1>4. op'[p] = [pc |-> "append", run |-> r, item |-> item]
  BY <1>1, RunTypes
<1> QED
  BY <1>1, <1>3, <1>4

\* acquire_snapshot begins.
LEMMA AcquireBegins ==
  ASSUME WorkflowInvariant, IndexInvariant', SupportedOnly, NEW p \in Procs, StartCommand(p)
  PROVE  WorkflowInvariant' /\ StepPromise
<1>1. PICK r \in Runs : StartAcquire(p, r)
  BY DEF StartCommand, SupportedOnly
<1> DEFINE w == Running(p, "acquire", "create", r)
           item == CreatedRecord("governed")
<1>2. /\ LeaseFree /\ files[r] = {} /\ lease' = p /\ wf' = [wf EXCEPT ![p] = w]
      /\ UNCHANGED <<files, db, published>>
      /\ op' = [op EXCEPT ![p] = [pc |-> "staged", run |-> r, item |-> item]]
  BY <1>1 DEF StartAcquire, BeginCreate, Stage
<1>3. w.step = "create" /\ w.run = r
  <2>1. "acquire" \in Cmds /\ "create" \in Steps
    BY DEF Cmds, Steps
  <2> QED
    BY <2>1, RunningFacts
<1>4. wf \in [Procs -> Command] /\ op \in [Procs -> Op]
  BY RunTypes DEF WorkflowInvariant, IndexInvariant, CommandsFit
<1> HIDE DEF w
<1>5. StepItem(w, item) /\ w.step \notin ExpectingSteps
  BY <1>3 DEF StepItem, ExpectingSteps, TransitionSteps
<1> HIDE DEF item
<1>6. wf'[p] = w /\ op'[p] = [pc |-> "staged", run |-> w.run, item |-> item]
  BY <1>2, <1>3, <1>4
<1>7. files'[w.run] = {}
  BY <1>2, <1>3
<1>8. StepFits(p)'
  BY <1>3, <1>5, <1>6, <1>7, StagedFits
<1>9. \A q \in Procs : q # p => wf[q].step = "idle" /\ wf'[q] = wf[q]
  BY <1>2, NoneActive
<1> QED
  BY <1>2, <1>8, <1>9, QuietStep

\* recover_snapshot_acquisition begins.
LEMMA RecoveryBegins ==
  ASSUME WorkflowInvariant, IndexInvariant', NEW r \in Runs, RecoverRun(r)
  PROVE  WorkflowInvariant' /\ StepPromise
<1>1. PICK p \in Procs : wf[p] = NoCommand /\ StartRecover(p, r)
  BY DEF RecoverRun
<1>2. LeaseFree /\ LedgerReadable(r) /\ Governed(files[r]) /\ lease' = p /\ UNCHANGED published
  BY <1>1 DEF StartRecover
<1>3. wf \in [Procs -> Command] /\ op \in [Procs -> Op] /\ op[p] = Idle
  BY <1>1, RunTypes, NoCommandFits, RestingOp
     DEF WorkflowInvariant, IndexInvariant, CommandsFit, StorageSteps, TransitionSteps
<1>4. files[r] # {} /\ LedgerFits(files[r])
  BY <1>2, RunTypes DEF Governed
<1>5. ASSUME NEW w, wf' = [wf EXCEPT ![p] = w], UNCHANGED <<files, db>>, StepFits(p)'
      PROVE  WorkflowInvariant' /\ StepPromise
  <2>1. \A q \in Procs : q # p => wf[q].step = "idle" /\ wf'[q] = wf[q]
    BY <1>2, <1>5, NoneActive
  <2> QED
    BY <1>2, <1>5, <2>1, QuietStep
<1>6. ASSUME NEW t, NEW then \in Thens, StageAppend(p, r, t),
             wf' = [wf EXCEPT ![p] = Recovering(p, r, "append", then)],
             \/ /\ SnapshotsIn(files[r]) = {} /\ LedgerStatus(files[r]) \in {"created", "scanning"}
                /\ t \in {"failed", "cancelled"}
             \/ /\ SnapshotsIn(files[r]) # {} /\ LedgerStatus(files[r]) = "scanning"
                /\ t \in {"scanned", "partial"}
      PROVE  WorkflowInvariant' /\ StepPromise
  <2> DEFINE w == Recovering(p, r, "append", then)
  <2>1. w.step = "append" /\ w.run = r
    <3>1. "append" \in Steps
      BY DEF Steps
    <3> QED
      BY <3>1, RecoveringFacts
  <2>2. PICK item : /\ op'[p] = [pc |-> "append", run |-> r, item |-> item]
                    /\ AppendItem(files'[r], item) /\ UNCHANGED <<files, db, faults>>
    BY <1>4, <1>6, StagedAppend
  <2>3. wf' = [wf EXCEPT ![p] = w]
    BY <1>6
  <2> HIDE DEF w
  <2>4. wf'[p] = w /\ op'[p] = [pc |-> "append", run |-> w.run, item |-> item]
    BY <1>3, <2>1, <2>2, <2>3
  <2>5. files'[w.run] # {} /\ AppendItem(files'[w.run], item)
    BY <1>4, <2>1, <2>2
  <2>6. StepFits(p)'
    BY <2>1, <2>4, <2>5, AppendFits
  <2> QED
    BY <1>5, <2>2, <2>3, <2>6
<1>7. ASSUME NEW x \in {"ensure", "replay"}, NEW then \in Thens, UNCHANGED storeVars,
             wf' = [wf EXCEPT ![p] = Recovering(p, r, x, then)]
      PROVE  WorkflowInvariant' /\ StepPromise
  <2> DEFINE w == Recovering(p, r, x, then)
  <2>1. w.step = x
    <3>1. x \in Steps
      BY DEF Steps
    <3> QED
      BY <3>1, RecoveringFacts
  <2>2. wf' = [wf EXCEPT ![p] = w] /\ UNCHANGED <<files, db, op>>
    BY <1>7 DEF storeVars
  <2> HIDE DEF w
  <2>3. wf'[p] = w /\ op'[p] = Idle
    BY <1>3, <2>2
  <2>4. StepFits(p)'
    BY <2>1, <2>3, IdleFacts DEF StepFits, InTransaction, ExpectingSteps
  <2> QED
    BY <1>5, <2>2, <2>4
<1>8. "report" \in Thens /\ "ensure" \in Thens /\ "recheck" \in Thens
  BY DEF Thens
<1>9. LedgerStatus(files[r]) = "created" => SnapshotsIn(files[r]) = {}
  BY <1>4 DEF LedgerFits
<1>10. CASE /\ LedgerStatus(files[r]) = "created"
               \/ (LedgerStatus(files[r]) = "scanning" /\ ~Observed(r))
            /\ StageAppend(p, r, "failed")
            /\ wf' = [wf EXCEPT ![p] = Recovering(p, r, "append", "report")]
  <2>1. SnapshotsIn(files[r]) = {} /\ LedgerStatus(files[r]) \in {"created", "scanning"}
    BY <1>9, <1>10 DEF Observed
  <2> QED
    BY <1>6, <1>8, <1>10, <2>1
<1>11. CASE /\ LedgerStatus(files[r]) = "scanning" /\ Observed(r)
            /\ StageAppend(p, r, expected_run_status(SnapshotOf(files[r])))
            /\ wf' = [wf EXCEPT ![p] = Recovering(p, r, "append", "ensure")]
  <2>1. expected_run_status(SnapshotOf(files[r])) \in {"scanned", "partial"}
    BY DEF expected_run_status
  <2>2. SnapshotsIn(files[r]) # {}
    BY <1>11 DEF Observed
  <2> QED
    BY <1>6, <1>8, <1>11, <2>1, <2>2
<1>12. CASE /\ wf' = [wf EXCEPT ![p] = Recovering(p, r, "ensure", "recheck")]
            /\ UNCHANGED storeVars
  BY <1>7, <1>8, <1>12
<1>13. CASE /\ wf' = [wf EXCEPT ![p] = Recovering(p, r, "replay", "report")]
            /\ UNCHANGED storeVars
  BY <1>7, <1>8, <1>13
<1> QED
  BY <1>1, <1>10, <1>11, <1>12, <1>13 DEF StartRecover

\* A storage operation begins: the row it reads is in step with the ledger.
LEMMA OperationBegins ==
  ASSUME WorkflowInvariant, IndexInvariant', NEW p \in Procs, BeginOperation(p)
  PROVE  WorkflowInvariant' /\ StepPromise
<1> DEFINE w == wf[p]
<1>1. w.step \in TransitionSteps \cup {"persist"} /\ UNCHANGED <<lease, wf, published>>
  BY DEF BeginOperation
<1>2. w.step \notin {"idle", "create", "cancel", "backup", "install"} /\ w.step \in ExpectingSteps
  BY <1>1 DEF TransitionSteps, ExpectingSteps
<1>3. lease = p /\ StepFits(p) /\ \A q \in Procs : q # p => wf[q].step = "idle"
  BY <1>2, OneActive
<1>4. ASSUME NEW item, Stage(p, w.run, item), StepItem(w, item)
      PROVE  WorkflowInvariant' /\ StepPromise
  <2>1. /\ op[p] = Idle /\ UNCHANGED <<files, db>>
        /\ op' = [op EXCEPT ![p] = [pc |-> "staged", run |-> w.run, item |-> item]]
    BY <1>4 DEF Stage
  <2>2. op[p].pc # "published"
    BY <2>1, IdleFacts
  <2>3. files[w.run] # {} /\ InStep(w.run) /\ Expects(w.step, files[w.run])
    BY <1>2, <1>3, <2>2 DEF StepFits
  <2>4. /\ files'[w.run] # {} /\ db'[w.run].last_sequence = Cardinality(files'[w.run])
        /\ Expects(w.step, files'[w.run])
    BY <2>1, <2>3 DEF InStep
  <2>5. op \in [Procs -> Op]
    BY DEF WorkflowInvariant, IndexInvariant, StoreFits, TypeOK
  <2>6. wf'[p] = w /\ op'[p] = [pc |-> "staged", run |-> w.run, item |-> item]
    BY <1>1, <2>1, <2>5
  <2> HIDE DEF w
  <2>7. StepFits(p)'
    BY <1>2, <1>4, <2>4, <2>6, StagedFits
  <2> QED
    BY <1>1, <1>3, <2>1, <2>7, QuietStep DEF w
<1>5. CASE w.step \in TransitionSteps /\ BeginTransition(p, w.run, StepTarget(w))
  <2> DEFINE item == TransitionRecord(db[w.run].last_sequence, db[w.run].last_digest,
                                      db[w.run].status, StepTarget(w), "index")
  <2>1. Stage(p, w.run, item)
    BY <1>5 DEF BeginTransition
  <2>2. item.type = "run.state_transition" /\ item.to = StepTarget(w)
    BY DEF TransitionRecord
  <2>3. StepItem(w, item)
    BY <1>5, <2>2 DEF StepItem, TransitionSteps
  <2> HIDE DEF item
  <2> QED
    BY <1>4, <2>1, <2>3
<1>6. CASE w.step = "persist" /\ BeginPersist(p, w.run, w.snap)
  <2> DEFINE item == SnapshotRecord(db[w.run].last_sequence, db[w.run].last_digest, w.snap)
  <2>1. Stage(p, w.run, item)
    BY <1>6 DEF BeginPersist
  <2>2. item.type = "filesystem.snapshot"
    BY DEF SnapshotRecord
  <2>3. StepItem(w, item)
    BY <1>6, <2>2 DEF StepItem, TransitionSteps
  <2> HIDE DEF item
  <2> QED
    BY <1>4, <2>1, <2>3
<1> QED
  BY <1>5, <1>6 DEF BeginOperation

\* The scan has seen the scope.
LEMMA ScopeObserved ==
  ASSUME WorkflowInvariant, IndexInvariant', NEW p \in Procs, Observe(p)
  PROVE  WorkflowInvariant' /\ StepPromise
<1>1. wf[p].step = "observe" /\ UNCHANGED <<files, db, op, lease, published>>
  BY DEF Observe
<1>2. PICK c \in SnapshotStatus : wf' = [wf EXCEPT ![p].step = "persist", ![p].snap = c]
  BY DEF Observe
<1> DEFINE u == [wf[p] EXCEPT !.step = "persist"]
           w == [u EXCEPT !.snap = c]
<1>3. /\ wf[p] \in Command /\ wf \in [Procs -> Command] /\ StepFits(p)
      /\ op[p] = Idle
  BY <1>1, OneActive, RestingOp DEF WorkflowInvariant, StorageSteps, TransitionSteps
<1>4. wf' = [wf EXCEPT ![p] = w]
  BY <1>2, <1>3
<1>5. u \in Command /\ u.run = wf[p].run /\ u.step = "persist"
  <2>1. "persist" \in Steps
    BY DEF Steps
  <2> QED
    BY <1>3, <2>1, StepChanged
<1> HIDE DEF u
<1>6. w.run = wf[p].run /\ w.step = "persist"
  BY <1>5, SnapChanged
<1> HIDE DEF w
<1>7. files[wf[p].run] # {} /\ InStep(wf[p].run) /\ Expects("observe", files[wf[p].run])
  BY <1>1, <1>3, IdleFacts DEF StepFits, ExpectingSteps
<1>8. files[w.run] # {} /\ InStep(w.run) /\ Expects(w.step, files[w.run])
  BY <1>6, <1>7 DEF Expects
<1> QED
  BY <1>1, <1>3, <1>4, <1>6, <1>8, GoingStep

\* The command of p goes on to step x.
LEMMA GoesOn ==
  ASSUME WorkflowInvariant, IndexInvariant', NEW p \in Procs, wf[p].step # "idle",
         NEW x \in Steps \ {"idle", "persist", "backup", "install", "cancel"}, Goto(p, x),
         op'[p] = Idle, UNCHANGED <<files, db, published>>,
         x \in ExpectingSteps =>
            files[wf[p].run] # {} /\ InStep(wf[p].run) /\ Expects(x, files[wf[p].run])
  PROVE  WorkflowInvariant' /\ StepPromise
<1> DEFINE w == [wf[p] EXCEPT !.step = x]
<1>1. UNCHANGED lease /\ wf' = [wf EXCEPT ![p].step = x]
  BY DEF Goto
<1>2. wf' = [wf EXCEPT ![p] = w] /\ w.step = x /\ w.run = wf[p].run
  BY <1>1, CommandGoes DEF WorkflowInvariant
<1> HIDE DEF w
<1> QED
  BY <1>1, <1>2, GoingStep

\* The steps that are over once the observation was verified.
LEMMA ObservationVerified ==
  ASSUME WorkflowInvariant, IndexInvariant', NEW p \in Procs, VerifyObservation(p)
  PROVE  WorkflowInvariant' /\ StepPromise
<1>1. wf[p].step = "verify" /\ UNCHANGED <<files, db, op, published>>
  BY DEF VerifyObservation
<1>2. StepFits(p) /\ op[p] = Idle
  BY <1>1, OneActive, RestingOp DEF WorkflowInvariant, StorageSteps, TransitionSteps
<1>3. CASE Leave(p)
  BY <1>1, <1>3, LeavingStep
<1>4. CASE Goto(p, "verifying")
  <2>1. files[wf[p].run] # {} /\ InStep(wf[p].run) /\ Expects("verify", files[wf[p].run])
    BY <1>1, <1>2, IdleFacts DEF StepFits, ExpectingSteps
  <2>2. Expects("verifying", files[wf[p].run])
    BY <2>1 DEF Expects
  <2>3. "verifying" \in Steps
    BY DEF Steps
  <2> QED
    BY <1>1, <1>2, <1>4, <2>1, <2>2, <2>3, GoesOn
<1> QED
  BY <1>3, <1>4 DEF VerifyObservation

\* Where a Run goes whose projection was verified.
LEMMA Resumes ==
  ASSUME WorkflowInvariant, NEW r \in Runs, VerificationValid(r)
  PROVE  /\ ResumeStep(r) \in {"verifying", "verified", "publish"}
         /\ ResumeStep(r) \in ExpectingSteps =>
              files[r] # {} /\ InStep(r) /\ Expects(ResumeStep(r), files[r])
<1>1. Observed(r) /\ IndexMatches(r) /\ files[r] # {}
  BY DEF VerificationValid, Observed, SnapshotsIn
<1>2. SnapshotsIn(files[r]) # {} /\ InStep(r)
  BY <1>1 DEF Observed, IndexMatches, InStep
<1>3. CASE LedgerStatus(files[r]) \in {"scanned", "partial"}
  <2>1. ResumeStep(r) = "verifying"
    BY <1>3 DEF ResumeStep
  <2> QED
    BY <1>1, <1>2, <1>3, <2>1 DEF Expects
<1>4. CASE LedgerStatus(files[r]) = "verifying"
  <2>1. ResumeStep(r) = "verified"
    BY <1>4 DEF ResumeStep
  <2> QED
    BY <1>1, <1>2, <1>4, <2>1 DEF Expects
<1>5. CASE LedgerStatus(files[r]) \notin {"scanned", "partial", "verifying"}
  <2>1. ResumeStep(r) = "publish"
    BY <1>5 DEF ResumeStep
  <2> QED
    BY <2>1 DEF ExpectingSteps
<1> QED
  BY <1>3, <1>4, <1>5

\* _ensure_verified_projection.
LEMMA ProjectionVerified ==
  ASSUME WorkflowInvariant, IndexInvariant', NEW p \in Procs, Ensure(p) \/ Recheck(p)
  PROVE  WorkflowInvariant' /\ StepPromise
<1>1. wf[p].step \in {"ensure", "recheck"} /\ UNCHANGED <<files, db, op, published>>
  BY DEF Ensure, Recheck
<1>2. StepFits(p) /\ op[p] = Idle /\ wf[p].run \in Runs
  BY <1>1, OneActive, RestingOp DEF WorkflowInvariant, StorageSteps, TransitionSteps
<1>3. CASE Leave(p)
  BY <1>1, <1>3, LeavingStep
<1>4. "replay" \in Steps /\ "verifying" \in Steps /\ "verified" \in Steps /\ "publish" \in Steps
  BY DEF Steps
<1>5. CASE Goto(p, "replay")
  BY <1>1, <1>2, <1>4, <1>5, GoesOn DEF ExpectingSteps
<1>6. CASE VerificationValid(wf[p].run) /\ Goto(p, ResumeStep(wf[p].run))
  <2> DEFINE x == ResumeStep(wf[p].run)
  <2>1. /\ x \in {"verifying", "verified", "publish"}
        /\ x \in ExpectingSteps =>
             files[wf[p].run] # {} /\ InStep(wf[p].run) /\ Expects(x, files[wf[p].run])
    BY <1>2, <1>6, Resumes
  <2>2. Goto(p, x)
    BY <1>6
  <2> HIDE DEF x
  <2> QED
    BY <1>1, <1>2, <1>4, <2>1, <2>2, GoesOn
<1>7. CASE Ensure(p)
  BY <1>3, <1>5, <1>6, <1>7 DEF Ensure
<1>8. CASE Recheck(p)
  BY <1>3, <1>6, <1>8 DEF Recheck
<1> QED
  BY <1>7, <1>8

\* replay_classified_operational_index and create_snapshot_index_backup.
LEMMA CandidateStands ==
  ASSUME WorkflowInvariant, IndexInvariant', NEW p \in Procs, Replay(p) \/ Backup(p)
  PROVE  WorkflowInvariant' /\ StepPromise
<1>1. wf[p].step \in {"replay", "backup"} /\ UNCHANGED <<files, db, op, published>>
  BY DEF Replay, Backup
<1>2. /\ StepFits(p) /\ op[p] = Idle /\ wf[p] \in Command /\ wf \in [Procs -> Command]
      /\ wf[p].step # "idle"
  BY <1>1, OneActive, RestingOp DEF WorkflowInvariant, StorageSteps, TransitionSteps
<1>3. CASE Leave(p)
  BY <1>1, <1>2, <1>3, LeavingStep
<1> DEFINE cand == [r \in Runs |-> IF files[r] = {} THEN NoRow ELSE ReplayedRow(files[r])]
<1>4. "backup" \in Steps /\ "install" \in Steps
  BY DEF Steps
<1>5. CASE /\ ClassificationComplete(files) /\ UNCHANGED lease
           /\ wf' = [wf EXCEPT ![p].step = "backup", ![p].candidate = cand]
  <2> DEFINE u == [wf[p] EXCEPT !.step = "backup"]
             w == [u EXCEPT !.candidate = cand]
  <2>1. wf' = [wf EXCEPT ![p] = w]
    BY <1>2, <1>5
  <2>2. u \in Command /\ u.run = wf[p].run /\ u.step = "backup"
    BY <1>2, <1>4, StepChanged
  <2>3. cand \in [Runs -> Row]
    <3> SUFFICES ASSUME NEW r \in Runs
                 PROVE  (IF files[r] = {} THEN NoRow ELSE ReplayedRow(files[r])) \in Row
      OBVIOUS
    <3>1. CASE files[r] = {}
      BY <3>1, NoRowVerifies
    <3>2. CASE files[r] # {}
      <4>1. files[r] \in SUBSET Record /\ IsFiniteSet(files[r]) /\ verify_run(files[r])
        BY <3>2, RunTypes DEF LedgerFits
      <4> QED
        BY <3>2, <4>1, ReplayedVerifies
    <3> QED
      BY <3>1, <3>2
  <2>4. \A r \in Runs : cand[r] = IF files[r] = {} THEN NoRow ELSE ReplayedRow(files[r])
    OBVIOUS
  <2> HIDE DEF u, cand
  <2>5. w.run = wf[p].run /\ w.step = "backup" /\ w.candidate = cand
    BY <2>2, <2>3, CandidateChanged
  <2> HIDE DEF w
  <2>6. w.step \notin ExpectingSteps
    BY <2>5 DEF ExpectingSteps
  <2> QED
    BY <1>1, <1>2, <1>5, <2>1, <2>4, <2>5, <2>6, GoingStep
<1>6. CASE /\ wf[p].step = "backup" /\ UNCHANGED lease
           /\ wf' = [wf EXCEPT ![p].step = "install", ![p].backup = db]
  <2> DEFINE u == [wf[p] EXCEPT !.step = "install"]
             w == [u EXCEPT !.backup = db]
  <2>1. wf' = [wf EXCEPT ![p] = w]
    BY <1>2, <1>6
  <2>2. u \in Command /\ u.run = wf[p].run /\ u.step = "install" /\ u.candidate = wf[p].candidate
    BY <1>2, <1>4, StepChanged
  <2>3. db \in [Runs -> Row]
    BY DEF WorkflowInvariant, IndexInvariant, StoreFits, TypeOK
  <2> HIDE DEF u
  <2>4. w.run = wf[p].run /\ w.step = "install" /\ w.candidate = wf[p].candidate
    BY <2>2, <2>3, BackupChanged
  <2> HIDE DEF w
  <2>5. \A r \in Runs : w.candidate[r] = IF files[r] = {} THEN NoRow ELSE ReplayedRow(files[r])
    BY <1>2, <1>6, <2>4 DEF StepFits
  <2>6. w.step \notin ExpectingSteps
    BY <2>4 DEF ExpectingSteps
  <2> QED
    BY <1>1, <1>2, <1>6, <2>1, <2>4, <2>5, <2>6, GoingStep
<1>7. CASE Replay(p)
  BY <1>3, <1>5, <1>7 DEF Replay
<1>8. CASE Backup(p)
  BY <1>3, <1>6, <1>8 DEF Backup
<1> QED
  BY <1>7, <1>8

\* Steps at which a command ends, its operation forgotten.
LEMMA CommandEnds ==
  ASSUME WorkflowInvariant, IndexInvariant', NEW p \in Procs,
         OperationRefused(p) \/ RootChanged(p) \/ Fail(p) \/ Crash(p)
  PROVE  WorkflowInvariant' /\ StepPromise
<1>1. Leave(p) /\ UNCHANGED <<files, db, published>>
  BY DEF OperationRefused, RootChanged, Fail, Crash
<1>2. wf[p].step # "idle"
  <2>1. CASE OperationRefused(p) \/ RootChanged(p)
    BY <2>1 DEF OperationRefused, RootChanged, TransitionSteps
  <2>2. CASE Fail(p) \/ Crash(p)
    BY <2>2 DEF Fail, Crash, WorkflowInvariant, IndexInvariant, CommandsFit, CommandFits
  <2> QED
    BY <2>1, <2>2
<1> QED
  BY <1>1, <1>2, LeavingStep

\* KeyboardInterrupt.
LEMMA Interrupted ==
  ASSUME WorkflowInvariant, IndexInvariant', NEW p \in Procs, Interrupt(p)
  PROVE  WorkflowInvariant' /\ StepPromise
<1>1. /\ wf[p].cmd = "acquire" /\ Goto(p, "interrupted") /\ UNCHANGED <<files, db, published>>
      /\ op' = [op EXCEPT ![p] = Idle]
  BY DEF Interrupt
<1>2. wf[p].step # "idle"
  BY <1>1, NoCommandFits DEF WorkflowInvariant, IndexInvariant, CommandsFit, CommandFits
<1>3. op'[p] = Idle
  BY <1>1 DEF WorkflowInvariant, IndexInvariant, StoreFits, TypeOK
<1>4. "interrupted" \in Steps
  BY DEF Steps
<1> QED
  BY <1>1, <1>2, <1>3, <1>4, GoesOn DEF ExpectingSteps

\* The interrupt handler cancels a Run that has no Snapshot.
LEMMA InterruptHandled ==
  ASSUME WorkflowInvariant, IndexInvariant', NEW p \in Procs, HandleInterrupt(p)
  PROVE  WorkflowInvariant' /\ StepPromise
<1> DEFINE r == wf[p].run
<1>1. wf[p].step = "interrupted" /\ UNCHANGED published
  BY DEF HandleInterrupt
<1>2. /\ lease = p /\ r \in Runs /\ wf[p] \in Command /\ wf \in [Procs -> Command]
      /\ \A q \in Procs : q # p => wf[q].step = "idle"
  BY <1>1, OneActive
<1>3. CASE Leave(p) /\ UNCHANGED storeVars
  BY <1>1, <1>3, LeavingStep DEF storeVars
<1>4. CASE /\ LedgerReadable(r) /\ ~Observed(r) /\ LedgerStatus(files[r]) \in {"created", "scanning"}
           /\ StageAppend(p, r, "cancelled")
           /\ wf' = [wf EXCEPT ![p].step = "append", ![p].then = "report"]
           /\ UNCHANGED lease
  <2> DEFINE u == [wf[p] EXCEPT !.step = "append"]
             w == [u EXCEPT !.then = "report"]
  <2>1. files[r] # {} /\ SnapshotsIn(files[r]) = {}
    BY <1>4 DEF LedgerReadable, verify_run, Observed
  <2>2. PICK item : /\ op'[p] = [pc |-> "append", run |-> r, item |-> item]
                    /\ AppendItem(files'[r], item) /\ UNCHANGED <<files, db, faults>>
    BY <1>2, <1>4, <2>1, StagedAppend
  <2>3. wf' = [wf EXCEPT ![p] = w]
    BY <1>2, <1>4
  <2>4. "append" \in Steps /\ "report" \in Thens
    BY DEF Steps, Thens
  <2>5. u \in Command /\ u.step = "append" /\ u.run = r
    BY <1>2, <2>4, StepChanged
  <2> HIDE DEF u
  <2>6. w.step = "append" /\ w.run = r
    BY <2>4, <2>5, ThenChanged
  <2> HIDE DEF w
  <2>7. wf'[p] = w /\ op'[p] = [pc |-> "append", run |-> w.run, item |-> item]
    BY <1>2, <2>2, <2>3, <2>6
  <2>8. files'[w.run] # {} /\ AppendItem(files'[w.run], item)
    BY <2>1, <2>2, <2>6
  <2>9. StepFits(p)'
    BY <2>6, <2>7, <2>8, AppendFits
  <2>10. \A q \in Procs : q # p => wf[q].step = "idle" /\ wf'[q] = wf[q]
    BY <1>2, <2>3
  <2> QED
    BY <1>1, <1>2, <1>4, <2>2, <2>9, <2>10, QuietStep
<1> QED
  BY <1>3, <1>4 DEF HandleInterrupt

-----------------------------------------------------------------------------
(* Steps that publish a file.                                               *)

\* What the contract sees of the Snapshot of a Run.
SnapshotSeen(F) == IF SnapshotsIn(F) = {} THEN None ELSE SnapshotOf(F)

\* The contract allows the Evidence F of a Run to become G.
MovesOn(F, G) ==
  \/ Phase(G) = Phase(F) /\ SnapshotSeen(G) = SnapshotSeen(F)
  \/ Phase(F) = "absent" /\ Phase(G) = "open" /\ SnapshotSeen(G) = SnapshotSeen(F)
  \/ Phase(F) = "open" /\ Phase(G) \in {"failed", "cancelled"}
     /\ SnapshotSeen(G) = SnapshotSeen(F)
  \/ Phase(F) = "open" /\ Phase(G) = "observed" /\ SnapshotSeen(G) \in SnapshotStatus
  \/ Phase(F) = "observed" /\ Phase(G) = "verified" /\ SnapshotSeen(G) = SnapshotSeen(F)

\* Then the step is one of the contract.
LEMMA ContractMoves ==
  ASSUME NEW r \in Runs, NEW G, files \in [Runs -> SUBSET Record],
         files' = [files EXCEPT ![r] = G], UNCHANGED published, MovesOn(files[r], G)
  PROVE  ContractStep
<1> DEFINE phase == [x \in Runs |-> Phase(files[x])]
           seen == [x \in Runs |-> SnapshotSeen(files[x])]
           phaseNext == [x \in Runs |-> Phase(files'[x])]
           seenNext == [x \in Runs |-> SnapshotSeen(files'[x])]
<1>1. /\ phase[r] = Phase(files[r]) /\ seen[r] = SnapshotSeen(files[r])
      /\ phaseNext = [phase EXCEPT ![r] = Phase(G)]
      /\ seenNext = [seen EXCEPT ![r] = SnapshotSeen(G)]
  OBVIOUS
<1>2. /\ seen = [x \in Runs |-> IF SnapshotsIn(files[x]) = {} THEN None ELSE SnapshotOf(files[x])]
      /\ seenNext = [x \in Runs |-> IF SnapshotsIn(files'[x]) = {} THEN None
                                    ELSE SnapshotOf(files'[x])]
  BY DEF SnapshotSeen
<1>3. /\ Phase(G) = Phase(files[r]) => phaseNext = phase
      /\ SnapshotSeen(G) = SnapshotSeen(files[r]) => seenNext = seen
  BY <1>1
<1>4. CASE Phase(G) = Phase(files[r]) /\ SnapshotSeen(G) = SnapshotSeen(files[r])
  <2>1. phaseNext = phase /\ seenNext = seen
    BY <1>3, <1>4
  <2>2. UNCHANGED Contract!contractVars
    BY <1>2, <2>1 DEF Contract!contractVars
  <2> QED
    BY <2>2 DEF ContractStep
<1>5. CASE /\ Phase(files[r]) = "absent" /\ Phase(G) = "open"
           /\ SnapshotSeen(G) = SnapshotSeen(files[r])
  <2>1. phase[r] = "absent" /\ phaseNext = [phase EXCEPT ![r] = "open"] /\ seenNext = seen
    BY <1>1, <1>3, <1>5
  <2>2. Contract!Open(r)
    BY <1>2, <2>1 DEF Contract!Open
  <2> QED
    BY <2>2 DEF ContractStep, Contract!ContractNext
<1>6. CASE /\ Phase(files[r]) = "open" /\ Phase(G) \in {"failed", "cancelled"}
           /\ SnapshotSeen(G) = SnapshotSeen(files[r])
  <2>1. phase[r] = "open" /\ phaseNext = [phase EXCEPT ![r] = Phase(G)] /\ seenNext = seen
    BY <1>1, <1>3, <1>6
  <2>2. Contract!Abandon(r, Phase(G))
    BY <1>2, <2>1 DEF Contract!Abandon
  <2> QED
    BY <1>6, <2>2 DEF ContractStep, Contract!ContractNext
<1>7. CASE /\ Phase(files[r]) = "open" /\ Phase(G) = "observed"
           /\ SnapshotSeen(G) \in SnapshotStatus
  <2>1. /\ phase[r] = "open" /\ phaseNext = [phase EXCEPT ![r] = "observed"]
        /\ seenNext = [seen EXCEPT ![r] = SnapshotSeen(G)]
    BY <1>1, <1>7
  <2>2. Contract!Take(r, SnapshotSeen(G))
    BY <1>2, <2>1 DEF Contract!Take
  <2> QED
    BY <1>7, <2>2 DEF ContractStep, Contract!ContractNext
<1>8. CASE /\ Phase(files[r]) = "observed" /\ Phase(G) = "verified"
           /\ SnapshotSeen(G) = SnapshotSeen(files[r])
  <2>1. phase[r] = "observed" /\ phaseNext = [phase EXCEPT ![r] = "verified"] /\ seenNext = seen
    BY <1>1, <1>3, <1>8
  <2>2. Contract!Verify(r)
    BY <1>2, <2>1 DEF Contract!Verify
  <2> QED
    BY <2>2 DEF ContractStep, Contract!ContractNext
<1> QED
  BY <1>4, <1>5, <1>6, <1>7, <1>8 DEF MovesOn

\* The one command that runs publishes a file in the directory of Run r.
LEMMA GrowStep ==
  ASSUME WorkflowInvariant, IndexInvariant', NEW p \in Procs, wf[p].step # "idle",
         NEW r \in Runs, NEW G, files' = [files EXCEPT ![r] = G], files[r] \subseteq G,
         LedgerFits(G), MovesOn(files[r], G), files[r] = {} \/ LedgerStatus(files[r]) # "verified",
         UNCHANGED <<db, published, lease>>,
         \A q \in Procs : q # p => wf'[q] = wf[q], StepFits(p)'
  PROVE  WorkflowInvariant' /\ StepPromise
<1>1. /\ files \in [Runs -> SUBSET Record] /\ \A x \in Runs : db[x].last_sequence \in Nat
      /\ lease = p /\ \A q \in Procs : q # p => wf[q].step = "idle"
  BY RunTypes, OneActive
<1>2. files'[r] = G /\ \A x \in Runs : x # r => files'[x] = files[x]
  BY <1>1
<1>3. published[r] = None
  BY DEF WorkflowInvariant, ReportsTrue, ReportTrue
<1>4. EvidenceKept /\ IndexKept
  BY <1>1, <1>2 DEF EvidenceKept, IndexKept
<1>5. IndexNeverAhead'
  BY <1>4 DEF WorkflowInvariant, IndexNeverAhead, EvidenceKept
<1>6. LedgersFit'
  BY <1>2 DEF WorkflowInvariant, LedgersFit
<1>7. ReportsTrue'
  <2> SUFFICES ASSUME NEW x \in Runs, published'[x] # None
               PROVE  ReportTrue(x)'
    BY DEF ReportsTrue
  <2>1. x # r /\ ReportTrue(x)
    BY <1>3 DEF WorkflowInvariant, ReportsTrue
  <2> QED
    BY <1>2, <2>1 DEF ReportTrue, IndexMatches
<1>8. WorkflowInvariant'
  BY <1>1, <1>5, <1>6, <1>7, StepOfOne
<1>9. ContractStep
  BY <1>1, ContractMoves
<1> QED
  BY <1>4, <1>8, <1>9 DEF StepPromise

\* What the steps of the storage operations rely on afterwards.
LEMMA NextSteps ==
  ASSUME NEW w, w.step \in StorageSteps \ {"cancel"}
  PROVE  /\ NextStep(w) \in {"scanning", "observe", "close", "verify", "verified", "publish", "done"}
         /\ w.step = "create" => NextStep(w) = "scanning"
         /\ w.step = "scanning" => NextStep(w) = "observe"
         /\ w.step = "persist" => NextStep(w) = "close"
         /\ w.step = "close" => NextStep(w) \in {"verify", "done"}
         /\ w.step = "verifying" => NextStep(w) = "verified"
         /\ w.step = "verified" => NextStep(w) = "publish"
<1>1. CASE w.step = "create"
  BY <1>1 DEF NextStep
<1>2. CASE w.step = "scanning"
  BY <1>2 DEF NextStep
<1>3. CASE w.step = "persist"
  BY <1>3 DEF NextStep
<1>4. CASE w.step = "close"
  BY <1>4 DEF NextStep
<1>5. CASE w.step = "verifying"
  BY <1>5 DEF NextStep
<1>6. CASE w.step = "verified"
  BY <1>6 DEF NextStep
<1> QED
  BY <1>1, <1>2, <1>3, <1>4, <1>5, <1>6 DEF StorageSteps, TransitionSteps

\* A transition closes no Run without a Snapshot, and abandons none that has
\* one: the contract allows it.
LEMMA TransitionMoves ==
  ASSUME NEW F, NEW G, F # {}, G # {}, SnapshotsIn(G) = SnapshotsIn(F),
         \/ /\ SnapshotsIn(F) = {} /\ LedgerStatus(F) \in {"created", "scanning"}
            /\ LedgerStatus(G) \in {"scanning", "failed", "cancelled"}
         \/ /\ SnapshotsIn(F) # {} /\ LedgerStatus(F) \in {"scanning", "scanned", "partial"}
            /\ LedgerStatus(G) \in {"scanned", "partial", "verifying"}
         \/ /\ SnapshotsIn(F) # {} /\ LedgerStatus(F) = "verifying"
            /\ LedgerStatus(G) = "verified"
  PROVE  MovesOn(F, G)
<1>1. SnapshotSeen(G) = SnapshotSeen(F)
  BY DEF SnapshotSeen, SnapshotOf
<1> QED
  BY <1>1 DEF MovesOn, Phase

\* A storage operation publishes its record.
LEMMA OperationPublishes ==
  ASSUME WorkflowInvariant, IndexInvariant', NEW p \in Procs, PublishOperation(p)
  PROVE  WorkflowInvariant' /\ StepPromise
<1> DEFINE w == wf[p]
           r == wf[p].run
           F == files[r]
           item == op[p].item
<1>1. /\ op[p].pc = "staged" /\ UNCHANGED <<db, lease, wf, published>>
      /\ files' = Replaced(op[p].run, item) /\ op' = [op EXCEPT ![p].pc = "published"]
  BY DEF PublishOperation, Publish
<1>2. /\ op[p] \in Op /\ op \in [Procs -> Op] /\ CommandFits(w, op[p]) /\ InTransaction(p)
      /\ item \in Record
  <2>1. TypeOK /\ CommandFits(w, op[p])
    BY DEF WorkflowInvariant, IndexInvariant, StoreFits, CommandsFit
  <2>2. op[p].pc # "idle"
    BY <1>1
  <2> QED
    BY <1>1, <2>1, <2>2, OpFacts DEF TypeOK, InTransaction
<1>3. w.step \in StorageSteps /\ w.step \notin {"idle", "backup", "install"}
  BY <1>1, <1>2 DEF CommandFits, StorageSteps, TransitionSteps
<1>4. StepFits(p) /\ r \in Runs
  BY <1>3, OneActive
<1>5. op[p].run = r /\ StepItem(w, item) /\ w.step \in StorageSteps \ {"cancel"}
  BY <1>2, <1>3, <1>4 DEF StepFits
<1>6. Fits(db[r], item)
  BY <1>2, <1>5 DEF WorkflowInvariant, IndexInvariant, StoreFits, RowsStand
<1>7. files' = [files EXCEPT ![r] = {e \in F : filename(e) # filename(item)} \cup {item}]
  BY <1>1, <1>5 DEF Replaced
<1>8. /\ op'[p].pc = "published" /\ op'[p].run = r /\ op'[p].item = item
  BY <1>1, <1>2, <1>5 DEF Op, Idle
<1>9. files \in [Runs -> SUBSET Record] /\ F \in SUBSET Record /\ IsFiniteSet(F)
      /\ (F # {} => LedgerFits(F))
  BY <1>4, RunTypes
<1>10. ASSUME NEW G, files' = [files EXCEPT ![r] = G], F \subseteq G, item \in G,
              Cardinality(G) = db[r].last_sequence + 1, LedgerFits(G), MovesOn(F, G),
              F = {} \/ LedgerStatus(F) # "verified", Expects(NextStep(w), G)
       PROVE  WorkflowInvariant' /\ StepPromise
  <2>1. files'[r] = G /\ db'[r] = db[r] /\ wf'[p] = w
    BY <1>1, <1>4, <1>9, <1>10
  <2>2. StepFits(p)'
    BY <1>3, <1>5, <1>8, <1>10, <2>1 DEF StepFits
  <2> QED
    BY <1>1, <1>3, <1>4, <1>10, <2>2, GrowStep
<1>11. CASE w.step = "create"
  <2>1. item = CreatedRecord("governed") /\ F = {}
    BY <1>1, <1>4, <1>5, <1>11 DEF StepItem, StepFits
  <2>2. db[r].last_sequence = 0
    <3>1. item.type = "run.created"
      BY <2>1 DEF CreatedRecord
    <3>2. db[r] = NoRow
      BY <1>6, <3>1 DEF Fits
    <3> QED
      BY <3>2 DEF NoRow
  <2>3. files' = [files EXCEPT ![r] = {item}]
    BY <1>7, <2>1
  <2>4. /\ LedgerFits({item}) /\ LedgerStatus({item}) = "created" /\ SnapshotsIn({item}) = {}
        /\ Cardinality({item}) = 1
    BY <2>1, LedgerStarts
  <2>5. MovesOn(F, {item})
    BY <2>1, <2>4 DEF MovesOn, Phase, SnapshotSeen, SnapshotsIn
  <2>6. Expects(NextStep(w), {item})
    BY <1>5, <1>11, <2>4, NextSteps DEF Expects
  <2> DEFINE G == {item}
  <2>7. /\ files' = [files EXCEPT ![r] = G] /\ F \subseteq G /\ item \in G
        /\ Cardinality(G) = db[r].last_sequence + 1 /\ LedgerFits(G) /\ MovesOn(F, G)
        /\ Expects(NextStep(w), G)
    BY <2>1, <2>2, <2>3, <2>4, <2>5, <2>6
  <2> HIDE DEF item, F, w, G
  <2> QED
    BY <1>10, <2>1, <2>7
<1>12. CASE w.step \in TransitionSteps \cup {"persist"}
  <2>1. /\ F # {} /\ InStep(r) /\ Expects(w.step, F) /\ LedgerFits(F) /\ verify_run(F)
    BY <1>1, <1>4, <1>9, <1>12 DEF StepFits, ExpectingSteps, TransitionSteps, LedgerFits
  <2>2. /\ db[r].status = LedgerStatus(F) /\ db[r].last_sequence = Cardinality(F)
        /\ db[r].last_digest = digest(Chain(F)[Cardinality(F)])
    BY <1>4, <2>1, InStepChain
  <2>3. NextOf(F, item)
    <3>1. CASE item.type = "run.state_transition"
      <4>1. /\ item = TransitionRecord(db[r].last_sequence, db[r].last_digest, db[r].status,
                                       item.to, "index")
            /\ validate_transition(db[r].status, item.to)
        BY <1>6, <3>1 DEF Fits
      <4>2. /\ item.seq = db[r].last_sequence + 1 /\ item.prev = db[r].last_digest
            /\ item.from = db[r].status
        BY <4>1 DEF TransitionRecord
      <4> QED
        BY <2>2, <3>1, <4>1, <4>2 DEF NextOf
    <3>2. CASE item.type = "filesystem.snapshot"
      <4>1. item = SnapshotRecord(db[r].last_sequence, db[r].last_digest, item.snap)
        BY <1>6, <3>2 DEF Fits
      <4>2. /\ item.seq = db[r].last_sequence + 1 /\ item.prev = db[r].last_digest
        BY <4>1 DEF SnapshotRecord
      <4> QED
        BY <2>2, <3>2, <4>2 DEF NextOf
    <3> QED
      BY <1>5, <1>12, <3>1, <3>2 DEF StepItem
  <2> HIDE DEF F, item, w
  <2> DEFINE G == F \cup {item}
  <2>4. Cardinality(G) = Cardinality(F) + 1 /\ {x \in F : filename(x) # filename(item)} = F
    <3>1. item \in Record /\ F \in SUBSET Record /\ IsFiniteSet(F) /\ F # {} /\ verify_run(F)
      BY <1>2, <1>9, <2>1
    <3>2. /\ Cardinality(F \cup {item}) = Cardinality(F) + 1
          /\ \A x \in F : filename(x) # filename(item)
      BY <2>3, <3>1, LedgerGrows
    <3> QED
      BY <3>2
  <2>5. /\ files' = [files EXCEPT ![r] = G] /\ F \subseteq G /\ item \in G /\ G # {}
        /\ Cardinality(G) = db[r].last_sequence + 1
    BY <1>7, <2>2, <2>4
  <2>6. CASE w.step = "persist"
    <3>1. /\ item.type = "filesystem.snapshot" /\ item.snap \in SnapshotStatus
      BY <1>5, <1>6, <2>6 DEF StepItem, Fits
    <3>2. LedgerStatus(F) = "scanning" /\ SnapshotsIn(F) = {}
      BY <2>1, <2>6 DEF Expects
    <3>3. /\ LedgerFits(G) /\ LedgerStatus(G) = "scanning" /\ SnapshotsIn(G) = {item}
          /\ SnapshotOf(G) = item.snap
      BY <1>2, <1>9, <2>1, <2>3, <3>1, <3>2, SnapshotFits
    <3> HIDE DEF G
    <3>4. MovesOn(F, G)
      BY <2>1, <2>5, <3>1, <3>2, <3>3 DEF MovesOn, Phase, SnapshotSeen
    <3>5. Expects(NextStep(w), G)
      BY <1>5, <2>6, <3>3, NextSteps DEF Expects
    <3> QED
      BY <1>10, <2>5, <3>2, <3>3, <3>4, <3>5
  <2>7. CASE w.step \in TransitionSteps
    <3>1. item.type = "run.state_transition" /\ item.to = StepTarget(w)
      BY <1>5, <2>7 DEF StepItem
    <3>2. w.step \in {"scanning", "close", "verifying", "verified"}
      BY <2>7 DEF TransitionSteps
    <3>3. /\ w.step = "close" => item.to \in {"scanned", "partial"}
          /\ w.step # "close" => item.to = w.step
      BY <3>1 DEF StepTarget, expected_run_status
    <3>4. item.to \in IF SnapshotsIn(F) = {} THEN {"scanning", "failed", "cancelled"}
                      ELSE {"scanned", "partial", "verifying", "verified"}
      BY <2>1, <3>2, <3>3 DEF Expects
    <3>5. LedgerFits(G) /\ LedgerStatus(G) = item.to /\ SnapshotsIn(G) = SnapshotsIn(F)
      BY <1>2, <1>9, <2>1, <2>3, <3>1, <3>4, TransitionFits
    <3> HIDE DEF G
    <3>6. MovesOn(F, G)
      <4>1. CASE w.step = "scanning"
        BY <2>1, <2>5, <3>3, <3>5, <4>1, TransitionMoves DEF Expects
      <4>2. CASE w.step = "close"
        BY <2>1, <2>5, <3>3, <3>5, <4>2, TransitionMoves DEF Expects
      <4>3. CASE w.step = "verifying"
        BY <2>1, <2>5, <3>3, <3>5, <4>3, TransitionMoves DEF Expects
      <4>4. CASE w.step = "verified"
        BY <2>1, <2>5, <3>3, <3>5, <4>4, TransitionMoves DEF Expects
      <4> QED
        BY <3>2, <4>1, <4>2, <4>3, <4>4
    <3>7. Expects(NextStep(w), G)
      <4>1. CASE w.step = "scanning"
        BY <1>5, <2>1, <3>3, <3>5, <4>1, NextSteps DEF Expects
      <4>2. CASE w.step = "close"
        BY <1>5, <2>1, <3>3, <3>5, <4>2, NextSteps DEF Expects
      <4>3. CASE w.step = "verifying"
        BY <1>5, <2>1, <3>3, <3>5, <4>3, NextSteps DEF Expects
      <4>4. CASE w.step = "verified"
        BY <1>5, <2>1, <3>3, <3>5, <4>4, NextSteps DEF Expects
      <4> QED
        BY <3>2, <4>1, <4>2, <4>3, <4>4
    <3>8. LedgerStatus(F) # "verified"
      BY <2>1, <3>2 DEF Expects
    <3> QED
      BY <1>10, <2>5, <3>5, <3>6, <3>7, <3>8
  <2> QED
    BY <1>12, <2>6, <2>7 DEF w
<1> QED
  BY <1>5, <1>11, <1>12 DEF StorageSteps

\* _append_transition_from_ledger publishes the record it staged: the ledger
\* it was built from is still that ledger.
LEMMA AppendPublishes ==
  ASSUME WorkflowInvariant, IndexInvariant', NEW p \in Procs, PublishAppend(p)
  PROVE  WorkflowInvariant' /\ StepPromise
<1> DEFINE w == wf[p]
           r == wf[p].run
           F == files[r]
           item == op[p].item
           G == F \cup {item}
<1>1. /\ op[p].pc = "append" /\ files' = Replaced(op[p].run, item)
      /\ op' = [op EXCEPT ![p] = Idle] /\ UNCHANGED <<db, lease, published>>
      /\ wf' = IF w.then = "report" THEN [wf EXCEPT ![p].step = "replay"]
               ELSE [wf EXCEPT ![p].step = "ensure", ![p].then = "recheck"]
  BY DEF PublishAppend
<1>2. TypeOK /\ CommandFits(w, op[p])
  BY DEF WorkflowInvariant, IndexInvariant, StoreFits, CommandsFit
<1>3. w.step = "append" /\ item \in Record
  BY <1>1, <1>2, OpFacts DEF CommandFits
<1>4. StepFits(p) /\ r \in Runs /\ w \in Command /\ wf \in [Procs -> Command]
  BY <1>3, OneActive
<1>5. op[p].run = r /\ F # {} /\ AppendItem(F, item)
  BY <1>1, <1>4 DEF StepFits
<1>6. files' = [files EXCEPT ![r] = {e \in F : filename(e) # filename(item)} \cup {item}]
  BY <1>1, <1>5 DEF Replaced
<1>7. /\ F \in SUBSET Record /\ IsFiniteSet(F) /\ LedgerFits(F) /\ verify_run(F)
  BY <1>4, <1>5, RunTypes DEF LedgerFits
<1>8. op'[p] = Idle /\ \A q \in Procs : q # p => wf'[q] = wf[q]
  BY <1>1, <1>2, <1>4 DEF TypeOK
<1>9. wf'[p].step \in {"replay", "ensure"}
  <2>1. "replay" \in Steps /\ "ensure" \in Steps /\ "recheck" \in Thens
    BY DEF Steps, Thens
  <2>2. CASE wf' = [wf EXCEPT ![p].step = "replay"]
    <3> DEFINE u == [wf[p] EXCEPT !.step = "replay"]
    <3>1. wf'[p] = u
      BY <1>4, <2>2
    <3>2. u.step = "replay"
      BY <1>4, <2>1, StepChanged
    <3> HIDE DEF u
    <3> QED
      BY <3>1, <3>2
  <2>3. CASE wf' = [wf EXCEPT ![p].step = "ensure", ![p].then = "recheck"]
    <3> DEFINE u == [wf[p] EXCEPT !.step = "ensure"]
               v == [u EXCEPT !.then = "recheck"]
    <3>1. wf'[p] = v
      BY <1>4, <2>3
    <3>2. u \in Command /\ u.step = "ensure"
      BY <1>4, <2>1, StepChanged
    <3> HIDE DEF u
    <3>3. v.step = "ensure"
      BY <2>1, <3>2, ThenChanged
    <3> HIDE DEF v
    <3> QED
      BY <3>1, <3>3
  <2> QED
    BY <1>1, <2>2, <2>3
<1>10. StepFits(p)'
  BY <1>8, <1>9, IdleFacts DEF StepFits, InTransaction, ExpectingSteps
<1> HIDE DEF F, item
<1>11. /\ item.seq = Cardinality(F) + 1 /\ item.prev = digest(Chain(F)[Cardinality(F)])
       /\ item.from = LedgerStatus(F) /\ item.type = "run.state_transition"
  <2>1. item = TransitionRecord(Cardinality(F), digest(Chain(F)[Cardinality(F)]),
                                LedgerStatus(F), item.to, "ledger")
    BY <1>5 DEF AppendItem
  <2> QED
    BY <2>1 DEF TransitionRecord
<1>12. validate_transition(LedgerStatus(F), item.to)
  BY <1>5 DEF AppendItem, validate_transition, ALLOWED
<1>13. NextOf(F, item)
  BY <1>11, <1>12 DEF NextOf
<1>14. F \subseteq G /\ G # {} /\ \A x \in F : filename(x) # filename(item)
  BY <1>3, <1>5, <1>7, <1>13, LedgerGrows
<1>15. files' = [files EXCEPT ![r] = G]
  <2>1. {e \in F : filename(e) # filename(item)} = F
    BY <1>14
  <2> QED
    BY <1>6, <2>1
<1>16. item.to \in IF SnapshotsIn(F) = {} THEN {"scanning", "failed", "cancelled"}
                   ELSE {"scanned", "partial", "verifying", "verified"}
  BY <1>5 DEF AppendItem
<1>17. LedgerFits(G) /\ LedgerStatus(G) = item.to /\ SnapshotsIn(G) = SnapshotsIn(F)
  BY <1>3, <1>5, <1>7, <1>11, <1>13, <1>16, TransitionFits
<1> HIDE DEF G
<1>18. MovesOn(F, G)
  BY <1>5, <1>14, <1>17, TransitionMoves DEF AppendItem
<1>19. LedgerStatus(F) # "verified"
  BY <1>5 DEF AppendItem
<1> QED
  BY <1>1, <1>3, <1>4, <1>8, <1>10, <1>14, <1>15, <1>17, <1>18, <1>19, GrowStep DEF F

-----------------------------------------------------------------------------
(* Steps that write the index or report.                                    *)

\* A storage operation commits its rows, and the index holds the whole ledger
\* again.
LEMMA OperationCommits ==
  ASSUME WorkflowInvariant, IndexInvariant', NEW p \in Procs, CommitOperation(p)
  PROVE  WorkflowInvariant' /\ StepPromise
<1> DEFINE w == wf[p]
           r == wf[p].run
           F == files[r]
           item == op[p].item
<1>1. /\ op[p].pc = "published" /\ UNCHANGED <<files, published>> /\ op' = [op EXCEPT ![p] = Idle]
      /\ db' = [db EXCEPT ![op[p].run] = Written(db[op[p].run], item)]
      /\ IF NextStep(w) = "done" THEN Leave(p) ELSE Goto(p, NextStep(w))
  BY DEF CommitOperation, Commit
<1>2. /\ op \in [Procs -> Op] /\ db \in [Runs -> Row] /\ CommandFits(w, op[p]) /\ InTransaction(p)
      /\ item \in Record
  <2>1. TypeOK /\ CommandFits(w, op[p])
    BY DEF WorkflowInvariant, IndexInvariant, StoreFits, CommandsFit
  <2>2. op[p].pc # "idle"
    BY <1>1
  <2> QED
    BY <1>1, <2>1, <2>2, OpFacts DEF TypeOK, InTransaction
<1>3. w.step \in StorageSteps /\ w.step # "idle"
  BY <1>1, <1>2 DEF CommandFits, StorageSteps, TransitionSteps
<1>4. /\ StepFits(p) /\ r \in Runs /\ lease = p
      /\ \A q \in Procs : q # p => wf[q].step = "idle"
  BY <1>3, OneActive
<1>5. /\ op[p].run = r /\ w.step \in StorageSteps \ {"cancel"}
      /\ F # {} /\ Cardinality(F) = db[r].last_sequence + 1 /\ item \in F
      /\ Expects(NextStep(w), F)
  BY <1>1, <1>2, <1>3, <1>4 DEF StepFits
<1>6. Fits(db[r], item)
  BY <1>2, <1>5 DEF WorkflowInvariant, IndexInvariant, StoreFits, RowsStand
<1>7. item.seq = db[r].last_sequence + 1
  <2>1. CASE db[r] = NoRow /\ item = CreatedRecord(item.meta)
    <3>1. item.seq = 1
      BY <2>1 DEF CreatedRecord
    <3>2. db[r].last_sequence = 0
      BY <2>1 DEF NoRow
    <3> QED
      BY <3>1, <3>2
  <2>2. CASE item = TransitionRecord(db[r].last_sequence, db[r].last_digest, db[r].status,
                                     item.to, "index")
    BY <2>2 DEF TransitionRecord
  <2>3. CASE item = SnapshotRecord(db[r].last_sequence, db[r].last_digest, item.snap)
    BY <2>3 DEF SnapshotRecord
  <2> QED
    BY <1>6, <2>1, <2>2, <2>3 DEF Fits
<1>8. /\ db'[r].last_sequence = item.seq /\ db'[r].records = Append(db[r].records, item)
      /\ \A x \in Runs : x # r => db'[x] = db[x]
  BY <1>1, <1>2, <1>4, <1>5 DEF Written
<1>9. db[r].records \in Seq(Record) /\ \A x \in Runs : db[x].last_sequence \in Nat
  BY <1>4, RunTypes
<1>10. published[r] = None
  <2>1. db[r].last_sequence # Cardinality(F)
    BY <1>4, <1>5, <1>9
  <2> QED
    BY <1>4, <2>1 DEF WorkflowInvariant, ReportsTrue, ReportTrue, IndexMatches
<1>11. IndexNeverAhead'
  <2> SUFFICES ASSUME NEW x \in Runs, NEW i \in 1..Len(db'[x].records)
               PROVE  db'[x].records[i] \in files'[x]
    BY DEF IndexNeverAhead
  <2>1. CASE x # r
    BY <1>1, <1>8, <2>1 DEF WorkflowInvariant, IndexNeverAhead
  <2>2. CASE x = r
    <3> DEFINE s == db[r].records
    <3>1. s \in Seq(Record) /\ item \in Record
      BY <1>2, <1>9
    <3>2. db'[r].records = Append(s, item)
      BY <1>8
    <3> HIDE DEF s, item
    <3>3. /\ Len(Append(s, item)) = Len(s) + 1 /\ Append(s, item)[Len(s) + 1] = item
          /\ \A j \in 1..Len(s) : Append(s, item)[j] = s[j]
      BY <3>1, AppendProperties
    <3>4. i \in 1..Len(s) \/ i = Len(s) + 1
      <4>1. i \in 1..Len(s) + 1 /\ Len(s) \in Nat
        BY <2>2, <3>1, <3>2, <3>3
      <4> QED
        BY <4>1
    <3>5. CASE i = Len(s) + 1
      BY <1>1, <1>5, <2>2, <3>2, <3>3, <3>5
    <3>6. CASE i \in 1..Len(s)
      <4>1. s[i] \in files[r]
        BY <1>4, <3>6 DEF s, WorkflowInvariant, IndexNeverAhead
      <4> QED
        BY <1>1, <2>2, <3>2, <3>3, <3>6, <4>1
    <3> QED
      BY <3>4, <3>5, <3>6
  <2> QED
    BY <2>1, <2>2
<1>12. LedgersFit' /\ EvidenceKept
  BY <1>1 DEF WorkflowInvariant, LedgersFit, EvidenceKept
<1>13. IndexKept
  <2> SUFFICES ASSUME NEW x \in Runs PROVE db[x].last_sequence <= db'[x].last_sequence
    BY DEF IndexKept
  <2>1. CASE x = r
    BY <1>4, <1>7, <1>8, <1>9, <2>1
  <2>2. CASE x # r
    BY <1>8, <1>9, <2>2
  <2> QED
    BY <2>1, <2>2
<1>14. ReportsTrue'
  <2> SUFFICES ASSUME NEW x \in Runs, published'[x] # None
               PROVE  ReportTrue(x)'
    BY DEF ReportsTrue
  <2>1. x # r /\ ReportTrue(x)
    BY <1>1, <1>10 DEF WorkflowInvariant, ReportsTrue
  <2> QED
    BY <1>1, <1>8, <2>1 DEF ReportTrue, IndexMatches
<1>15. ContractStep
  <2>1. UNCHANGED Contract!contractVars
    BY <1>1 DEF Contract!contractVars
  <2> QED
    BY <2>1 DEF ContractStep
<1>16. CASE Leave(p)
  <2>1. wf' = [wf EXCEPT ![p] = NoCommand] /\ wf \in [Procs -> Command]
    BY <1>16 DEF Leave, WorkflowInvariant, IndexInvariant, CommandsFit
  <2>2. \A q \in Procs : q # p => wf[q].step = "idle" /\ wf'[q] = wf[q]
    BY <1>4, <2>1
  <2>3. wf'[p].step = "idle"
    BY <2>1, NoCommandFits
  <2>4. WorkflowInvariant'
    BY <1>11, <1>12, <1>14, <2>2, <2>3, StepOfOne
  <2> QED
    BY <1>12, <1>13, <1>15, <2>4 DEF StepPromise
<1>17. CASE NextStep(w) # "done" /\ Goto(p, NextStep(w))
  <2> DEFINE x == NextStep(w)
             u == [wf[p] EXCEPT !.step = x]
  <2>1. x \in {"scanning", "observe", "close", "verify", "verified", "publish"}
    BY <1>5, <1>17, NextSteps
  <2>2. x \in Steps \ {"idle", "persist", "backup", "install"}
    BY <2>1 DEF Steps
  <2>3. UNCHANGED lease /\ wf' = [wf EXCEPT ![p].step = x]
    BY <1>17 DEF Goto
  <2>4. Expects(x, F)
    BY <1>5
  <2> HIDE DEF x
  <2>5. wf' = [wf EXCEPT ![p] = u] /\ u.step = x /\ u.run = r /\ wf \in [Procs -> Command]
    BY <1>3, <2>2, <2>3, CommandGoes DEF WorkflowInvariant, IndexInvariant, CommandsFit
  <2> HIDE DEF u
  <2>6. wf'[p] = u /\ op'[p] = Idle /\ \A q \in Procs : q # p => wf'[q] = wf[q]
    BY <1>1, <1>2, <2>5
  <2>7. StepFits(p)'
    <3>1. db'[r].last_sequence = Cardinality(files'[r])
      BY <1>1, <1>5, <1>7, <1>8
    <3>2. files'[r] # {} /\ Expects(x, files'[r])
      BY <1>1, <1>5, <2>4
    <3>3. u.step \notin {"cancel", "append", "backup", "install"}
      BY <2>1, <2>5
    <3>4. op'[p].pc = "idle" /\ ~InTransaction(p)'
      BY <2>6, IdleFacts DEF InTransaction
    <3> HIDE DEF r, F, w
    <3> QED
      BY <2>5, <2>6, <3>1, <3>2, <3>3, <3>4 DEF StepFits, InStep
  <2>8. WorkflowInvariant'
    BY <1>4, <1>11, <1>12, <1>14, <2>3, <2>6, <2>7, StepOfOne
  <2> QED
    BY <1>12, <1>13, <1>15, <2>8 DEF StepPromise
<1> QED
  BY <1>1, <1>16, <1>17

\* The row that replay writes for a Run, and that its ledger gives.
LEMMA ReplayedFits ==
  ASSUME NEW F \in SUBSET Record, IsFiniteSet(F), F # {}, LedgerFits(F)
  PROVE  /\ ReplayedRow(F).records = Chain(F) /\ ReplayedRow(F).status = LedgerStatus(F)
         /\ ReplayedRow(F).last_sequence = Cardinality(F)
         /\ ReplayedRow(F).last_digest = digest(Chain(F)[Cardinality(F)])
         /\ \A i \in 1..Len(ReplayedRow(F).records) : ReplayedRow(F).records[i] \in F
         /\ SnapshotsIn(F) # {} /\ Eligible(F) => ReplayedRow(F).snapshot = SnapshotOf(F)
<1>1. /\ Len(Chain(F)) = Cardinality(F)
      /\ \A i \in 1..Cardinality(F) : Chain(F)[i] \in F
  BY LedgerFacts DEF LedgerFits
<1>2. /\ ReplayedRow(F).records = Chain(F) /\ ReplayedRow(F).status = LedgerStatus(F)
      /\ ReplayedRow(F).last_sequence = Cardinality(F)
      /\ ReplayedRow(F).last_digest = digest(Chain(F)[Cardinality(F)])
      /\ SnapshotsIn(F) # {} /\ Eligible(F) => ReplayedRow(F).snapshot = SnapshotOf(F)
  BY <1>1 DEF ReplayedRow, LedgerStatus
<1> QED
  BY <1>1, <1>2

\* replace_snapshot_index installs the candidate: it is what the Evidence
\* says now, because no command but this one ran since it was replayed.
LEMMA CandidateInstalled ==
  ASSUME WorkflowInvariant, IndexInvariant', NEW p \in Procs, Install(p)
  PROVE  WorkflowInvariant' /\ StepPromise
<1>1. wf[p].step = "install" /\ UNCHANGED <<files, op, published>>
  BY DEF Install
<1>2. /\ StepFits(p) /\ op[p] = Idle /\ wf[p] \in Command /\ wf \in [Procs -> Command]
      /\ lease = p /\ \A q \in Procs : q # p => wf[q].step = "idle"
  BY <1>1, OneActive, RestingOp DEF WorkflowInvariant, StorageSteps, TransitionSteps
<1>3. CASE OthersWriting(p) \/ db # wf[p].backup
  BY <1>1, <1>3, LeavingStep DEF Install
<1>4. CASE ~(OthersWriting(p) \/ db # wf[p].backup)
  <2>1. db' = wf[p].candidate
    BY <1>4 DEF Install
  <2>2. \A r \in Runs : db'[r] = IF files[r] = {} THEN NoRow ELSE ReplayedRow(files[r])
    BY <1>1, <1>2, <2>1 DEF StepFits
  <2>3. ASSUME NEW r \in Runs, files[r] # {}
        PROVE  /\ db'[r].records = Chain(files[r]) /\ db'[r].status = LedgerStatus(files[r])
               /\ db'[r].last_sequence = Cardinality(files[r])
               /\ db'[r].last_digest = digest(Chain(files[r])[Cardinality(files[r])])
               /\ \A i \in 1..Len(db'[r].records) : db'[r].records[i] \in files[r]
               /\ SnapshotsIn(files[r]) # {} /\ Eligible(files[r]) =>
                    db'[r].snapshot = SnapshotOf(files[r])
    <3>1. /\ files[r] \in SUBSET Record /\ IsFiniteSet(files[r]) /\ LedgerFits(files[r])
      BY <2>3, RunTypes
    <3>2. db'[r] = ReplayedRow(files[r])
      BY <2>2, <2>3
    <3> QED
      BY <2>3, <3>1, <3>2, ReplayedFits
  <2>4. IndexNeverAhead'
    <3> SUFFICES ASSUME NEW r \in Runs, NEW i \in 1..Len(db'[r].records)
                 PROVE  db'[r].records[i] \in files'[r]
      BY DEF IndexNeverAhead
    <3>1. CASE files[r] = {}
      <4>1. Len(db'[r].records) = 0
        BY <2>2, <3>1 DEF NoRow
      <4> QED
        BY <4>1
    <3>2. CASE files[r] # {}
      BY <1>1, <2>3, <3>2
    <3> QED
      BY <3>1, <3>2
  <2>5. LedgersFit' /\ EvidenceKept
    BY <1>1 DEF WorkflowInvariant, LedgersFit, EvidenceKept
  <2>6. IndexKept
    <3> SUFFICES ASSUME NEW r \in Runs PROVE db[r].last_sequence <= db'[r].last_sequence
      BY DEF IndexKept
    <3>1. CASE files[r] = {}
      <4>1. Len(db[r].records) = db[r].last_sequence /\ db[r].last_sequence \in Nat
        BY RunTypes DEF RowVerifies
      <4>2. db[r].last_sequence = 0
        <5> SUFFICES ASSUME db[r].last_sequence # 0 PROVE FALSE
          OBVIOUS
        <5>1. 1 \in 1..Len(db[r].records)
          BY <4>1
        <5> QED
          BY <3>1, <5>1 DEF WorkflowInvariant, IndexNeverAhead
      <4>3. db'[r].last_sequence = 0
        BY <2>2, <3>1 DEF NoRow
      <4> QED
        BY <4>2, <4>3
    <3>2. CASE files[r] # {}
      BY <2>3, <3>2, RowsAreFirst
    <3> QED
      BY <3>1, <3>2
  <2>7. ReportsTrue'
    <3> SUFFICES ASSUME NEW r \in Runs, published'[r] # None
                 PROVE  ReportTrue(r)'
      BY DEF ReportsTrue
    <3>1. ReportTrue(r)
      BY <1>1 DEF WorkflowInvariant, ReportsTrue
    <3>2. files[r] # {} /\ SnapshotsIn(files[r]) # {} /\ Eligible(files[r])
      BY <3>1 DEF ReportTrue
    <3> QED
      BY <1>1, <2>3, <3>1, <3>2 DEF ReportTrue, IndexMatches
  <2>8. ContractStep
    <3>1. UNCHANGED Contract!contractVars
      BY <1>1 DEF Contract!contractVars
    <3> QED
      BY <3>1 DEF ContractStep
  <2>9. CASE Leave(p)
    <3>1. \A q \in Procs : q # p => wf[q].step = "idle" /\ wf'[q] = wf[q]
      BY <1>2, <2>9 DEF Leave
    <3>2. wf'[p].step = "idle"
      BY <1>2, <2>9, NoCommandFits DEF Leave
    <3>3. WorkflowInvariant'
      BY <2>4, <2>5, <2>7, <3>1, <3>2, StepOfOne
    <3> QED
      BY <2>5, <2>6, <2>8, <3>3 DEF StepPromise
  <2>10. CASE /\ wf' = [wf EXCEPT ![p].step = "recheck", ![p].candidate = EmptyDb,
                                  ![p].backup = EmptyDb]
              /\ UNCHANGED lease
    <3> DEFINE u == [wf[p] EXCEPT !.step = "recheck"]
               v == [u EXCEPT !.candidate = EmptyDb]
               w == [v EXCEPT !.backup = EmptyDb]
    <3>1. wf' = [wf EXCEPT ![p] = w]
      BY <1>2, <2>10
    <3>2. "recheck" \in Steps
      BY DEF Steps
    <3>3. u \in Command /\ u.step = "recheck"
      BY <1>2, <3>2, StepChanged
    <3> HIDE DEF u
    <3>4. v \in Command /\ v.step = "recheck"
      BY <3>3, EmptyDbType, CandidateChanged
    <3> HIDE DEF v
    <3>5. w.step = "recheck"
      BY <3>4, EmptyDbType, BackupChanged
    <3> HIDE DEF w
    <3>6. wf'[p] = w /\ op'[p] = Idle /\ \A q \in Procs : q # p => wf'[q] = wf[q]
      BY <1>1, <1>2, <3>1
    <3>7. StepFits(p)'
      BY <3>5, <3>6, IdleFacts DEF StepFits, InTransaction, ExpectingSteps
    <3>8. WorkflowInvariant'
      BY <1>2, <2>4, <2>5, <2>7, <2>10, <3>6, <3>7, StepOfOne
    <3> QED
      BY <2>5, <2>6, <2>8, <3>8 DEF StepPromise
  <2> QED
    BY <1>4, <2>9, <2>10 DEF Install
<1> QED
  BY <1>3, <1>4

\* What verify_snapshot found VALID through the index is eligible.
LEMMA ValidIsEligible ==
  ASSUME WorkflowInvariant, NEW r \in Runs, files[r] # {}, VerificationValid(r)
  PROVE  /\ SnapshotsIn(files[r]) # {} /\ IndexMatches(r)
         /\ db[r].snapshot = SnapshotOf(files[r]) /\ Eligible(files[r])
<1> DEFINE F == files[r]
<1>1. SnapshotsIn(F) # {} /\ IndexMatches(r) /\ SnapshotVerifies(r)
  BY DEF VerificationValid, Observed
<1>2. /\ IndexedChain(r) = Chain(F) /\ db[r].records[1].meta = "governed" /\ Governed(F)
      /\ db[r].status = LedgerStatus(F)
  BY <1>1, VerificationReads DEF IndexMatches
<1>3. F \in SUBSET Record /\ IsFiniteSet(F) /\ Cardinality(SnapshotsIn(F)) <= 1
  BY RunTypes DEF LedgerFits
<1>4. db[r].snapshot = SnapshotOf(F)
  <2>1. PICK e \in SnapshotsIn(F) : e.snap = db[r].snapshot
    BY <1>1 DEF SnapshotVerifies
  <2> QED
    BY <1>3, <2>1, OneSnapshot
<1>5. snapshot_run_compatible(db[r].snapshot, db[r].status, db[r].records[1].meta = "governed",
                              IndexedChain(r))
  BY <1>1 DEF SnapshotVerifies
<1> HIDE DEF F
<1>6. Eligible(F)
  BY <1>2, <1>4, <1>5 DEF Eligible, snapshot_run_compatible
<1> QED
  BY <1>1, <1>4, <1>6 DEF F

\* The publication gate.
LEMMA ReportGiven ==
  ASSUME WorkflowInvariant, IndexInvariant', NEW p \in Procs, Report(p)
  PROVE  WorkflowInvariant' /\ StepPromise
<1> DEFINE r == wf[p].run
<1>1. wf[p].step = "publish" /\ Leave(p) /\ UNCHANGED <<files, db, op>>
  BY DEF Report
<1>2. CASE UNCHANGED published
  BY <1>1, <1>2, LeavingStep
<1>3. CASE /\ LedgerReadable(r) /\ LedgerStatus(files[r]) = "verified" /\ VerificationValid(r)
           /\ published' = [published EXCEPT ![r] = SnapshotOf(files[r])]
  <2>1. /\ r \in Runs /\ wf \in [Procs -> Command] /\ \A q \in Procs : q # p => wf[q].step = "idle"
        /\ published \in [Runs -> SnapshotStatus \cup {None}]
    BY <1>1, OneActive DEF WorkflowInvariant, IndexInvariant, RestOK
  <2>2. files[r] # {}
    BY <1>3 DEF LedgerReadable, verify_run
  <2>3. /\ SnapshotsIn(files[r]) # {} /\ IndexMatches(r)
        /\ db[r].snapshot = SnapshotOf(files[r]) /\ Eligible(files[r])
    BY <1>3, <2>1, <2>2, ValidIsEligible
  <2>4. /\ published'[r] = SnapshotOf(files[r])
        /\ \A x \in Runs : x # r => published'[x] = published[x]
    BY <1>3, <2>1
  <2>5. ReportsTrue'
    <3> SUFFICES ASSUME NEW x \in Runs, published'[x] # None
                 PROVE  ReportTrue(x)'
      BY DEF ReportsTrue
    <3>1. CASE x = r
      <4>1. /\ files[x] # {} /\ LedgerStatus(files[x]) = "verified" /\ SnapshotsIn(files[x]) # {}
            /\ SnapshotOf(files[x]) = published'[x] /\ IndexMatches(x)
            /\ db[x].snapshot = SnapshotOf(files[x]) /\ Eligible(files[x])
        BY <1>3, <2>2, <2>3, <2>4, <3>1
      <4> QED
        BY <1>1, <4>1 DEF ReportTrue, IndexMatches
    <3>2. CASE x # r
      <4>1. ReportTrue(x) /\ published'[x] = published[x]
        BY <2>4, <3>2 DEF WorkflowInvariant, ReportsTrue
      <4> QED
        BY <1>1, <4>1 DEF ReportTrue, IndexMatches
    <3> QED
      BY <3>1, <3>2
  <2>6. IndexNeverAhead' /\ LedgersFit' /\ EvidenceKept
    BY <1>1 DEF WorkflowInvariant, IndexNeverAhead, LedgersFit, EvidenceKept
  <2>7. IndexKept
    <3>1. \A x \in Runs : db[x].last_sequence \in Nat
      BY RunTypes
    <3> QED
      BY <1>1, <3>1 DEF IndexKept
  <2>8. wf' = [wf EXCEPT ![p] = NoCommand]
    BY <1>1 DEF Leave
  <2>9. (\A q \in Procs : q # p => wf[q].step = "idle" /\ wf'[q] = wf[q]) /\ wf'[p].step = "idle"
    BY <2>1, <2>8, NoCommandFits
  <2>10. WorkflowInvariant'
    BY <2>5, <2>6, <2>9, StepOfOne
  <2>11. ContractStep
    <3> DEFINE phase == [x \in Runs |-> Phase(files[x])]
               seen == [x \in Runs |-> IF SnapshotsIn(files[x]) = {} THEN None
                                       ELSE SnapshotOf(files[x])]
    <3>1. phase[r] = "verified"
      BY <1>3, <2>1, <2>2 DEF Phase
    <3>2. seen[r] = SnapshotOf(files[r])
      BY <2>1, <2>3
    <3>3. published' = [published EXCEPT ![r] = seen[r]]
      BY <1>3, <3>2
    <3>4. UNCHANGED <<phase, seen>>
      BY <1>1
    <3>5. Contract!Announce(r)
      BY <3>1, <3>3, <3>4 DEF Contract!Announce
    <3> QED
      BY <2>1, <3>5 DEF ContractStep, Contract!ContractNext
  <2> QED
    BY <2>6, <2>7, <2>10, <2>11 DEF StepPromise
<1> QED
  BY <1>2, <1>3 DEF Report

-----------------------------------------------------------------------------
(* The inductive invariant.                                                 *)

LEMMA WorkflowInit == AcquisitionInit => WorkflowInvariant /\ Contract!ContractInit
<1> SUFFICES ASSUME AcquisitionInit PROVE WorkflowInvariant /\ Contract!ContractInit
  OBVIOUS
<1>1. /\ files = [r \in Runs |-> {}] /\ db = [r \in Runs |-> NoRow]
      /\ wf = [p \in Procs |-> NoCommand] /\ published = [r \in Runs |-> None]
  BY DEF AcquisitionInit, Init
<1>2. IndexInvariant
  BY IndexInit
<1>3. Leased /\ StepsFit
  BY <1>1, NoCommandFits DEF Leased, StepsFit
<1>4. IndexNeverAhead
  <2> SUFFICES ASSUME NEW r \in Runs, NEW i \in 1..Len(db[r].records) PROVE FALSE
    BY DEF IndexNeverAhead
  <2>1. Len(db[r].records) = 0
    BY <1>1 DEF NoRow
  <2> QED
    BY <2>1
<1>5. LedgersFit /\ ReportsTrue
  BY <1>1 DEF LedgersFit, ReportsTrue
<1>6. Contract!ContractInit
  <2>1. \A r \in Runs : files[r] = {} /\ Phase(files[r]) = "absent" /\ SnapshotsIn(files[r]) = {}
    BY <1>1 DEF Phase, SnapshotsIn
  <2>2. [r \in Runs |-> Phase(files[r])] = [r \in Runs |-> "absent"]
    BY <2>1
  <2>3. [r \in Runs |-> IF SnapshotsIn(files[r]) = {} THEN None ELSE SnapshotOf(files[r])]
        = [r \in Runs |-> None]
    BY <2>1
  <2> QED
    BY <1>1, <2>2, <2>3 DEF Contract!ContractInit
<1> QED
  BY <1>2, <1>3, <1>4, <1>5, <1>6 DEF WorkflowInvariant

LEMMA WorkflowStep ==
  ASSUME SupportedOnly, WorkflowInvariant, [AcquisitionNext]_vars
  PROVE  WorkflowInvariant' /\ StepPromise
<1>1. IndexInvariant'
  BY IndexStep DEF WorkflowInvariant
<1>2. CASE UNCHANGED vars
  BY <1>1, <1>2, StillStep DEF vars
<1>3. CASE Inspect
  BY <1>1, <1>3, StillStep DEF Inspect, ReadWriteOpen
<1>4. ASSUME NEW r \in Runs, RecoverRun(r)
      PROVE  WorkflowInvariant' /\ StepPromise
  BY <1>1, <1>4, RecoveryBegins
<1>5. ASSUME NEW p \in Procs, StartCommand(p)
      PROVE  WorkflowInvariant' /\ StepPromise
  BY <1>1, <1>5, AcquireBegins
<1>6. ASSUME NEW p \in Procs, Continue(p)
      PROVE  WorkflowInvariant' /\ StepPromise
  BY <1>1, <1>6, OperationBegins, CommandEnds, OperationPublishes, OperationCommits,
     ScopeObserved, ObservationVerified, ReportGiven, InterruptHandled, AppendPublishes,
     ProjectionVerified, CandidateStands, CandidateInstalled DEF Continue
<1>7. ASSUME NEW p \in Procs, Interrupt(p) \/ Fail(p) \/ Crash(p)
      PROVE  WorkflowInvariant' /\ StepPromise
  BY <1>1, <1>7, Interrupted, CommandEnds
<1> QED
  BY <1>2, <1>3, <1>4, <1>5, <1>6, <1>7 DEF AcquisitionNext

\* The invariant holds in every state of the supported workflow.
THEOREM WorkflowAlways == ASSUME SupportedOnly PROVE AcquisitionSpec => []WorkflowInvariant
<1>1. AcquisitionInit => WorkflowInvariant
  BY WorkflowInit
<1>2. WorkflowInvariant /\ [AcquisitionNext]_vars => WorkflowInvariant'
  BY WorkflowStep
<1> QED
  BY <1>1, <1>2, PTL DEF AcquisitionSpec

-----------------------------------------------------------------------------
\* Every Run directory passes _verify_run at every moment, whatever crashed,
\* was interrupted, refused or recovered (runs.py, snapshots.py and
\* _append_transition_from_ledger write one chain between them).
THEOREM LedgersStayVerified == ASSUME SupportedOnly PROVE AcquisitionSpec => []LedgersVerify
<1>1. WorkflowInvariant => LedgersVerify
  BY DEF WorkflowInvariant, LedgersFit, LedgerFits, LedgersVerify
<1> QED
  BY <1>1, WorkflowAlways, PTL

\* What the terminal publication gate of acquire_snapshot or of recovery
\* reported stays true for good, through every later command and failure.
THEOREM ReportsStayTrue == ASSUME SupportedOnly PROVE AcquisitionSpec => []PublishedStaysTrue
<1>1. WorkflowInvariant => PublishedStaysTrue
  <2> SUFFICES ASSUME WorkflowInvariant, NEW r \in Runs, published[r] # None
               PROVE  /\ LedgerReadable(r) /\ LedgerStatus(files[r]) = "verified"
                      /\ SnapshotOf(files[r]) = published[r] /\ VerificationValid(r)
    BY DEF PublishedStaysTrue
  <2> DEFINE F == files[r]
  <2>1. /\ F # {} /\ LedgerStatus(F) = "verified" /\ SnapshotsIn(F) # {}
        /\ SnapshotOf(F) = published[r] /\ IndexMatches(r)
        /\ db[r].snapshot = SnapshotOf(F) /\ Eligible(F)
    BY DEF WorkflowInvariant, ReportsTrue, ReportTrue
  <2>2. /\ F \in SUBSET Record /\ IsFiniteSet(F) /\ verify_run(F)
        /\ Cardinality(SnapshotsIn(F)) <= 1
    BY <2>1, RunTypes DEF LedgerFits
  <2>3. /\ IndexedChain(r) = Chain(F) /\ db[r].records[1].meta = "governed" /\ Governed(F)
        /\ db[r].status = LedgerStatus(F)
    BY <2>1, VerificationReads DEF IndexMatches
  <2>4. \E e \in SnapshotsIn(F) : e.snap = db[r].snapshot
    <3>1. PICK e \in SnapshotsIn(F) : TRUE
      BY <2>1
    <3> QED
      BY <2>1, <2>2, <3>1, OneSnapshot
  <2>5. db[r].snapshot # None
    <3>1. SnapshotOf(F) \in SnapshotStatus \cup {None}
      BY <2>1, <2>2, SnapshotOfType
    <3>2. published[r] # None
      OBVIOUS
    <3> QED
      BY <2>1, <3>2
  <2>6. snapshot_run_compatible(db[r].snapshot, db[r].status,
                                db[r].records[1].meta = "governed", IndexedChain(r))
    <3>1. snapshot_run_compatible(SnapshotOf(F), LedgerStatus(F), Governed(F), Chain(F))
      BY <2>1 DEF Eligible
    <3> HIDE DEF F
    <3> QED
      BY <2>1, <2>3, <3>1 DEF snapshot_run_compatible
  <2>7. SnapshotVerifies(r)
    BY <2>4, <2>5, <2>6 DEF SnapshotVerifies
  <2>8. VerificationValid(r)
    BY <2>1, <2>7 DEF VerificationValid, Observed
  <2> QED
    BY <2>1, <2>2, <2>8 DEF LedgerReadable
<1> QED
  BY <1>1, WorkflowAlways, PTL

\* No supported command removes or rewrites an Evidence file, although
\* write_evidence looks for the name before it replaces it.
THEOREM EvidenceStays == ASSUME SupportedOnly PROVE AcquisitionSpec => EvidenceImmutable
<1>1. WorkflowInvariant /\ [AcquisitionNext]_vars => [EvidenceKept]_storeVars
  BY WorkflowStep DEF StepPromise
<1>2. AcquisitionSpec => [][EvidenceKept]_storeVars
  BY <1>1, WorkflowAlways, PTL DEF AcquisitionSpec
<1> QED
  BY <1>2 DEF EvidenceImmutable, EvidenceKept

\* The rebuilds of recovery take back no row that a command has committed.
THEOREM IndexStaysAhead == ASSUME SupportedOnly PROVE AcquisitionSpec => IndexNeverRegresses
<1>1. WorkflowInvariant /\ [AcquisitionNext]_vars => [IndexKept]_vars
  BY WorkflowStep DEF StepPromise
<1>2. AcquisitionSpec => [][IndexKept]_vars
  BY <1>1, WorkflowAlways, PTL DEF AcquisitionSpec
<1> QED
  BY <1>2 DEF IndexNeverRegresses, IndexKept

\* Acquisition with its crashes, interrupts and recoveries implements its
\* contract: every step is a step of AcquisitionContract or changes nothing
\* that the contract sees.
THEOREM AcquisitionImplements == ASSUME SupportedOnly PROVE AcquisitionSpec => ImplementsContract
<1>1. AcquisitionInit => Contract!ContractInit
  BY WorkflowInit
<1>2. WorkflowInvariant /\ [AcquisitionNext]_vars => ContractStep
  BY WorkflowStep DEF StepPromise
<1>3. WorkflowInvariant /\ [AcquisitionNext]_vars =>
        [Contract!ContractNext]_(Contract!contractVars)
  BY <1>2 DEF ContractStep
<1> QED
  BY <1>1, <1>3, WorkflowAlways, PTL DEF AcquisitionSpec, ImplementsContract, Contract!ContractSpec
=============================================================================
