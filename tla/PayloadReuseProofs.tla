------------------------- MODULE PayloadReuseProofs -------------------------
(***************************************************************************)
(* Theorems of PayloadReuse, for any numbers of files, scans, writes,      *)
(* deaths and damages.                                                     *)
(*                                                                         *)
(* Reuse.  A Snapshot on disk stays what it is, so whatever a scan took    *)
(* from a closed Snapshot still fits it when the scan is verified          *)
(* (ReuseFits).  ValidSnapshots is recursive over the scans; it is a       *)
(* function because the equation has a solution, the greatest set of       *)
(* Snapshots that support each other, and it is what verification says of  *)
(* every scan because a chain of sources ends: a scan that took something  *)
(* is ranked above what it took it from (Ranked), and nobody takes from a  *)
(* scan that is not closed.                                                *)
(*                                                                         *)
(* Digests.  Where every write has a ctime of its own, all that was ever   *)
(* held under one stat identity is one content (FilesFit), so as long as   *)
(* the open file has the identity it was opened with, the first block is   *)
(* still the one that was read (ReadFits).                                 *)
(***************************************************************************)
EXTENDS PayloadReuse, WellFoundedInduction, TLAPS

-----------------------------------------------------------------------------
(* Types.                                                                  *)

Blocks == (0..2) \X (0..2)
StatId == [inode: Nat, ctime: Nat]
Statuses == {"HASHED", "unread", "METADATA_UNAVAILABLE", "NOT_LOCAL", "TIME_BUDGET_EXHAUSTED",
             "NOT_FOUND_DURING_READ", "CHANGED_DURING_READ"}
Seen == [status: Statuses, digest: Blocks, source: 0..MaxScans]
Visiting == {"probe", "probed", "open", "half", "check"}
States == {"absent", "began", "persist", "raised", "refused"} \cup Visiting \cup OnDisk
ScanRecord ==
  [state: States, started: Nat, completed: Nat, stat: [Path -> StatId], seen: [Path -> Seen],
   at: Path, fd: 0..MaxInode, before: StatId, read: Blocks, sources: SUBSET Scans,
   loaded: BOOLEAN, whole: BOOLEAN, indexed: BOOLEAN]

FilesTyped ==
  /\ clock \in 0..MaxClock /\ names \in [Path -> 0..MaxInode]
  /\ inodes \in [Inode -> [ctime: Nat, content: Contents]]
  /\ held \subseteq [stat: StatId, content: Contents]
ScansTyped == scans \in [Scans -> ScanRecord]

-----------------------------------------------------------------------------
(* What is known of one scan from the scan alone: how far it has come.     *)

Paced(s) ==
  /\ s.started <= s.completed \/ s.state \in {"absent", "began"}
  /\ s.indexed => s.state \in {"indexed", "closed", "orphaned"}
  /\ s.state \in {"absent", "began"} =>
       s.seen = [p \in Path |-> Unread] /\ s.sources = {} /\ s.at = 1
  /\ s.state \in {"half", "check"} => s.fd \in Inode
  /\ s.state \in Visiting => \A p \in Path : p < s.at => s.seen[p] # Unread
  /\ s.state \in OnDisk \cup {"persist"} => \A p \in Path : s.seen[p] # Unread

\* A Snapshot on disk stays what it is, and a scan begins once.
Keeps(s, t) ==
  /\ s.state # "absent" => t.started = s.started
  /\ s.state \in OnDisk =>
       t.state \in OnDisk /\ t.stat = s.stat /\ t.seen = s.seen /\ t.completed = s.completed
  /\ s.state = "closed" => t.state = "closed"

-----------------------------------------------------------------------------
(* Reuse: what was taken came from a closed Snapshot and still fits it.    *)

LoadedFits(s) == \A j \in s.sources : scans[j].state \in OnDisk /\ Earlier(s, j)
ReuseFits(s) ==
  \A p \in Path : s.seen[p].source # 0 =>
    scans[s.seen[p].source].state = "closed" /\ ReuseHolds(s, p)

\* No reuse rests on itself.
Ranks(rank) ==
  \A i \in Scans, p \in Path :
    scans[i].seen[p].source # 0 => rank[scans[i].seen[p].source] < rank[i]
Ranked == \E rank \in [Scans -> Nat] : Ranks(rank)

ReuseInv ==
  /\ PayloadBounds /\ FilesTyped /\ ScansTyped
  /\ \A i \in Scans : /\ Paced(scans[i]) /\ scans[i].started <= clock
                      /\ LoadedFits(scans[i]) /\ ReuseFits(scans[i])
  /\ Ranked

-----------------------------------------------------------------------------
(* Digests, where every write gets a ctime of its own.                     *)

Live(n) == \E h \in held : h.stat.inode = n
Holds(st, c) == [stat |-> st, content |-> c] \in held

FilesFit ==
  /\ \A h \in held : h.stat.inode \in Inode /\ h.stat.ctime <= clock
  /\ \A h, k \in held : h.stat = k.stat => h.content = k.content
  /\ \A n \in Inode : Live(n) => Holds(Stat(n), inodes[n].content)
  /\ \A p \in Path : names[p] # 0 => Live(names[p])

\* A file that is being read was the one of the scanned stat identity, and as
\* long as it has that identity its first block is the one that was read.
ReadFits(s) ==
  /\ s.state \in {"half", "check"} =>
       /\ s.fd \in Inode /\ Live(s.fd) /\ s.before = s.stat[s.at]
       /\ s.before.inode = s.fd /\ s.before.ctime <= inodes[s.fd].ctime
  /\ s.state = "check" /\ Stat(s.fd) = s.before => s.read[1] = inodes[s.fd].content[1]
DigestFits(s) ==
  \A p \in Path : s.seen[p].status = "HASHED" => Holds(s.stat[p], s.seen[p].digest)

DigestInv == ReuseInv /\ FilesFit /\ \A i \in Scans : ReadFits(scans[i]) /\ DigestFits(scans[i])

-----------------------------------------------------------------------------
(* VALID is well defined: the greatest set of closed, undamaged Snapshots  *)
(* whose reused digests fit one of them satisfies the equation.            *)

ValidBody(g, i) ==
  /\ scans[i].whole /\ scans[i].state = "closed"
  /\ \A p \in Path : LET j == scans[i].seen[p].source
                     IN  j # 0 => ReuseHolds(scans[i], p) /\ g[j]
Supports(S) ==
  \A i \in S :
    /\ scans[i].whole /\ scans[i].state = "closed"
    /\ \A p \in Path : scans[i].seen[p].source # 0 =>
         ReuseHolds(scans[i], p) /\ scans[i].seen[p].source \in S
Greatest == [i \in Scans |-> \E S \in SUBSET Scans : i \in S /\ Supports(S)]

LEMMA SourcesAreScans ==
  ASSUME ScansTyped, PayloadBounds, NEW i \in Scans, NEW p \in Path
  PROVE  /\ scans[i] \in ScanRecord /\ scans[i].seen[p] \in Seen
         /\ scans[i].seen[p].source \in Nat
         /\ scans[i].seen[p].source # 0 => scans[i].seen[p].source \in Scans
<1>1. scans[i] \in ScanRecord
  BY DEF ScansTyped
<1>2. scans[i].seen[p] \in Seen
  BY <1>1 DEF ScanRecord
<1> QED
  BY <1>1, <1>2 DEF Seen, Scans, PayloadBounds

LEMMA GreatestFits ==
  ASSUME ScansTyped, PayloadBounds
  PROVE  Greatest = [i \in Scans |-> ValidBody(Greatest, i)]
<1>1. ASSUME NEW i \in Scans, Greatest[i]
      PROVE  ValidBody(Greatest, i)
  <2>1. PICK S \in SUBSET Scans : i \in S /\ Supports(S)
    BY <1>1 DEF Greatest
  <2>2. \A j \in S : Greatest[j]
    BY <2>1 DEF Greatest
  <2> QED
    BY <2>1, <2>2 DEF Supports, ValidBody
<1>2. ASSUME NEW i \in Scans, ValidBody(Greatest, i)
      PROVE  Greatest[i]
  <2> DEFINE S == {j \in Scans : Greatest[j]}
             T == S \cup {i}
  <2>1. ASSUME NEW k \in T, NEW p \in Path, scans[k].seen[p].source # 0
        PROVE  ReuseHolds(scans[k], p) /\ scans[k].seen[p].source \in S
    <3>1. ValidBody(Greatest, k) /\ k \in Scans
      BY <1>1, <1>2
    <3>2. scans[k].seen[p].source \in Scans
      BY <2>1, <3>1, SourcesAreScans
    <3> QED
      BY <2>1, <3>1, <3>2 DEF ValidBody
  <2>2. \A k \in T : scans[k].whole /\ scans[k].state = "closed"
    BY <1>1, <1>2 DEF ValidBody
  <2>3. Supports(T)
    BY <2>1, <2>2 DEF Supports
  <2> QED
    BY <2>3 DEF Greatest
<1>3. \A i \in Scans : Greatest[i] = ValidBody(Greatest, i)
  <2> SUFFICES ASSUME NEW i \in Scans
               PROVE  Greatest[i] = ValidBody(Greatest, i)
    OBVIOUS
  <2>1. Greatest[i] \in BOOLEAN /\ ValidBody(Greatest, i) \in BOOLEAN
    BY DEF Greatest, ValidBody
  <2>2. Greatest[i] <=> ValidBody(Greatest, i)
    BY <1>1, <1>2
  <2> QED
    BY <2>1, <2>2
<1>4. Greatest = [i \in Scans |-> Greatest[i]]
  BY DEF Greatest
<1> HIDE DEF Greatest
<1> QED
  BY <1>3, <1>4

\* verify_snapshot may be unfolded once: a Snapshot is VALID exactly if it is
\* closed and undamaged and its sources are VALID and still fit.
LEMMA ValidUnfolds ==
  ASSUME ScansTyped, PayloadBounds, NEW i \in Scans
  PROVE  ValidSnapshots[i] = ValidBody(ValidSnapshots, i)
<1>1. ValidSnapshots = CHOOSE g : g = [k \in Scans |-> ValidBody(g, k)]
  BY DEF ValidSnapshots, ValidBody
<1>2. ValidSnapshots = [k \in Scans |-> ValidBody(ValidSnapshots, k)]
  BY <1>1, GreatestFits
<1> QED
  BY <1>2

-----------------------------------------------------------------------------
(* Scans as records.                                                       *)

LEMMA Fields ==
  ASSUME NEW s \in ScanRecord
  PROVE  /\ s.state \in States /\ s.started \in Nat /\ s.completed \in Nat
         /\ s.stat \in [Path -> StatId] /\ s.seen \in [Path -> Seen]
         /\ s.at \in Path /\ s.fd \in 0..MaxInode /\ s.before \in StatId /\ s.read \in Blocks
         /\ s.sources \subseteq Scans /\ s.loaded \in BOOLEAN /\ s.whole \in BOOLEAN
         /\ s.indexed \in BOOLEAN
BY DEF ScanRecord

LEMMA Constants ==
  ASSUME PayloadBounds
  PROVE  /\ NoStat \in StatId /\ NoContent \in Blocks /\ 0 \in 0..MaxInode
         /\ 1 \in Path /\ Path \subseteq Nat /\ Scans \subseteq Nat \ {0} /\ Contents \subseteq Blocks
         /\ \A r \in Statuses : Failed(r) \in Seen /\ Failed(r).source = 0
         /\ Unread \in Seen /\ Unread.source = 0 /\ Unread.status = "unread"
<1>1. NoStat \in StatId /\ NoContent \in Blocks /\ 0 \in 0..MaxInode /\ Contents \subseteq Blocks
  BY DEF PayloadBounds, NoStat, StatId, NoContent, Blocks, Contents
<1>2. 1 \in Path /\ Path \subseteq Nat /\ Scans \subseteq Nat \ {0}
  BY DEF PayloadBounds, Path, Scans
<1>3. \A r \in Statuses : Failed(r) \in Seen /\ Failed(r).source = 0
  BY <1>1 DEF Failed, Seen, PayloadBounds
<1>4. Unread.status = "unread"
  BY DEF Unread, Failed
<1>5. Unread \in Seen /\ Unread.source = 0
  BY <1>3 DEF Unread, Statuses
<1> QED
  BY <1>1, <1>2, <1>3, <1>4, <1>5

LEMMA NewScanTyped ==
  ASSUME PayloadBounds
  PROVE  NewScan \in ScanRecord
<1>1. [p \in Path |-> NoStat] \in [Path -> StatId] /\ [p \in Path |-> Unread] \in [Path -> Seen]
  BY Constants
<1> QED
  BY <1>1, Constants DEF NewScan, ScanRecord, States

\* The observation of a file, and then the next file or the Snapshot.
LEMMA ObservedDoes ==
  ASSUME PayloadBounds, NEW s \in ScanRecord, NEW o \in Seen
  PROVE  /\ Observed(s, o) \in ScanRecord
         /\ Observed(s, o).seen = [s.seen EXCEPT ![s.at] = o]
         /\ Observed(s, o).stat = s.stat /\ Observed(s, o).started = s.started
         /\ Observed(s, o).completed = s.completed /\ Observed(s, o).indexed = s.indexed
         /\ Observed(s, o).sources = s.sources /\ Observed(s, o).whole = s.whole
         /\ Observed(s, o).state = (IF s.at = Paths THEN "persist" ELSE "probe")
         /\ Observed(s, o).at = (IF s.at = Paths THEN s.at ELSE s.at + 1)
<1> DEFINE t == Observed(s, o)
           z == IF s.at = Paths THEN "persist" ELSE "probe"
           a == IF s.at = Paths THEN s.at ELSE s.at + 1
<1>1. z \in States /\ a \in Path
  BY Fields DEF PayloadBounds, Path, States, Visiting
<1>2. NoStat \in StatId /\ NoContent \in Blocks /\ 0 \in 0..MaxInode
  BY Constants
<1>3. t = [s EXCEPT !.seen = [s.seen EXCEPT ![s.at] = o], !.fd = 0, !.before = NoStat,
                    !.read = NoContent, !.state = z, !.at = a]
  BY DEF Observed, ScanRecord
<1>4. [s.seen EXCEPT ![s.at] = o] \in [Path -> Seen]
  BY DEF ScanRecord
<1> HIDE DEF z, a, t
<1>5. t \in ScanRecord
  BY <1>1, <1>2, <1>3, <1>4 DEF ScanRecord
<1>6. /\ t.seen = [s.seen EXCEPT ![s.at] = o] /\ t.stat = s.stat /\ t.started = s.started
      /\ t.completed = s.completed /\ t.indexed = s.indexed /\ t.sources = s.sources
      /\ t.state = z /\ t.at = a /\ t.whole = s.whole
  BY <1>3 DEF ScanRecord
<1> QED
  BY <1>5, <1>6 DEF t, a, z

LEMMA SetTyped ==
  ASSUME ScansTyped, NEW i \in Scans, NEW t \in ScanRecord, Set(i, t)
  PROVE  /\ ScansTyped' /\ scans'[i] = t
         /\ \A j \in Scans \ {i} : scans'[j] = scans[j]
BY DEF ScansTyped, Set, Scans, ScanRecord, States, OnDisk, Visiting, Path, Seen, StatId, Statuses, Blocks

-----------------------------------------------------------------------------
(* What other scans know of a scan lasts, because what is on disk stays.   *)

LEMMA KnowledgeLasts ==
  ASSUME ScansTyped, PayloadBounds, NEW i \in Scans, NEW t \in ScanRecord, Set(i, t),
         Keeps(scans[i], t), NEW s \in ScanRecord
  PROVE  /\ LoadedFits(s) => LoadedFits(s)'
         /\ ReuseFits(s) => ReuseFits(s)'
<1>1. \A j \in Scans : /\ scans[j].state \in OnDisk =>
                            /\ scans'[j].state \in OnDisk /\ scans'[j].stat = scans[j].stat
                            /\ scans'[j].seen = scans[j].seen /\ scans'[j].completed = scans[j].completed
                       /\ scans[j].state = "closed" => scans'[j].state = "closed"
  BY SetTyped DEF Keeps
<1>2. ASSUME LoadedFits(s)
      PROVE  LoadedFits(s)'
  <2>1. \A j \in s.sources : j \in Scans
    BY Fields
  <2> QED
    BY <1>1, <1>2, <2>1 DEF LoadedFits, Earlier, OnDisk
<1>3. ASSUME ReuseFits(s)
      PROVE  ReuseFits(s)'
  <2> SUFFICES ASSUME NEW p \in Path, s.seen[p].source # 0
               PROVE  scans'[s.seen[p].source].state = "closed" /\ ReuseHolds(s, p)'
    BY DEF ReuseFits, Path
  <2> DEFINE j == s.seen[p].source
  <2>1. j \in Scans
    <3>1. s.seen[p] \in Seen
      BY Fields
    <3> QED
      BY <3>1 DEF Seen, Scans, PayloadBounds
  <2>2. scans[j].state = "closed" /\ ReuseHolds(s, p)
    BY <1>3 DEF ReuseFits
  <2>3. /\ scans'[j].stat = scans[j].stat /\ scans'[j].state = "closed"
        /\ scans'[j].seen = scans[j].seen /\ scans'[j].completed = scans[j].completed
    BY <1>1, <2>1, <2>2 DEF OnDisk
  <2> QED
    BY <2>2, <2>3 DEF ReuseHolds, Earlier, DirectReuseEligible
<1> QED
  BY <1>2, <1>3

LEMMA RankedKept ==
  ASSUME ScansTyped, PayloadBounds, Ranked, NEW i \in Scans, NEW t \in ScanRecord, Set(i, t),
         \A p \in Path : t.seen[p].source \in {0, scans[i].seen[p].source}
  PROVE  Ranked'
<1>1. PICK rank \in [Scans -> Nat] : Ranks(rank)
  BY DEF Ranked
<1>2. ASSUME NEW k \in Scans, NEW p \in Path, scans'[k].seen[p].source # 0
      PROVE  rank[scans'[k].seen[p].source] < rank[k]
  <2>1. scans'[k].seen[p].source \in {0, scans[k].seen[p].source}
    BY SetTyped
  <2> QED
    BY <1>1, <1>2, <2>1 DEF Ranks
<1>3. Ranks(rank)'
  BY <1>2 DEF Ranks, Scans, Path
<1> QED
  BY <1>3 DEF Ranked, Scans

\* A scan that nobody reuses goes above its new source.
LEMMA RankedMore ==
  ASSUME ScansTyped, PayloadBounds, Ranked, \A k \in Scans : ReuseFits(scans[k]),
         NEW i \in Scans, NEW t \in ScanRecord, Set(i, t), scans[i].state # "closed",
         NEW j \in Scans, scans[j].state = "closed",
         \A p \in Path : t.seen[p].source \in {0, j, scans[i].seen[p].source}
  PROVE  Ranked'
<1>1. PICK rank \in [Scans -> Nat] : Ranks(rank)
  BY DEF Ranked
<1>2. \A k \in Scans, p \in Path : scans[k].seen[p].source # i
  BY Constants DEF ReuseFits
<1> DEFINE new == [rank EXCEPT ![i] = rank[i] + rank[j] + 1]
<1>3. /\ new \in [Scans -> Nat] /\ new[i] > rank[i] /\ new[i] > rank[j] /\ j # i
      /\ \A k \in Scans \ {i} : new[k] = rank[k]
  BY <1>1
<1> HIDE DEF new
<1>4. ASSUME NEW k \in Scans, NEW p \in Path, scans'[k].seen[p].source # 0
      PROVE  new[scans'[k].seen[p].source] < new[k]
  <2>1. CASE k # i
    <3>1. scans'[k] = scans[k]
      BY <2>1, SetTyped
    <3>2. scans[k].seen[p].source \in Scans \ {i}
      BY <1>2, <1>4, <3>1, SourcesAreScans
    <3> QED
      BY <1>1, <1>3, <1>4, <2>1, <3>1, <3>2 DEF Ranks
  <2>2. CASE k = i /\ t.seen[p].source = j
    BY <1>3, <2>2, SetTyped
  <2>3. CASE k = i /\ t.seen[p].source = scans[i].seen[p].source
    <3>1. scans[i].seen[p].source \in Scans \ {i}
      BY <1>2, <1>4, <2>3, SetTyped, SourcesAreScans
    <3>2. rank[scans[i].seen[p].source] < rank[i]
      BY <1>1, <1>4, <2>3, SetTyped DEF Ranks
    <3> QED
      BY <1>1, <1>3, <2>3, <3>1, <3>2, SetTyped
  <2> QED
    BY <1>4, <2>1, <2>2, <2>3, SetTyped
<1>5. Ranks(new)'
  BY <1>4 DEF Ranks, Scans, Path
<1> QED
  BY <1>3, <1>5 DEF Ranked, Scans

-----------------------------------------------------------------------------
(* Steps of one scan.                                                      *)

\* What the source of an observation has to be.
SourceFits(o, id, begun, p) ==
  /\ scans[o.source].state = "closed" /\ scans[o.source].completed <= begun
  /\ scans[o.source].seen[p].status = "HASHED" /\ scans[o.source].seen[p].source = 0
  /\ scans[o.source].stat[p] = id /\ o.digest = scans[o.source].seen[p].digest

LEMMA FitUnfolds ==
  ASSUME NEW s
  PROVE  ReuseFits(s) <=> \A p \in Path : s.seen[p].source # 0 =>
                            SourceFits(s.seen[p], s.stat[p], s.started, p)
<1>1. ASSUME NEW p \in Path
      PROVE  (scans[s.seen[p].source].state = "closed" /\ ReuseHolds(s, p))
               <=> SourceFits(s.seen[p], s.stat[p], s.started, p)
  BY DEF SourceFits, ReuseHolds, Earlier, DirectReuseEligible
<1> QED
  BY <1>1 DEF ReuseFits

LEMMA ScanStep ==
  ASSUME ReuseInv, NEW i \in Scans, NEW t \in ScanRecord, Set(i, t), Keeps(scans[i], t),
         Paced(t), t.started <= clock, LoadedFits(t), ReuseFits(t), Ranked'
  PROVE  ReuseInv'
<1>1. ScansTyped' /\ scans'[i] = t /\ \A k \in Scans \ {i} : scans'[k] = scans[k]
  BY SetTyped DEF ReuseInv
<1>2. PayloadBounds' /\ FilesTyped' /\ clock' = clock
  BY DEF ReuseInv, FilesTyped, Set, PayloadBounds, Path, Inode
<1>3. \A s \in ScanRecord : (LoadedFits(s) => LoadedFits(s)') /\ (ReuseFits(s) => ReuseFits(s)')
  BY KnowledgeLasts DEF ReuseInv
<1>4. ASSUME NEW k \in Scans
      PROVE  /\ scans'[k] \in ScanRecord /\ Paced(scans'[k]) /\ scans'[k].started <= clock
             /\ LoadedFits(scans'[k]) /\ ReuseFits(scans'[k])
  BY <1>1, SourcesAreScans DEF ReuseInv, ScansTyped
<1>5. ASSUME NEW k \in Scans
      PROVE  LoadedFits(scans[k])' /\ ReuseFits(scans[k])'
  <2>1. PICK s \in ScanRecord : s = scans'[k] /\ LoadedFits(s) /\ ReuseFits(s)
    BY <1>4
  <2>2. LoadedFits(s)' /\ ReuseFits(s)'
    BY <1>3, <2>1
  <2>3. LoadedFits(scans[k])'
    BY <2>1, <2>2 DEF LoadedFits, Earlier, OnDisk
  <2>4. ReuseFits(scans[k])'
    BY <2>1, <2>2 DEF ReuseFits, ReuseHolds, DirectReuseEligible, Earlier, Path
  <2> QED
    BY <2>3, <2>4
<1>6. \A k \in Scans : Paced(scans[k])' /\ (scans[k].started <= clock)'
  BY <1>1, <1>2, <1>4 DEF Paced, Path, Inode, Unread, Failed, NoContent, Visiting, OnDisk
<1> QED
  BY <1>1, <1>2, <1>5, <1>6 DEF ReuseInv, Scans

\* A step that observes no file: what was reused, and from where, stays.
LEMMA QuietStep ==
  ASSUME ReuseInv, NEW i \in Scans, NEW t \in ScanRecord, Set(i, t),
         t.seen = scans[i].seen, t.stat = scans[i].stat, t.started = scans[i].started,
         t.completed = scans[i].completed, LoadedFits(t), Paced(t),
         scans[i].state \in OnDisk => t.state \in OnDisk,
         scans[i].state = "closed" => t.state = "closed"
  PROVE  ReuseInv'
<1>1. Keeps(scans[i], t)
  BY DEF Keeps
<1>2. ReuseFits(t)
  BY FitUnfolds DEF ReuseInv
<1>3. Ranked'
  BY RankedKept DEF ReuseInv
<1> QED
  BY <1>1, <1>2, <1>3, ScanStep DEF ReuseInv

\* The observation of a file: a failure, what was read, or what a closed
\* Snapshot that was complete before this scan began read at the same identity.
LEMMA ObservingStep ==
  ASSUME ReuseInv, NEW i \in Scans, NEW u \in ScanRecord, NEW o \in Seen, Set(i, Observed(u, o)),
         scans[i].state \in Visiting, u.seen = scans[i].seen, u.stat = scans[i].stat,
         u.started = scans[i].started, u.completed = scans[i].completed,
         u.indexed = scans[i].indexed, u.at = scans[i].at, LoadedFits(u), o # Unread,
         o.source # 0 =>
           /\ scans[o.source].state = "closed" /\ Earlier(u, o.source)
           /\ DirectReuseEligible(u, o.source, u.at)
           /\ o.digest = scans[o.source].seen[u.at].digest
  PROVE  ReuseInv'
<1> DEFINE s == scans[i]
           t == Observed(u, o)
<1>1. /\ t \in ScanRecord /\ t.seen = [s.seen EXCEPT ![s.at] = o] /\ t.stat = s.stat
      /\ t.started = s.started /\ t.completed = s.completed /\ t.indexed = s.indexed
      /\ t.sources = u.sources /\ t.state = (IF s.at = Paths THEN "persist" ELSE "probe")
      /\ t.at = (IF s.at = Paths THEN s.at ELSE s.at + 1)
  BY ObservedDoes DEF ReuseInv
<1> HIDE DEF t
<1>2. s \in ScanRecord /\ s.seen \in [Path -> Seen] /\ s.at \in Path
  BY Fields, SourcesAreScans DEF ReuseInv, ScansTyped
<1>3. \A p \in Path : t.seen[p] = IF p = s.at THEN o ELSE s.seen[p]
  BY <1>1, <1>2
<1>4. Keeps(s, t)
  BY <1>1 DEF Keeps, Visiting, OnDisk
<1>5. Paced(t)
  <2>1. Paced(s)
    BY DEF ReuseInv
  <2>2. t.started <= t.completed /\ ~t.indexed
    BY <1>1, <2>1 DEF Paced, Visiting
  <2>3. \A p \in Path : p < s.at \/ p = s.at => t.seen[p] # Unread
    BY <1>3, <2>1 DEF Paced
  <2>4. CASE s.at = Paths
    BY <1>1, <1>2, <2>2, <2>3, <2>4 DEF Paced, Path, Visiting, PayloadBounds, ReuseInv
  <2>5. CASE s.at # Paths
    BY <1>1, <1>2, <2>2, <2>3, <2>5 DEF Paced, Path, Visiting, OnDisk, PayloadBounds, ReuseInv
  <2> QED
    BY <2>4, <2>5
<1>6. LoadedFits(t)
  BY <1>1 DEF LoadedFits, Earlier
<1>7. ReuseFits(t)
  <2>1. ReuseFits(s)
    BY DEF ReuseInv
  <2>2. ASSUME NEW p \in Path, t.seen[p].source # 0
        PROVE  SourceFits(t.seen[p], t.stat[p], t.started, p)
    <3>1. CASE p = s.at
      BY <1>1, <1>3, <2>2, <3>1 DEF SourceFits, Earlier, DirectReuseEligible
    <3>2. CASE p # s.at
      BY <1>1, <1>3, <2>1, <2>2, <3>2, FitUnfolds
    <3> QED
      BY <3>1, <3>2
  <2> QED
    BY <2>2, FitUnfolds
<1>8. Ranked'
  <2>1. CASE o.source = 0
    <3>1. \A p \in Path : t.seen[p].source \in {0, s.seen[p].source}
      BY <1>3, <2>1
    <3> QED
      BY <1>1, <3>1, RankedKept DEF ReuseInv, t
  <2>2. CASE o.source # 0
    <3>1. o.source \in Scans
      BY <2>2 DEF Seen, Scans, ReuseInv, PayloadBounds
    <3>2. \A p \in Path : t.seen[p].source \in {0, o.source, s.seen[p].source}
      BY <1>3
    <3>3. \A k \in Scans : ReuseFits(scans[k])
      BY DEF ReuseInv
    <3>4. s.state # "closed"
      BY DEF Visiting
    <3> QED
      BY <1>1, <2>2, <3>1, <3>2, <3>3, <3>4, RankedMore DEF ReuseInv, t
  <2> QED
    BY <2>1, <2>2
<1>9. t.started <= clock
  BY <1>1 DEF ReuseInv
<1> QED
  BY <1>1, <1>4, <1>5, <1>6, <1>7, <1>8, <1>9, ScanStep DEF t

-----------------------------------------------------------------------------
(* Every step keeps the reuse fitting.                                     *)

LEMMA ScanFacts ==
  ASSUME ReuseInv, NEW i \in Scans
  PROVE  /\ scans[i] \in ScanRecord /\ Paced(scans[i]) /\ LoadedFits(scans[i]) /\ ReuseFits(scans[i])
         /\ scans[i].started \in Nat /\ scans[i].started <= clock /\ clock \in Nat
         /\ PayloadBounds
<1>1. scans[i] \in ScanRecord
  BY DEF ReuseInv, ScansTyped
<1>2. clock \in Nat
  BY DEF ReuseInv, FilesTyped, PayloadBounds
<1> QED
  BY <1>1, <1>2, Fields DEF ReuseInv

LEMMA FileStep ==
  ASSUME ReuseInv, scans' = scans, FilesTyped', clock' >= clock
  PROVE  ReuseInv'
<1>1. PayloadBounds' /\ ScansTyped'
  BY DEF ReuseInv, PayloadBounds, ScansTyped, Scans, ScanRecord, States, OnDisk, Visiting, Path,
         Seen, StatId, Statuses, Blocks
<1>2. ASSUME NEW i \in Scans
      PROVE  Paced(scans[i])' /\ LoadedFits(scans[i])' /\ ReuseFits(scans[i])'
  <2>1. Paced(scans[i])'
    BY ScanFacts DEF Paced, Path, Inode, Unread, Failed, NoContent, Visiting, OnDisk
  <2>2. LoadedFits(scans[i])'
    BY ScanFacts DEF LoadedFits, Earlier, OnDisk
  <2>3. ReuseFits(scans[i])'
    BY ScanFacts DEF ReuseFits, ReuseHolds, DirectReuseEligible, Earlier, Path
  <2> QED
    BY <2>1, <2>2, <2>3
<1>3. ASSUME NEW i \in Scans
      PROVE  (scans[i].started <= clock)'
  <2>1. /\ scans[i].started \in Nat /\ scans[i].started <= clock /\ clock \in Nat
        /\ clock' \in Nat /\ scans'[i] = scans[i]
    BY ScanFacts DEF FilesTyped, PayloadBounds, ReuseInv
  <2> QED
    BY <2>1
<1>4. Ranked'
  BY DEF ReuseInv, Ranked, Ranks, Scans, Path
<1> QED
  BY <1>1, <1>2, <1>3, <1>4 DEF ReuseInv, Scans

LEMMA BlocksOf ==
  ASSUME NEW c \in Contents, NEW b \in 1..2
  PROVE  [c EXCEPT ![b] = 1 - @] \in Contents
<1>1. c[1] \in 0..1 /\ c[2] \in 0..1 /\ c = <<c[1], c[2]>>
  BY DEF Contents
<1>2. CASE b = 1
  <2>1. [c EXCEPT ![b] = 1 - @] = <<1 - c[1], c[2]>>
    BY <1>1, <1>2
  <2> QED
    BY <1>1, <2>1 DEF Contents
<1>3. CASE b = 2
  <2>1. [c EXCEPT ![b] = 1 - @] = <<c[1], 1 - c[2]>>
    BY <1>1, <1>3
  <2> QED
    BY <1>1, <2>1 DEF Contents
<1> QED
  BY <1>2, <1>3

LEMMA HoldTyped ==
  ASSUME FilesTyped, PayloadBounds, NEW n \in Inode, NEW c \in Contents, NEW x \in 0..MaxClock, Hold(n, c, x)
  PROVE  /\ inodes' \in [Inode -> [ctime: Nat, content: Contents]]
         /\ held' \subseteq [stat: StatId, content: Contents]
<1>1. [ctime |-> x, content |-> c] \in [ctime: Nat, content: Contents]
  BY DEF PayloadBounds
<1>2. [stat |-> [inode |-> n, ctime |-> x], content |-> c] \in [stat: StatId, content: Contents]
  BY DEF PayloadBounds, StatId, Inode
<1> QED
  BY <1>1, <1>2 DEF Hold, FilesTyped

LEMMA WriteTyped ==
  ASSUME ReuseInv, NEW p \in Path, Write(p)
  PROVE  FilesTyped' /\ clock' >= clock
<1>1. PICK b \in 1..2, x \in {clock, clock + 1} :
        /\ x <= MaxClock /\ clock' = x
        /\ Hold(names[p], [inodes[names[p]].content EXCEPT ![b] = 1 - @], x)
  BY DEF Write
<1>2. clock \in 0..MaxClock /\ names \in [Path -> 0..MaxInode] /\ names' = names /\ MaxClock \in Nat
      /\ MaxInode \in Nat
  BY DEF ReuseInv, FilesTyped, Write, PayloadBounds
<1>3. x \in 0..MaxClock /\ x >= clock
  BY <1>1, <1>2
<1>4. names[p] \in Inode
  BY <1>2 DEF Write, Inode
<1>5. inodes[names[p]].content \in Contents
  BY <1>4 DEF ReuseInv, FilesTyped
<1>6. [inodes[names[p]].content EXCEPT ![b] = 1 - @] \in Contents
  BY <1>5, BlocksOf
<1>7. /\ inodes' \in [Inode -> [ctime: Nat, content: Contents]]
      /\ held' \subseteq [stat: StatId, content: Contents]
  BY <1>1, <1>3, <1>4, <1>6, HoldTyped DEF ReuseInv
<1> QED
  BY <1>1, <1>2, <1>3, <1>7 DEF FilesTyped, Path, Inode, StatId, Contents

LEMMA ReplaceTyped ==
  ASSUME ReuseInv, NEW p \in Path, Replace(p)
  PROVE  FilesTyped' /\ clock' >= clock
<1>1. PICK n \in Inode : Hold(n, <<1, 1>>, clock) /\ names' = [names EXCEPT ![p] = n]
  BY DEF Replace
<1>2. clock \in 0..MaxClock /\ names \in [Path -> 0..MaxInode] /\ MaxClock \in Nat /\ clock' = clock
      /\ MaxInode \in Nat
  BY DEF ReuseInv, FilesTyped, Replace, PayloadBounds
<1>3. <<1, 1>> \in Contents
  BY DEF Contents
<1>4. /\ inodes' \in [Inode -> [ctime: Nat, content: Contents]]
      /\ held' \subseteq [stat: StatId, content: Contents]
  BY <1>1, <1>2, <1>3, HoldTyped DEF ReuseInv
<1>5. names' \in [Path -> 0..MaxInode]
  BY <1>1, <1>2 DEF Inode
<1> QED
  BY <1>2, <1>4, <1>5 DEF FilesTyped, Path, Inode, StatId, Contents

LEMMA DeleteTyped ==
  ASSUME ReuseInv, NEW p \in Path, Delete(p)
  PROVE  FilesTyped' /\ clock' >= clock
<1>1. clock \in 0..MaxClock /\ names \in [Path -> 0..MaxInode] /\ MaxClock \in Nat /\ MaxInode \in Nat
  BY DEF ReuseInv, FilesTyped, PayloadBounds
<1>2. names' \in [Path -> 0..MaxInode]
  BY <1>1 DEF Delete
<1> QED
  BY <1>1, <1>2 DEF ReuseInv, Delete, FilesTyped, Path, Inode, StatId, Contents

LEMMA BeginKeeps ==
  ASSUME ReuseInv, NEW i \in Scans, Begin(i)
  PROVE  ReuseInv'
<1> DEFINE s == scans[i]
           t == [s EXCEPT !.state = "began", !.started = clock]
<1>1. s \in ScanRecord /\ Paced(s) /\ s.state = "absent" /\ Set(i, t) /\ clock \in Nat
  BY ScanFacts DEF Begin
<1> HIDE DEF s
<1>2. t \in ScanRecord /\ t.state = "began" /\ t.started = clock /\ t.sources = s.sources
      /\ t.seen = s.seen /\ t.at = s.at /\ t.indexed = s.indexed
  BY <1>1 DEF ScanRecord, States
<1> HIDE DEF t
<1>3. Paced(t)
  BY <1>1, <1>2 DEF Paced, OnDisk, Visiting
<1>4. \A p \in Path : t.seen[p].source = 0
  BY <1>1, <1>2, Constants DEF Paced, ReuseInv
<1>5. Keeps(s, t) /\ LoadedFits(t) /\ ReuseFits(t)
  BY <1>1, <1>2, <1>4 DEF Keeps, OnDisk, LoadedFits, ReuseFits, Paced
<1>6. Ranked'
  BY <1>1, <1>2, <1>4, RankedKept DEF ReuseInv
<1> QED
  BY <1>1, <1>2, <1>3, <1>5, <1>6, ScanStep DEF s

LEMMA StatTyped ==
  ASSUME ReuseInv, NEW n \in Inode
  PROVE  Stat(n) \in StatId
<1>1. inodes[n] \in [ctime: Nat, content: Contents]
  BY DEF ReuseInv, FilesTyped
<1> QED
  BY <1>1 DEF Stat, StatId, Inode

LEMMA ScanMetadataKeeps ==
  ASSUME ReuseInv, NEW i \in Scans, ScanMetadata(i)
  PROVE  ReuseInv'
<1> DEFINE s == scans[i]
           st == [p \in Path |-> IF names[p] = 0 THEN NoStat ELSE Stat(names[p])]
           t == [s EXCEPT !.state = "probe", !.completed = clock, !.stat = st]
<1>1. s \in ScanRecord /\ Paced(s) /\ s.state = "began" /\ Set(i, t) /\ clock \in Nat /\ s.started <= clock
  BY ScanFacts DEF ScanMetadata
<1>2. st \in [Path -> StatId]
  <2>1. ASSUME NEW p \in Path, names[p] # 0
        PROVE  names[p] \in Inode
    BY <2>1 DEF ReuseInv, FilesTyped, Inode, PayloadBounds
  <2>2. NoStat \in StatId
    BY Constants DEF ReuseInv
  <2> QED
    BY <2>1, <2>2, StatTyped
<1> HIDE DEF s, st
<1>3. t \in ScanRecord /\ t.state = "probe" /\ t.completed = clock /\ t.started = s.started
      /\ t.sources = s.sources /\ t.seen = s.seen /\ t.at = s.at /\ t.indexed = s.indexed
  BY <1>1, <1>2 DEF ScanRecord, States, Visiting
<1> HIDE DEF t
<1>4. Paced(t)
  BY <1>1, <1>3, Constants DEF Paced, OnDisk, Visiting, Path, ReuseInv, PayloadBounds
<1>5. \A p \in Path : t.seen[p].source = 0
  BY <1>1, <1>3, Constants DEF Paced, ReuseInv
<1>6. Keeps(s, t) /\ LoadedFits(t) /\ ReuseFits(t)
  BY <1>1, <1>3, <1>5 DEF Keeps, OnDisk, LoadedFits, ReuseFits, Paced
<1>7. Ranked'
  BY <1>1, <1>3, <1>5, RankedKept DEF ReuseInv
<1> QED
  BY <1>1, <1>3, <1>4, <1>6, <1>7, ScanStep DEF s

\* A file that could not be read.
LEMMA FailedKeeps ==
  ASSUME ReuseInv, NEW i \in Scans, NEW r \in Statuses \ {"unread", "HASHED"},
         scans[i].state \in Visiting, Set(i, Observed(scans[i], Failed(r)))
  PROVE  ReuseInv'
<1>1. Failed(r) \in Seen /\ Failed(r).source = 0
  BY ScanFacts, Constants
<1>2. Failed(r) # Unread
  BY DEF Failed, Unread
<1> QED
  BY <1>1, <1>2, ScanFacts, ObservingStep

LEMMA NameTyped ==
  ASSUME ReuseInv, NEW p \in Path, names[p] # 0
  PROVE  names[p] \in Inode /\ Stat(names[p]) \in StatId
<1>1. names[p] \in Inode
  BY DEF ReuseInv, FilesTyped, PayloadBounds, Inode
<1> QED
  BY <1>1, StatTyped

LEMMA OpenedKeeps ==
  ASSUME ReuseInv, NEW i \in Scans, scans[i].state \in Visiting, NEW z \in {"probed", "half"},
         names[scans[i].at] # 0, Set(i, Opened(scans[i], z))
  PROVE  ReuseInv'
<1> DEFINE s == scans[i]
           n == names[s.at]
           st == Stat(n)
           t == [s EXCEPT !.fd = n, !.before = st, !.state = z]
<1>1. s \in ScanRecord /\ Paced(s) /\ s.at \in Path /\ Set(i, t) /\ LoadedFits(s)
  BY ScanFacts, Fields DEF Opened
<1>2. n \in Inode /\ n \in 0..MaxInode /\ st \in StatId
  BY <1>1, NameTyped DEF Inode, ReuseInv, PayloadBounds
<1> HIDE DEF n, st
<1>3. /\ t \in ScanRecord /\ t.seen = s.seen /\ t.stat = s.stat /\ t.started = s.started /\ t.at = s.at
      /\ t.completed = s.completed /\ t.sources = s.sources /\ t.indexed = s.indexed /\ t.state = z
      /\ t.fd = n
  BY <1>1, <1>2 DEF ScanRecord, States, Visiting
<1> HIDE DEF t
<1>4. Paced(t) /\ LoadedFits(t)
  BY <1>1, <1>2, <1>3 DEF Paced, Visiting, OnDisk, LoadedFits, Earlier
<1>5. s.state \notin OnDisk
  BY DEF Visiting, OnDisk
<1> QED
  BY <1>1, <1>3, <1>4, <1>5, QuietStep DEF OnDisk

LEMMA ProbeKeeps ==
  ASSUME ReuseInv, NEW i \in Scans, Probe(i)
  PROVE  ReuseInv'
<1> DEFINE s == scans[i]
<1>1. s.state = "probe" /\ s.state \in Visiting
  BY DEF Probe, Visiting
<1>2. CASE Set(i, Observed(s, Failed("METADATA_UNAVAILABLE")))
  BY <1>1, <1>2, FailedKeeps DEF Statuses
<1>3. CASE Set(i, Observed(s, Failed("NOT_LOCAL")))
  BY <1>1, <1>3, FailedKeeps DEF Statuses
<1>4. CASE names[s.at] # 0 /\ Set(i, Opened(s, "probed"))
  BY <1>1, <1>4, OpenedKeeps
<1>5. CASE Set(i, [s EXCEPT !.state = "open"])
  <2> DEFINE t == [s EXCEPT !.state = "open"]
  <2>1. s \in ScanRecord /\ Paced(s) /\ LoadedFits(s)
    BY ScanFacts
  <2>2. /\ t \in ScanRecord /\ t.seen = s.seen /\ t.stat = s.stat /\ t.started = s.started /\ t.at = s.at
        /\ t.completed = s.completed /\ t.sources = s.sources /\ t.indexed = s.indexed /\ t.state = "open"
    BY <2>1 DEF ScanRecord, States, Visiting
  <2>3. Paced(t) /\ LoadedFits(t)
    BY <1>1, <2>1, <2>2 DEF Paced, Visiting, OnDisk, LoadedFits, Earlier
  <2> HIDE DEF t
  <2> QED
    BY <1>1, <1>5, <2>2, <2>3, QuietStep DEF OnDisk, t
<1> QED
  BY <1>2, <1>3, <1>4, <1>5 DEF Probe

\* The candidates are Snapshots on disk that were complete before the scan began.
LEMMA CandidatesFit ==
  ASSUME ReuseInv, NEW i \in Scans
  PROVE  /\ Candidates(scans[i]) \subseteq Scans
         /\ \A j \in Candidates(scans[i]) : scans[j].state \in OnDisk /\ scans[j].completed <= scans[i].started
<1>1. scans[i].sources \subseteq Scans /\ LoadedFits(scans[i])
  BY ScanFacts, Fields
<1> QED
  BY <1>1 DEF Candidates, LoadedFits, Earlier

LEMMA ResolveKeeps ==
  ASSUME ReuseInv, NEW i \in Scans, Resolve(i)
  PROVE  ReuseInv'
<1> DEFINE s == scans[i]
           C == Candidates(s)
           t == [s EXCEPT !.sources = C, !.loaded = TRUE]
<1>1. s.state = "probed" /\ s.state \in Visiting /\ s \in ScanRecord /\ Paced(s) /\ s.at \in Path
  BY ScanFacts, Fields DEF Resolve, Visiting
<1>2. C \subseteq Scans /\ \A j \in C : scans[j].state \in OnDisk /\ scans[j].completed <= s.started
  BY CandidatesFit
<1>3. \/ Set(i, Observed(t, Failed("TIME_BUDGET_EXHAUSTED")))
      \/ Set(i, [t EXCEPT !.state = "raised"])
      \/ \E j \in Eligible(s, s.at, C) : Set(i, Observed(t, Hashed(scans[j].seen[s.at].digest, j)))
      \/ Set(i, [t EXCEPT !.state = "open", !.fd = 0])
  BY DEF Resolve
<1> HIDE DEF C
<1>4. /\ t \in ScanRecord /\ t.seen = s.seen /\ t.stat = s.stat /\ t.started = s.started /\ t.at = s.at
      /\ t.completed = s.completed /\ t.sources = C /\ t.indexed = s.indexed /\ t.state = "probed"
  BY <1>1, <1>2 DEF ScanRecord
<1> HIDE DEF t
<1>5. LoadedFits(t)
  BY <1>2, <1>4 DEF LoadedFits, Earlier
<1>6. CASE Set(i, Observed(t, Failed("TIME_BUDGET_EXHAUSTED")))
  <2> DEFINE o == Failed("TIME_BUDGET_EXHAUSTED")
  <2>1. o \in Seen /\ o.source = 0
    BY ScanFacts, Constants DEF Statuses
  <2>2. o # Unread
    BY DEF Failed, Unread
  <2> HIDE DEF o
  <2> QED
    BY <1>1, <1>4, <1>5, <1>6, <2>1, <2>2, ObservingStep DEF o
<1>7. CASE Set(i, [t EXCEPT !.state = "raised"])
  <2> DEFINE u == [t EXCEPT !.state = "raised"]
  <2>1. /\ u \in ScanRecord /\ u.seen = s.seen /\ u.stat = s.stat /\ u.started = s.started /\ u.at = s.at
        /\ u.completed = s.completed /\ u.sources = t.sources /\ u.indexed = s.indexed /\ u.state = "raised"
    BY <1>4 DEF ScanRecord, States
  <2> HIDE DEF u
  <2>2. Paced(u) /\ LoadedFits(u)
    BY <1>1, <1>4, <1>5, <2>1 DEF Paced, Visiting, OnDisk, LoadedFits, Earlier
  <2> QED
    BY <1>1, <1>7, <2>1, <2>2, QuietStep DEF OnDisk, u
<1>8. CASE \E j \in Eligible(s, s.at, C) : Set(i, Observed(t, Hashed(scans[j].seen[s.at].digest, j)))
  <2>1. PICK j \in C : /\ ValidSnapshots[j] /\ DirectReuseEligible(s, j, s.at)
                       /\ Set(i, Observed(t, Hashed(scans[j].seen[s.at].digest, j)))
    BY <1>8 DEF Eligible
  <2> DEFINE d == scans[j].seen[s.at].digest
             o == Hashed(d, j)
  <2>2. scans[j].state = "closed"
    <3>1. ValidBody(ValidSnapshots, j)
      BY <1>2, <2>1, ValidUnfolds DEF ReuseInv
    <3> QED
      BY <3>1 DEF ValidBody
  <2>3. d \in Blocks
    BY <1>1, <1>2, SourcesAreScans DEF ReuseInv, Seen
  <2> HIDE DEF d
  <2>4. o \in Seen /\ o.source = j /\ o.digest = d /\ o.status = "HASHED"
    BY <1>2, <2>3, ScanFacts DEF Hashed, Seen, Statuses, Scans, PayloadBounds
  <2>5. o # Unread
    BY <2>4, ScanFacts, Constants
  <2>6. Earlier(t, j) /\ DirectReuseEligible(t, j, t.at)
    BY <1>2, <1>4, <2>1 DEF Earlier, DirectReuseEligible
  <2>7. Set(i, Observed(t, o)) /\ d = scans[j].seen[t.at].digest
    BY <1>4, <2>1 DEF d
  <2> HIDE DEF o
  <2> QED
    BY <1>1, <1>4, <1>5, <2>2, <2>4, <2>5, <2>6, <2>7, ObservingStep
<1>9. CASE Set(i, [t EXCEPT !.state = "open", !.fd = 0])
  <2> DEFINE u == [t EXCEPT !.state = "open", !.fd = 0]
  <2>1. /\ u \in ScanRecord /\ u.seen = s.seen /\ u.stat = s.stat /\ u.started = s.started /\ u.at = s.at
        /\ u.completed = s.completed /\ u.sources = t.sources /\ u.indexed = s.indexed /\ u.state = "open"
    BY <1>4, ScanFacts, Constants DEF ScanRecord, States, Visiting
  <2> HIDE DEF u
  <2>2. Paced(u) /\ LoadedFits(u)
    BY <1>1, <1>4, <1>5, <2>1 DEF Paced, Visiting, OnDisk, LoadedFits, Earlier
  <2> QED
    BY <1>1, <1>9, <2>1, <2>2, QuietStep DEF OnDisk, u
<1> QED
  BY <1>3, <1>6, <1>7, <1>8, <1>9

LEMMA OpenKeeps ==
  ASSUME ReuseInv, NEW i \in Scans, Open(i)
  PROVE  ReuseInv'
<1>1. scans[i].state = "open" /\ scans[i].state \in Visiting
  BY DEF Open, Visiting
<1>2. CASE Set(i, Observed(scans[i], Failed("NOT_FOUND_DURING_READ")))
  BY <1>1, <1>2, FailedKeeps DEF Statuses
<1>3. CASE Set(i, Observed(scans[i], Failed("CHANGED_DURING_READ")))
  BY <1>1, <1>3, FailedKeeps DEF Statuses
<1>4. CASE names[scans[i].at] # 0 /\ Set(i, Opened(scans[i], "half"))
  BY <1>1, <1>4, OpenedKeeps
<1> QED
  BY <1>2, <1>3, <1>4 DEF Open

LEMMA BlockRead ==
  ASSUME NEW c \in Blocks, NEW x \in 0..2
  PROVE  /\ [c EXCEPT ![1] = x] \in Blocks /\ [c EXCEPT ![1] = x] = <<x, c[2]>>
         /\ [c EXCEPT ![2] = x] \in Blocks /\ [c EXCEPT ![2] = x] = <<c[1], x>>
<1>1. c[1] \in 0..2 /\ c[2] \in 0..2 /\ c = <<c[1], c[2]>>
  BY DEF Blocks
<1>2. [c EXCEPT ![1] = x] = <<x, c[2]>> /\ [c EXCEPT ![2] = x] = <<c[1], x>>
  BY <1>1
<1> QED
  BY <1>1, <1>2 DEF Blocks

\* What is read of an open file.
LEMMA BlockTyped ==
  ASSUME ReuseInv, NEW n \in Inode
  PROVE  /\ inodes[n].content \in Contents /\ inodes[n].content[1] \in 0..2
         /\ inodes[n].content[2] \in 0..2
         /\ inodes[n].content = <<inodes[n].content[1], inodes[n].content[2]>>
<1>1. inodes[n] \in [ctime: Nat, content: Contents]
  BY DEF ReuseInv, FilesTyped
<1>2. inodes[n].content \in Contents
  BY <1>1
<1> QED
  BY <1>2 DEF Contents

LEMMA ReadHalfKeeps ==
  ASSUME ReuseInv, NEW i \in Scans, ReadHalf(i)
  PROVE  ReuseInv'
<1> DEFINE s == scans[i]
           x == inodes[s.fd].content[1]
           c == [s.read EXCEPT ![1] = x]
           t == [s EXCEPT !.read = c, !.state = "check"]
<1>1. /\ s.state = "half" /\ s.state \in Visiting /\ s \in ScanRecord /\ Paced(s) /\ LoadedFits(s)
      /\ s.read \in Blocks
  BY ScanFacts, Fields DEF ReadHalf, Visiting
<1>2. s.fd \in Inode
  BY <1>1 DEF Paced
<1>3. c \in Blocks
  BY <1>1, <1>2, BlockTyped, BlockRead
<1>4. Set(i, Observed(s, Failed("TIME_BUDGET_EXHAUSTED"))) \/ Set(i, t)
  BY DEF ReadHalf
<1>5. CASE Set(i, Observed(s, Failed("TIME_BUDGET_EXHAUSTED")))
  BY <1>1, <1>5, FailedKeeps DEF Statuses
<1>6. CASE Set(i, t)
  <2> HIDE DEF c
  <2>1. /\ t \in ScanRecord /\ t.seen = s.seen /\ t.stat = s.stat /\ t.started = s.started /\ t.at = s.at
        /\ t.completed = s.completed /\ t.sources = s.sources /\ t.indexed = s.indexed /\ t.state = "check"
        /\ t.fd = s.fd
    BY <1>1, <1>3 DEF ScanRecord, States, Visiting
  <2> HIDE DEF t
  <2>2. Paced(t) /\ LoadedFits(t)
    BY <1>1, <2>1 DEF Paced, Visiting, OnDisk, LoadedFits, Earlier
  <2> QED
    BY <1>1, <1>6, <2>1, <2>2, QuietStep DEF OnDisk
<1> QED
  BY <1>4, <1>5, <1>6

LEMMA ReadRestKeeps ==
  ASSUME ReuseInv, NEW i \in Scans, ReadRest(i)
  PROVE  ReuseInv'
<1> DEFINE s == scans[i]
           x == inodes[s.fd].content[2]
           c == [s.read EXCEPT ![2] = x]
           o == Hashed(c, 0)
<1>1. /\ s.state = "check" /\ s.state \in Visiting /\ s \in ScanRecord /\ Paced(s) /\ LoadedFits(s)
      /\ s.read \in Blocks
  BY ScanFacts, Fields DEF ReadRest, Visiting
<1>2. s.fd \in Inode
  BY <1>1 DEF Paced
<1>3. c \in Blocks
  BY <1>1, <1>2, BlockTyped, BlockRead
<1>4. Set(i, Observed(s, o)) \/ Set(i, Observed(s, Failed("CHANGED_DURING_READ")))
  BY DEF ReadRest
<1>5. CASE Set(i, Observed(s, o))
  <2> HIDE DEF c
  <2>1. o \in Seen /\ o.source = 0 /\ o.status = "HASHED"
    BY <1>3, ScanFacts DEF Hashed, Seen, Statuses, PayloadBounds
  <2>2. o # Unread
    BY <2>1, ScanFacts, Constants
  <2> HIDE DEF o
  <2> QED
    BY <1>1, <1>5, <2>1, <2>2, ObservingStep
<1>6. CASE Set(i, Observed(s, Failed("CHANGED_DURING_READ")))
  BY <1>1, <1>6, FailedKeeps DEF Statuses
<1> QED
  BY <1>4, <1>5, <1>6

LEMMA PersistingKeeps ==
  ASSUME ReuseInv, NEW i \in Scans,
         WriteEvidence(i) \/ CommitRows(i) \/ CloseRun(i) \/ Crash(i) \/ Damage(i)
  PROVE  ReuseInv'
<1> DEFINE s == scans[i]
<1>1. s \in ScanRecord /\ Paced(s) /\ LoadedFits(s)
  BY ScanFacts
<1>2. ASSUME s.state \in OnDisk \cup {"persist"},
             NEW z \in OnDisk, NEW b \in BOOLEAN, NEW w \in BOOLEAN,
             s.state = "closed" => z = "closed", b => z \in {"indexed", "closed", "orphaned"},
             Set(i, [s EXCEPT !.state = z, !.indexed = b, !.whole = w])
      PROVE  ReuseInv'
  <2> DEFINE t == [s EXCEPT !.state = z, !.indexed = b, !.whole = w]
  <2>1. /\ t \in ScanRecord /\ t.seen = s.seen /\ t.stat = s.stat /\ t.started = s.started /\ t.at = s.at
        /\ t.completed = s.completed /\ t.sources = s.sources /\ t.indexed = b /\ t.state = z
    BY <1>1 DEF ScanRecord, States
  <2> HIDE DEF t
  <2>2. s.started <= s.completed /\ \A p \in Path : s.seen[p] # Unread
    BY <1>1, <1>2 DEF Paced, OnDisk
  <2>3. Paced(t)
    BY <1>2, <2>1, <2>2 DEF Paced, Visiting, OnDisk
  <2>4. LoadedFits(t)
    BY <1>1, <2>1 DEF LoadedFits, Earlier
  <2> QED
    BY <1>2, <2>1, <2>3, <2>4, QuietStep DEF t
<1>3. s.indexed \in BOOLEAN /\ s.whole \in BOOLEAN
  BY <1>1, Fields
<1>4. CASE WriteEvidence(i)
  <2>1. s.state = "persist" /\ ~s.indexed
    BY <1>1, <1>4 DEF WriteEvidence, Paced
  <2>2. CASE ReferencesHold(s)
    <3>1. Set(i, [s EXCEPT !.state = "evidence", !.indexed = s.indexed, !.whole = s.whole])
      BY <1>1, <1>4, <2>2 DEF WriteEvidence, ScanRecord
    <3> QED
      BY <1>2, <1>3, <2>1, <3>1 DEF OnDisk
  <2>3. CASE ~ReferencesHold(s)
    <3> DEFINE t == [s EXCEPT !.state = "refused"]
    <3>1. /\ t \in ScanRecord /\ t.seen = s.seen /\ t.stat = s.stat /\ t.started = s.started /\ t.at = s.at
          /\ t.completed = s.completed /\ t.sources = s.sources /\ t.indexed = s.indexed
          /\ t.state = "refused"
      BY <1>1 DEF ScanRecord, States
    <3>2. Set(i, t)
      BY <1>4, <2>3 DEF WriteEvidence
    <3> HIDE DEF t
    <3>3. Paced(t)
      BY <1>1, <2>1, <3>1 DEF Paced, Visiting, OnDisk
    <3>4. LoadedFits(t)
      BY <1>1, <3>1 DEF LoadedFits, Earlier
    <3> QED
      BY <2>1, <3>1, <3>2, <3>3, <3>4, QuietStep DEF OnDisk
  <2> QED
    BY <2>2, <2>3
<1>5. CASE CommitRows(i)
  <2>1. Set(i, [s EXCEPT !.state = "indexed", !.indexed = TRUE, !.whole = s.whole])
    BY <1>1, <1>5 DEF CommitRows, ScanRecord
  <2> QED
    BY <1>2, <1>3, <1>5, <2>1 DEF OnDisk, CommitRows
<1>6. CASE CloseRun(i)
  <2>1. Set(i, [s EXCEPT !.state = "closed", !.indexed = s.indexed, !.whole = s.whole])
    BY <1>1, <1>6 DEF CloseRun, ScanRecord
  <2> QED
    BY <1>2, <1>3, <1>6, <2>1 DEF OnDisk, CloseRun
<1>7. CASE Crash(i)
  <2>1. Set(i, [s EXCEPT !.state = "orphaned", !.indexed = s.indexed, !.whole = s.whole])
    BY <1>1, <1>7 DEF Crash, ScanRecord
  <2> QED
    BY <1>2, <1>3, <1>7, <2>1 DEF OnDisk, Crash
<1>8. CASE Damage(i)
  <2>1. Set(i, [s EXCEPT !.state = s.state, !.indexed = s.indexed, !.whole = FALSE])
    BY <1>1, <1>8 DEF Damage, ScanRecord
  <2>2. s.indexed => s.state \in {"indexed", "closed", "orphaned"}
    BY <1>1 DEF Paced
  <2> QED
    BY <1>2, <1>3, <1>8, <2>1, <2>2 DEF OnDisk, Damage
<1> QED
  BY <1>4, <1>5, <1>6, <1>7, <1>8

LEMMA ReuseInvNext ==
  ASSUME ReuseInv, [Next]_vars
  PROVE  ReuseInv'
<1>1. CASE \E p \in Path : Write(p) \/ Replace(p) \/ Delete(p)
  <2>1. PICK p \in Path : Write(p) \/ Replace(p) \/ Delete(p)
    BY <1>1
  <2>2. FilesTyped' /\ clock' >= clock
    BY <2>1, WriteTyped, ReplaceTyped, DeleteTyped
  <2>3. scans' = scans
    BY <2>1 DEF Write, Replace, Delete
  <2> QED
    BY <2>2, <2>3, FileStep
<1>2. CASE \E i \in Scans :
             \/ Begin(i) \/ ScanMetadata(i) \/ Probe(i) \/ Resolve(i) \/ Open(i) \/ ReadHalf(i)
             \/ ReadRest(i) \/ WriteEvidence(i) \/ CommitRows(i) \/ CloseRun(i) \/ Crash(i) \/ Damage(i)
  BY <1>2, BeginKeeps, ScanMetadataKeeps, ProbeKeeps, ResolveKeeps, OpenKeeps, ReadHalfKeeps,
     ReadRestKeeps, PersistingKeeps
<1>3. CASE UNCHANGED vars
  <2>1. clock \in 0..MaxClock /\ MaxClock \in Nat
    BY DEF ReuseInv, FilesTyped, PayloadBounds
  <2>2. FilesTyped' /\ clock' >= clock /\ scans' = scans
    BY <1>3, <2>1 DEF ReuseInv, vars, FilesTyped, Path, Inode, StatId, Contents
  <2> QED
    BY <2>2, FileStep
<1> QED
  BY <1>1, <1>2, <1>3 DEF Next

LEMMA ReuseInvInit ==
  ASSUME PayloadBounds, Init
  PROVE  ReuseInv
<1>1. FilesTyped
  <2>1. <<0, 0>> \in Contents
    BY DEF Contents
  <2>2. [ctime |-> 0, content |-> <<0, 0>>] \in [ctime: Nat, content: Contents]
    BY <2>1
  <2>3. \A n \in 1..Paths : [stat |-> [inode |-> n, ctime |-> 0], content |-> <<0, 0>>]
                               \in [stat: StatId, content: Contents]
    BY <2>1 DEF StatId, PayloadBounds
  <2>4. \A p \in Path : p \in 0..MaxInode
    BY DEF Path, PayloadBounds
  <2>5. /\ clock \in 0..MaxClock /\ names \in [Path -> 0..MaxInode]
        /\ inodes \in [Inode -> [ctime: Nat, content: Contents]]
    BY <2>2, <2>4 DEF Init, PayloadBounds
  <2>6. held \subseteq [stat: StatId, content: Contents]
    BY <2>3 DEF Init
  <2> QED
    BY <2>5, <2>6 DEF FilesTyped
<1>2. ScansTyped /\ \A i \in Scans : scans[i] = NewScan
  BY NewScanTyped DEF Init, ScansTyped
<1>3. /\ NewScan.state = "absent" /\ NewScan.started = 0 /\ NewScan.indexed = FALSE
      /\ NewScan.sources = {} /\ NewScan.seen = [p \in Path |-> Unread] /\ NewScan.at = 1
  BY DEF NewScan
<1>4. Paced(NewScan) /\ LoadedFits(NewScan)
  BY <1>3 DEF Paced, LoadedFits, Visiting, OnDisk
<1>5. \A p \in Path : NewScan.seen[p].source = 0
  BY <1>3, Constants
<1>6. \A i \in Scans : ReuseFits(scans[i])
  BY <1>2, <1>5 DEF ReuseFits
<1>7. Ranked
  <2>1. Ranks([i \in Scans |-> 0])
    BY <1>2, <1>5 DEF Ranks
  <2> QED
    BY <2>1 DEF Ranked
<1>8. \A i \in Scans : scans[i].started <= clock
  BY <1>2, <1>3 DEF Init
<1> QED
  BY <1>1, <1>2, <1>4, <1>6, <1>7, <1>8 DEF ReuseInv

-----------------------------------------------------------------------------
(* Closed Snapshots are VALID: the least one that is not would have all    *)
(* its sources VALID.                                                      *)

LEMMA LeastRanked ==
  ASSUME NEW rank \in [Scans -> Nat], NEW S \in SUBSET Scans, S # {}
  PROVE  \E i \in S : \A j \in S : ~(rank[j] < rank[i])
<1> DEFINE T == {rank[i] : i \in S}
           R == {ss \in Nat \X Nat : ss[1] < ss[2]}
<1>1. T \in SUBSET Nat /\ T # {}
  OBVIOUS
<1>2. IsWellFoundedOn(R, Nat)
  BY NatLessThanWellFounded, Zenon DEF OpToRel
<1>3. PICK m \in T : \A y \in T : ~(<<y, m>> \in R)
  <2> HIDE DEF T, R
  <2> QED
    BY <1>1, <1>2, WFMin, Zenon
<1>4. \A y \in T : ~(y < m)
  BY <1>1, <1>3
<1> QED
  BY <1>3, <1>4

LEMMA ClosedAreValid ==
  ASSUME ReuseInv, \A i \in Scans : scans[i].whole
  PROVE  \A i \in Scans : scans[i].state = "closed" => ValidSnapshots[i]
<1> DEFINE S == {i \in Scans : scans[i].state = "closed" /\ ~ValidSnapshots[i]}
<1> SUFFICES ASSUME S # {}
             PROVE  FALSE
  OBVIOUS
<1>1. PICK rank \in [Scans -> Nat] : Ranks(rank)
  BY DEF ReuseInv, Ranked
<1>2. PICK i \in S : \A j \in S : ~(rank[j] < rank[i])
  BY LeastRanked
<1>3. i \in Scans /\ scans[i].state = "closed" /\ ~ValidSnapshots[i]
  OBVIOUS
<1>4. ASSUME NEW p \in Path, scans[i].seen[p].source # 0
      PROVE  ReuseHolds(scans[i], p) /\ ValidSnapshots[scans[i].seen[p].source]
  <2> DEFINE j == scans[i].seen[p].source
  <2>1. j \in Scans
    BY <1>3, <1>4, SourcesAreScans DEF ReuseInv
  <2>2. scans[j].state = "closed" /\ ReuseHolds(scans[i], p)
    BY <1>3, <1>4 DEF ReuseInv, ReuseFits
  <2>3. rank[j] < rank[i]
    BY <1>1, <1>3, <1>4 DEF Ranks
  <2> QED
    BY <1>2, <2>1, <2>2, <2>3
<1>5. ValidBody(ValidSnapshots, i)
  BY <1>3, <1>4 DEF ValidBody
<1> QED
  BY <1>3, <1>5, ValidUnfolds DEF ReuseInv

\* While nothing is damaged no scan is refused: what it took still fits, and
\* the sources are closed, so they are VALID.
Unrefused == (\A i \in Scans : scans[i].whole) => \A i \in Scans : scans[i].state # "refused"

LEMMA ReferencesStillHold ==
  ASSUME ReuseInv, \A k \in Scans : scans[k].whole, NEW i \in Scans
  PROVE  ReferencesHold(scans[i])
<1> SUFFICES ASSUME NEW p \in Path, scans[i].seen[p].source # 0
             PROVE  ReuseHolds(scans[i], p) /\ ValidSnapshots[scans[i].seen[p].source]
  BY DEF ReferencesHold
<1>1. scans[i].seen[p].source \in Scans
  BY SourcesAreScans DEF ReuseInv
<1>2. scans[scans[i].seen[p].source].state = "closed" /\ ReuseHolds(scans[i], p)
  BY DEF ReuseInv, ReuseFits
<1> QED
  BY <1>1, <1>2, ClosedAreValid

\* One scan steps, is not refused and does not become whole again.
LEMMA OthersStayUnrefused ==
  ASSUME ScansTyped, Unrefused, NEW i \in Scans, NEW t, Set(i, t),
         t.whole => scans[i].whole, t.state # "refused"
  PROVE  Unrefused'
<1>1. scans'[i] = t /\ \A j \in Scans \ {i} : scans'[j] = scans[j]
  BY DEF Set, ScansTyped
<1> QED
  BY <1>1 DEF Unrefused

LEMMA ObservedStaysUnrefused ==
  ASSUME ReuseInv, Unrefused, NEW i \in Scans, NEW u \in ScanRecord, NEW o \in Seen,
         u.whole = scans[i].whole, Set(i, Observed(u, o))
  PROVE  Unrefused'
<1>1. Observed(u, o).whole = u.whole /\ Observed(u, o).state # "refused"
  BY ObservedDoes DEF ReuseInv
<1> QED
  BY <1>1, OthersStayUnrefused DEF ReuseInv

LEMMA ResolveUnrefused ==
  ASSUME ReuseInv, Unrefused, NEW i \in Scans, Resolve(i)
  PROVE  Unrefused'
<1> DEFINE s == scans[i]
           C == Candidates(s)
           t == [s EXCEPT !.sources = C, !.loaded = TRUE]
<1>1. s \in ScanRecord /\ s.at \in Path /\ C \subseteq Scans
  BY ScanFacts, Fields, CandidatesFit
<1>2. \/ Set(i, Observed(t, Failed("TIME_BUDGET_EXHAUSTED")))
      \/ Set(i, [t EXCEPT !.state = "raised"])
      \/ \E j \in Eligible(s, s.at, C) : Set(i, Observed(t, Hashed(scans[j].seen[s.at].digest, j)))
      \/ Set(i, [t EXCEPT !.state = "open", !.fd = 0])
  BY DEF Resolve
<1>3. Eligible(s, s.at, C) \subseteq Scans
  BY <1>1 DEF Eligible
<1> HIDE DEF C
<1>4. t \in ScanRecord /\ t.whole = s.whole
  BY <1>1 DEF ScanRecord
<1> HIDE DEF t
<1>5. CASE Set(i, Observed(t, Failed("TIME_BUDGET_EXHAUSTED")))
  <2>1. Failed("TIME_BUDGET_EXHAUSTED") \in Seen
    BY ScanFacts, Constants DEF Statuses
  <2> QED
    BY <1>4, <1>5, <2>1, ObservedStaysUnrefused
<1>6. CASE Set(i, [t EXCEPT !.state = "raised"])
  <2>1. [t EXCEPT !.state = "raised"].whole = s.whole /\ [t EXCEPT !.state = "raised"].state = "raised"
    BY <1>4 DEF ScanRecord
  <2> QED
    BY <1>6, <2>1, OthersStayUnrefused DEF ReuseInv
<1>7. CASE \E j \in Eligible(s, s.at, C) : Set(i, Observed(t, Hashed(scans[j].seen[s.at].digest, j)))
  <2>1. PICK j \in Scans : Set(i, Observed(t, Hashed(scans[j].seen[s.at].digest, j)))
    BY <1>3, <1>7
  <2> DEFINE d == scans[j].seen[s.at].digest
  <2>2. d \in Blocks
    BY <1>1, SourcesAreScans DEF ReuseInv, Seen
  <2> HIDE DEF d
  <2>3. Hashed(d, j) \in Seen
    BY <2>2, ScanFacts DEF Hashed, Seen, Statuses, Scans, PayloadBounds
  <2> QED
    BY <1>4, <2>1, <2>3, ObservedStaysUnrefused DEF d
<1>8. CASE Set(i, [t EXCEPT !.state = "open", !.fd = 0])
  <2> DEFINE u == [t EXCEPT !.state = "open", !.fd = 0]
  <2>1. u.whole = s.whole /\ u.state = "open"
    BY <1>4 DEF ScanRecord
  <2> HIDE DEF u
  <2> QED
    BY <1>8, <2>1, OthersStayUnrefused DEF ReuseInv, u
<1> QED
  BY <1>2, <1>5, <1>6, <1>7, <1>8

\* A step of one scan that is neither an observation nor its persisting.
LEMMA SteppingUnrefused ==
  ASSUME ReuseInv, Unrefused, NEW i \in Scans,
         \/ Begin(i) \/ ScanMetadata(i) \/ CommitRows(i) \/ CloseRun(i) \/ Crash(i) \/ Damage(i)
  PROVE  Unrefused'
<1> DEFINE s == scans[i]
<1>1. s \in ScanRecord
  BY ScanFacts
<1>2. ASSUME NEW t, Set(i, t), t.whole => s.whole, t.state # "refused"
      PROVE  Unrefused'
  BY <1>2, OthersStayUnrefused DEF ReuseInv
<1>3. CASE Begin(i)
  <2> DEFINE t == [s EXCEPT !.state = "began", !.started = clock]
  <2>1. Set(i, t) /\ t.whole = s.whole /\ t.state = "began"
    BY <1>1, <1>3 DEF Begin, ScanRecord
  <2> HIDE DEF t
  <2> QED
    BY <1>2, <2>1
<1>4. CASE ScanMetadata(i)
  <2> DEFINE m == [p \in Path |-> IF names[p] = 0 THEN NoStat ELSE Stat(names[p])]
             t == [s EXCEPT !.state = "probe", !.completed = clock, !.stat = m]
  <2>1. Set(i, t)
    BY <1>4 DEF ScanMetadata
  <2> HIDE DEF m
  <2>2. t.whole = s.whole /\ t.state = "probe"
    BY <1>1 DEF ScanRecord
  <2> HIDE DEF t
  <2> QED
    BY <1>2, <2>1, <2>2
<1>5. CASE CommitRows(i)
  <2> DEFINE t == [s EXCEPT !.state = "indexed", !.indexed = TRUE]
  <2>1. Set(i, t) /\ t.whole = s.whole /\ t.state = "indexed"
    BY <1>1, <1>5 DEF CommitRows, ScanRecord
  <2> HIDE DEF t
  <2> QED
    BY <1>2, <2>1
<1>6. ASSUME NEW z \in {"closed", "orphaned"}, Set(i, [s EXCEPT !.state = z])
      PROVE  Unrefused'
  <2> DEFINE t == [s EXCEPT !.state = z]
  <2>1. t.whole = s.whole /\ t.state = z
    BY <1>1 DEF ScanRecord
  <2> HIDE DEF t
  <2> QED
    BY <1>2, <1>6, <2>1 DEF t
<1>7. CASE Damage(i)
  <2> DEFINE t == [s EXCEPT !.whole = FALSE]
  <2>1. Set(i, t) /\ s.state \in OnDisk
    BY <1>7 DEF Damage
  <2>2. t.whole = FALSE /\ t.state = s.state
    BY <1>1 DEF ScanRecord
  <2> HIDE DEF t
  <2> QED
    BY <1>2, <2>1, <2>2 DEF OnDisk
<1>8. CASE CloseRun(i)
  BY <1>6, <1>8 DEF CloseRun
<1>9. CASE Crash(i)
  BY <1>6, <1>9 DEF Crash
<1> QED
  BY <1>3, <1>4, <1>5, <1>7, <1>8, <1>9

\* One look at the next file: an observation, or on to the next look.
LEMMA LookingUnrefused ==
  ASSUME ReuseInv, Unrefused, NEW i \in Scans, Probe(i) \/ Open(i) \/ ReadHalf(i) \/ ReadRest(i)
  PROVE  Unrefused'
<1> DEFINE s == scans[i]
<1>1. s \in ScanRecord
  BY ScanFacts
<1>2. ASSUME NEW x \in Statuses, Set(i, Observed(s, Failed(x)))
      PROVE  Unrefused'
  <2>1. Failed(x) \in Seen
    BY ScanFacts, Constants
  <2> QED
    BY <1>1, <1>2, <2>1, ObservedStaysUnrefused
<1>3. ASSUME NEW z \in {"probed", "half"}, Set(i, Opened(s, z))
      PROVE  Unrefused'
  <2>1. Opened(s, z).whole = s.whole /\ Opened(s, z).state = z
    BY <1>1 DEF Opened, ScanRecord
  <2> QED
    BY <1>3, <2>1, OthersStayUnrefused DEF ReuseInv
<1>4. CASE Probe(i)
  <2>1. \/ Set(i, Observed(s, Failed("METADATA_UNAVAILABLE"))) \/ Set(i, Observed(s, Failed("NOT_LOCAL")))
        \/ Set(i, Opened(s, "probed")) \/ Set(i, [s EXCEPT !.state = "open"])
    BY <1>4 DEF Probe
  <2>2. CASE Set(i, [s EXCEPT !.state = "open"])
    <3>1. [s EXCEPT !.state = "open"].whole = s.whole /\ [s EXCEPT !.state = "open"].state = "open"
      BY <1>1 DEF ScanRecord
    <3> QED
      BY <2>2, <3>1, OthersStayUnrefused DEF ReuseInv
  <2> QED
    BY <1>2, <1>3, <2>1, <2>2 DEF Statuses
<1>5. CASE Open(i)
  BY <1>2, <1>3, <1>5 DEF Open, Statuses
<1>6. CASE ReadHalf(i)
  <2> DEFINE t == [s EXCEPT !.read[1] = inodes[s.fd].content[1], !.state = "check"]
  <2>1. Set(i, Observed(s, Failed("TIME_BUDGET_EXHAUSTED"))) \/ Set(i, t)
    BY <1>6 DEF ReadHalf
  <2>2. t.whole = s.whole /\ t.state = "check"
    BY <1>1 DEF ScanRecord
  <2> HIDE DEF t
  <2>3. CASE Set(i, t)
    BY <2>2, <2>3, OthersStayUnrefused DEF ReuseInv
  <2> QED
    BY <1>2, <2>1, <2>3 DEF Statuses
<1>7. CASE ReadRest(i)
  <2> DEFINE x == inodes[s.fd].content[2]
             c == [s.read EXCEPT ![2] = x]
  <2>1. s.state = "check" /\ Paced(s) /\ s.read \in Blocks
    BY <1>7, ScanFacts, Fields DEF ReadRest
  <2>2. s.fd \in Inode
    BY <2>1 DEF Paced
  <2>3. c \in Blocks
    BY <2>1, <2>2, BlockTyped, BlockRead
  <2>4. Set(i, Observed(s, Hashed(c, 0))) \/ Set(i, Observed(s, Failed("CHANGED_DURING_READ")))
    BY <1>7 DEF ReadRest
  <2> HIDE DEF c
  <2>5. Hashed(c, 0) \in Seen
    BY <2>3, ScanFacts DEF Hashed, Seen, Statuses, PayloadBounds
  <2>6. CASE Set(i, Observed(s, Hashed(c, 0)))
    BY <1>1, <2>5, <2>6, ObservedStaysUnrefused
  <2> QED
    BY <1>2, <2>4, <2>6 DEF Statuses
<1> QED
  BY <1>4, <1>5, <1>6, <1>7

LEMMA UnrefusedNext ==
  ASSUME ReuseInv, Unrefused, [Next]_vars
  PROVE  Unrefused'
<1>1. CASE scans' = scans
  BY <1>1 DEF Unrefused
<1>2. ASSUME NEW i \in Scans, WriteEvidence(i)
      PROVE  Unrefused'
  <2> DEFINE s == scans[i]
             t == [s EXCEPT !.state = IF ReferencesHold(s) THEN "evidence" ELSE "refused"]
  <2>1. Set(i, t)
    BY <1>2 DEF WriteEvidence
  <2>2. t.whole = s.whole /\ (ReferencesHold(s) => t.state = "evidence")
    BY ScanFacts DEF ScanRecord
  <2> HIDE DEF t
  <2>3. scans'[i] = t /\ \A j \in Scans \ {i} : scans'[j] = scans[j]
    BY <2>1 DEF Set, ReuseInv, ScansTyped
  <2>4. SUFFICES ASSUME \A k \in Scans : scans'[k].whole
                 PROVE  \A k \in Scans : scans'[k].state # "refused"
    BY DEF Unrefused
  <2>5. \A k \in Scans : scans[k].whole
    BY <2>2, <2>3, <2>4
  <2>6. t.state = "evidence"
    BY <2>2, <2>5, ReferencesStillHold
  <2> QED
    BY <2>3, <2>5, <2>6 DEF Unrefused
<1>3. CASE \E p \in Path : Write(p) \/ Replace(p) \/ Delete(p)
  BY <1>1, <1>3 DEF Write, Replace, Delete
<1>4. CASE UNCHANGED vars
  BY <1>1, <1>4 DEF vars
<1>5. CASE \E i \in Scans :
             \/ Begin(i) \/ ScanMetadata(i) \/ Probe(i) \/ Resolve(i) \/ Open(i) \/ ReadHalf(i)
             \/ ReadRest(i) \/ WriteEvidence(i) \/ CommitRows(i) \/ CloseRun(i) \/ Crash(i) \/ Damage(i)
  BY <1>2, <1>5, ResolveUnrefused, SteppingUnrefused, LookingUnrefused
<1> QED
  BY <1>3, <1>4, <1>5 DEF Next

LEMMA ReuseIsDirect ==
  ASSUME ReuseInv
  PROVE  OneStepFromARead
BY DEF ReuseInv, ReuseFits, ReuseHolds, Earlier, DirectReuseEligible, OneStepFromARead

LEMMA TypesFollow ==
  ASSUME ReuseInv
  PROVE  PayloadTypeOK
<1>1. clock \in 0..MaxClock /\ names \in [Path -> 0..MaxInode]
  BY DEF ReuseInv, FilesTyped
<1>2. ASSUME NEW i \in Scans
      PROVE  /\ scans[i].state \in {"absent", "began", "probe", "probed", "open", "half", "check",
                                    "persist", "raised", "refused"} \cup OnDisk
             /\ scans[i].started <= scans[i].completed \/ scans[i].state \in {"absent", "began"}
             /\ scans[i].indexed => scans[i].state \in {"indexed", "closed", "orphaned"}
             /\ scans[i].state \in OnDisk => \A p \in Path : scans[i].seen[p] # Unread
  BY ScanFacts, Fields DEF States, Visiting, Paced
<1>3. ASSUME NEW i \in Scans, NEW p \in Path, scans[i].seen[p].source = i
      PROVE  FALSE
  <2>1. PICK rank \in [Scans -> Nat] : Ranks(rank)
    BY DEF ReuseInv, Ranked
  <2>2. i # 0
    BY ScanFacts, Constants
  <2> QED
    BY <1>3, <2>1, <2>2 DEF Ranks
<1> QED
  BY <1>1, <1>2, <1>3 DEF PayloadTypeOK

-----------------------------------------------------------------------------
(* Digests: the user's files.                                              *)

LEMMA HoldKeepsDigests ==
  ASSUME DigestInv, ReuseInv', NEW n \in Inode, NEW c \in Contents, NEW x \in Nat, Hold(n, c, x),
         scans' = scans, clock <= clock', x <= clock',
         \A h \in held : h.stat # [inode |-> n, ctime |-> x],
         Live(n) => x > inodes[n].ctime,
         \A p \in Path : names'[p] # 0 => names'[p] = n \/ names'[p] = names[p]
  PROVE  DigestInv'
<1> DEFINE h0 == [stat |-> [inode |-> n, ctime |-> x], content |-> c]
<1>1. held' = held \cup {h0} /\ inodes' = [inodes EXCEPT ![n] = [ctime |-> x, content |-> c]]
  BY DEF Hold
<1>2. /\ inodes'[n] = [ctime |-> x, content |-> c] /\ \A m \in Inode \ {n} : inodes'[m] = inodes[m]
      /\ \A m \in Inode : inodes[m].ctime \in Nat
  BY <1>1 DEF DigestInv, ReuseInv, FilesTyped
<1>3. h0.stat.inode = n /\ h0.stat.ctime = x /\ h0.content = c /\ h0.stat = [inode |-> n, ctime |-> x]
  OBVIOUS
<1> HIDE DEF h0
<1>4. clock \in Nat /\ clock' \in Nat /\ \A h \in held : h.stat.inode \in Inode /\ h.stat.ctime <= clock /\ h.stat.ctime \in Nat
  BY DEF DigestInv, ReuseInv, FilesTyped, FilesFit, PayloadBounds, StatId
<1>5. \A h \in held' : h.stat.inode \in Inode /\ h.stat.ctime <= clock'
  BY <1>1, <1>3, <1>4
<1>6. \A h, k \in held' : h.stat = k.stat => h.content = k.content
  BY <1>1, <1>3 DEF DigestInv, FilesFit
<1>7. \A m : Live(m)' <=> Live(m) \/ m = n
  BY <1>1, <1>3 DEF Live
<1>8. Holds(Stat(n), inodes[n].content)'
  <2>1. Stat(n)' = [inode |-> n, ctime |-> x]
    BY <1>2 DEF Stat
  <2>2. [stat |-> Stat(n)', content |-> inodes'[n].content] = h0
    BY <1>2, <2>1 DEF h0
  <2> QED
    BY <1>1, <2>2 DEF Holds
<1>9. ASSUME NEW m \in Inode, Live(m)'
      PROVE  Holds(Stat(m), inodes[m].content)'
  <2>1. CASE m = n
    BY <1>8, <2>1
  <2>2. CASE m # n
    <3>1. Holds(Stat(m), inodes[m].content)
      BY <1>7, <1>9, <2>2 DEF DigestInv, FilesFit
    <3> QED
      BY <1>1, <1>2, <2>2, <3>1 DEF Holds, Stat
  <2> QED
    BY <2>1, <2>2
<1>10. \A p \in Path : names'[p] # 0 => Live(names[p])'
  BY <1>7 DEF DigestInv, FilesFit, Live
<1>11. FilesFit'
  BY <1>5, <1>6, <1>9, <1>10 DEF FilesFit, Inode, Path
<1>12. ASSUME NEW i \in Scans
       PROVE  ReadFits(scans[i])' /\ DigestFits(scans[i])'
  <2>1. PICK s \in ScanRecord : s = scans[i]
    BY ScanFacts DEF DigestInv
  <2>2. ReadFits(s) /\ DigestFits(s) /\ s.before \in StatId
    BY <2>1, Fields DEF DigestInv
  <2>3. DigestFits(s)'
    BY <1>1, <2>2 DEF DigestFits, Holds, Path
  <2>4. ReadFits(s)'
    <3> SUFFICES ASSUME s.state \in {"half", "check"}
                 PROVE  ReadFits(s)'
      BY DEF ReadFits
    <3>1. /\ s.fd \in Inode /\ Live(s.fd) /\ s.before = s.stat[s.at] /\ s.before.inode = s.fd
          /\ s.before.ctime <= inodes[s.fd].ctime /\ s.before.ctime \in Nat
      BY <2>2 DEF ReadFits, StatId
    <3>2. CASE s.fd = n
      <4>1. s.before.ctime < x /\ Stat(s.fd)'.ctime = x /\ inodes'[s.fd].ctime = x
        BY <1>2, <3>1, <3>2 DEF Stat
      <4>2. Stat(s.fd)' # s.before
        BY <3>1, <4>1
      <4> QED
        BY <1>7, <3>1, <4>1, <4>2 DEF ReadFits, Inode
    <3>3. CASE s.fd # n
      BY <1>2, <1>7, <2>2, <3>1, <3>3 DEF ReadFits, Stat, Inode
    <3> QED
      BY <3>2, <3>3
  <2> QED
    BY <2>1, <2>3, <2>4 DEF ReadFits, DigestFits, Path
<1> QED
  BY <1>11, <1>12 DEF DigestInv, Scans

\* A write in place gets a ctime that nothing had before.
LEMMA WriteKeepsDigests ==
  ASSUME DigestInv, FineClock, NEW p \in Path, Write(p), ReuseInv'
  PROVE  DigestInv'
<1> DEFINE n == names[p]
<1>1. PICK b \in 1..2, x \in {clock, clock + 1} :
        /\ x = clock + 1 /\ clock' = x
        /\ Hold(n, [inodes[n].content EXCEPT ![b] = 1 - @], x)
  BY DEF Write
<1>2. clock \in Nat
  BY DEF DigestInv, ReuseInv, FilesTyped, PayloadBounds
<1>3. n \in Inode /\ names[p] # 0
  BY NameTyped DEF Write, DigestInv
<1>4. [inodes[n].content EXCEPT ![b] = 1 - @] \in Contents
  BY <1>3, BlockTyped, BlocksOf DEF DigestInv
<1>5. \A h \in held : h.stat.ctime <= clock /\ h.stat.ctime \in Nat
  BY DEF DigestInv, ReuseInv, FilesTyped, FilesFit, StatId
<1>6. \A h \in held : h.stat # [inode |-> n, ctime |-> x]
  BY <1>1, <1>2, <1>5
<1>7. inodes[n].ctime <= clock /\ inodes[n].ctime \in Nat
  <2>1. Holds(Stat(n), inodes[n].content)
    BY <1>3 DEF DigestInv, FilesFit
  <2>2. [stat |-> Stat(n), content |-> inodes[n].content].stat.ctime = inodes[n].ctime
    BY DEF Stat
  <2> QED
    BY <1>5, <2>1, <2>2 DEF Holds
<1>8. names' = names /\ scans' = scans
  BY DEF Write
<1> HIDE DEF n
<1> QED
  BY <1>1, <1>2, <1>3, <1>4, <1>6, <1>7, <1>8, HoldKeepsDigests

\* A replacement is a file that was never looked at.
LEMMA ReplaceKeepsDigests ==
  ASSUME DigestInv, NEW p \in Path, Replace(p), ReuseInv'
  PROVE  DigestInv'
<1>1. PICK n \in Inode : /\ \A h \in held : h.stat.inode # n
                         /\ Hold(n, <<1, 1>>, clock) /\ names' = [names EXCEPT ![p] = n]
  BY DEF Replace
<1>2. clock \in Nat /\ clock' = clock /\ scans' = scans /\ names \in [Path -> 0..MaxInode]
  BY DEF DigestInv, ReuseInv, FilesTyped, PayloadBounds, Replace
<1>3. ~Live(n) /\ \A h \in held : h.stat # [inode |-> n, ctime |-> clock]
  BY <1>1 DEF Live
<1>4. <<1, 1>> \in Contents
  BY DEF Contents
<1>5. \A q \in Path : names'[q] # 0 => names'[q] = n \/ names'[q] = names[q]
  BY <1>1, <1>2
<1> QED
  BY <1>1, <1>2, <1>3, <1>4, <1>5, HoldKeepsDigests

\* Nothing that is held changes, and no name is given to a new file.
LEMMA StillFiles ==
  ASSUME DigestInv, ReuseInv', UNCHANGED <<clock, inodes, held, scans>>,
         \A p \in Path : names'[p] \in {0, names[p]}
  PROVE  DigestInv'
<1>1. FilesFit'
  BY DEF DigestInv, FilesFit, Live, Holds, Stat, Inode, Path
<1>2. ASSUME NEW i \in Scans
      PROVE  ReadFits(scans[i])' /\ DigestFits(scans[i])'
  <2>1. ReadFits(scans[i]) /\ DigestFits(scans[i])
    BY DEF DigestInv
  <2>2. ReadFits(scans[i])'
    BY <2>1 DEF ReadFits, Stat, Live, Inode
  <2>3. DigestFits(scans[i])'
    BY <2>1 DEF DigestFits, Holds, Path
  <2> QED
    BY <2>2, <2>3
<1> QED
  BY <1>1, <1>2 DEF DigestInv, Scans

-----------------------------------------------------------------------------
(* Digests: the scans.                                                     *)

LEMMA ScanKeepsDigests ==
  ASSUME DigestInv, ReuseInv', NEW i \in Scans, NEW t, Set(i, t), ReadFits(t), DigestFits(t)
  PROVE  DigestInv'
<1>1. scans'[i] = t /\ \A k \in Scans \ {i} : scans'[k] = scans[k]
  BY DEF Set, DigestInv, ReuseInv, ScansTyped
<1>2. UNCHANGED <<clock, inodes, names, held>>
  BY DEF Set
<1>3. FilesFit'
  BY <1>2 DEF DigestInv, FilesFit, Live, Holds, Stat, Inode, Path
<1>4. ASSUME NEW k \in Scans
      PROVE  ReadFits(scans[k])' /\ DigestFits(scans[k])'
  <2>1. PICK s : s = scans'[k] /\ ReadFits(s) /\ DigestFits(s)
    BY <1>1 DEF DigestInv
  <2>2. ReadFits(scans[k])'
    BY <1>2, <2>1 DEF ReadFits, Stat, Live, Inode
  <2>3. DigestFits(scans[k])'
    BY <1>2, <2>1 DEF DigestFits, Holds, Path
  <2> QED
    BY <2>2, <2>3
<1> QED
  BY <1>3, <1>4 DEF DigestInv, Scans

\* What was observed stays, and no file is being read.
LEMMA QuietDigests ==
  ASSUME DigestInv, ReuseInv', NEW i \in Scans, NEW t, Set(i, t), t.state \notin {"half", "check"},
         t.seen = scans[i].seen, t.stat = scans[i].stat
  PROVE  DigestInv'
<1>1. ReadFits(t)
  BY DEF ReadFits
<1>2. DigestFits(t)
  BY DEF DigestFits, DigestInv
<1> QED
  BY <1>1, <1>2, ScanKeepsDigests

LEMMA ObservedDigests ==
  ASSUME DigestInv, ReuseInv', NEW i \in Scans, NEW u \in ScanRecord, NEW o \in Seen,
         Set(i, Observed(u, o)), u.seen = scans[i].seen, u.stat = scans[i].stat,
         o.status = "HASHED" => Holds(u.stat[u.at], o.digest)
  PROVE  DigestInv'
<1> DEFINE t == Observed(u, o)
<1>1. /\ t.seen = [u.seen EXCEPT ![u.at] = o] /\ t.stat = u.stat /\ t.state \in {"persist", "probe"}
      /\ u.seen \in [Path -> Seen]
  BY ObservedDoes, Fields DEF DigestInv, ReuseInv
<1> HIDE DEF t
<1>2. ReadFits(t)
  BY <1>1 DEF ReadFits
<1>3. DigestFits(u)
  BY DEF DigestInv, DigestFits
<1>4. DigestFits(t)
  BY <1>1, <1>3 DEF DigestFits
<1> QED
  BY <1>2, <1>4, ScanKeepsDigests DEF t

LEMMA FailedDigests ==
  ASSUME DigestInv, ReuseInv', NEW i \in Scans, NEW u \in ScanRecord,
         NEW r \in Statuses \ {"HASHED"}, Set(i, Observed(u, Failed(r))),
         u.seen = scans[i].seen, u.stat = scans[i].stat
  PROVE  DigestInv'
<1>1. Failed(r) \in Seen /\ Failed(r).status # "HASHED"
  BY Constants DEF DigestInv, ReuseInv, Failed
<1> QED
  BY <1>1, ObservedDigests

LEMMA MetadataDigests ==
  ASSUME DigestInv, ReuseInv', NEW i \in Scans, ScanMetadata(i)
  PROVE  DigestInv'
<1> DEFINE s == scans[i]
           st == [p \in Path |-> IF names[p] = 0 THEN NoStat ELSE Stat(names[p])]
           t == [s EXCEPT !.state = "probe", !.completed = clock, !.stat = st]
<1>1. s \in ScanRecord /\ Paced(s) /\ s.state = "began" /\ Set(i, t)
  BY ScanFacts DEF ScanMetadata, DigestInv
<1> HIDE DEF s, st
<1>2. t.state = "probe" /\ t.seen = s.seen
  BY <1>1 DEF ScanRecord
<1> HIDE DEF t
<1>3. \A p \in Path : t.seen[p].status # "HASHED"
  BY <1>1, <1>2, Constants DEF Paced, DigestInv, ReuseInv
<1>4. ReadFits(t) /\ DigestFits(t)
  BY <1>2, <1>3 DEF ReadFits, DigestFits
<1> QED
  BY <1>1, <1>4, ScanKeepsDigests

LEMMA ProbeDigests ==
  ASSUME DigestInv, ReuseInv', NEW i \in Scans, Probe(i)
  PROVE  DigestInv'
<1> DEFINE s == scans[i]
<1>1. s \in ScanRecord
  BY ScanFacts DEF DigestInv
<1>2. CASE Set(i, Observed(s, Failed("METADATA_UNAVAILABLE")))
  BY <1>1, <1>2, FailedDigests DEF Statuses
<1>3. CASE Set(i, Observed(s, Failed("NOT_LOCAL")))
  BY <1>1, <1>3, FailedDigests DEF Statuses
<1>4. CASE Set(i, Opened(s, "probed"))
  <2> DEFINE t == Opened(s, "probed")
  <2>1. t.state = "probed" /\ t.seen = s.seen /\ t.stat = s.stat
    BY <1>1 DEF Opened, ScanRecord
  <2> HIDE DEF t
  <2> QED
    BY <1>4, <2>1, QuietDigests DEF t
<1>5. CASE Set(i, [s EXCEPT !.state = "open"])
  <2> DEFINE t == [s EXCEPT !.state = "open"]
  <2>1. t.state = "open" /\ t.seen = s.seen /\ t.stat = s.stat
    BY <1>1 DEF ScanRecord
  <2> HIDE DEF t
  <2> QED
    BY <1>5, <2>1, QuietDigests DEF t
<1> QED
  BY <1>2, <1>3, <1>4, <1>5 DEF Probe

\* A reused digest was right where it was read, at the same stat identity.
LEMMA ResolveDigests ==
  ASSUME DigestInv, ReuseInv', NEW i \in Scans, Resolve(i)
  PROVE  DigestInv'
<1> DEFINE s == scans[i]
           C == Candidates(s)
           t == [s EXCEPT !.sources = C, !.loaded = TRUE]
<1>1. s \in ScanRecord /\ s.at \in Path /\ PayloadBounds
  BY ScanFacts, Fields DEF DigestInv
<1>2. C \subseteq Scans
  BY CandidatesFit DEF DigestInv
<1>3. \/ Set(i, Observed(t, Failed("TIME_BUDGET_EXHAUSTED")))
      \/ Set(i, [t EXCEPT !.state = "raised"])
      \/ \E j \in Eligible(s, s.at, C) : Set(i, Observed(t, Hashed(scans[j].seen[s.at].digest, j)))
      \/ Set(i, [t EXCEPT !.state = "open", !.fd = 0])
  BY DEF Resolve
<1> HIDE DEF C
<1>4. t \in ScanRecord /\ t.seen = s.seen /\ t.stat = s.stat /\ t.at = s.at
  BY <1>1, <1>2 DEF ScanRecord
<1> HIDE DEF t
<1>5. CASE Set(i, Observed(t, Failed("TIME_BUDGET_EXHAUSTED")))
  BY <1>4, <1>5, FailedDigests DEF Statuses
<1>6. CASE Set(i, [t EXCEPT !.state = "raised"])
  <2> DEFINE u == [t EXCEPT !.state = "raised"]
  <2>1. u.state = "raised" /\ u.seen = s.seen /\ u.stat = s.stat
    BY <1>4 DEF ScanRecord
  <2> HIDE DEF u
  <2> QED
    BY <1>6, <2>1, QuietDigests DEF u
<1>7. CASE \E j \in Eligible(s, s.at, C) : Set(i, Observed(t, Hashed(scans[j].seen[s.at].digest, j)))
  <2>1. PICK j \in C : /\ DirectReuseEligible(s, j, s.at)
                       /\ Set(i, Observed(t, Hashed(scans[j].seen[s.at].digest, j)))
    BY <1>7 DEF Eligible
  <2> DEFINE d == scans[j].seen[s.at].digest
             o == Hashed(d, j)
  <2>2. d \in Blocks
    BY <1>1, <1>2, SourcesAreScans DEF DigestInv, ReuseInv, Seen
  <2>3. Holds(scans[j].stat[s.at], d) /\ scans[j].stat[s.at] = s.stat[s.at]
    BY <1>1, <1>2, <2>1 DEF DigestInv, DigestFits, DirectReuseEligible
  <2> HIDE DEF d
  <2>4. o \in Seen /\ o.digest = d
    BY <1>1, <1>2, <2>2 DEF Hashed, Seen, Statuses, Scans, PayloadBounds
  <2>5. Set(i, Observed(t, o)) /\ Holds(t.stat[t.at], o.digest)
    BY <1>4, <2>1, <2>3, <2>4 DEF d
  <2> HIDE DEF o
  <2> QED
    BY <1>4, <2>4, <2>5, ObservedDigests
<1>8. CASE Set(i, [t EXCEPT !.state = "open", !.fd = 0])
  <2> DEFINE u == [t EXCEPT !.state = "open", !.fd = 0]
  <2>1. u.state = "open" /\ u.seen = s.seen /\ u.stat = s.stat
    BY <1>4 DEF ScanRecord
  <2> HIDE DEF u
  <2> QED
    BY <1>8, <2>1, QuietDigests DEF u
<1> QED
  BY <1>3, <1>5, <1>6, <1>7, <1>8

LEMMA OpenDigests ==
  ASSUME DigestInv, ReuseInv', NEW i \in Scans, Open(i)
  PROVE  DigestInv'
<1> DEFINE s == scans[i]
           n == names[s.at]
<1>1. s \in ScanRecord /\ s.at \in Path
  BY ScanFacts, Fields DEF DigestInv
<1>2. CASE Set(i, Observed(s, Failed("NOT_FOUND_DURING_READ")))
  BY <1>1, <1>2, FailedDigests DEF Statuses
<1>3. CASE Set(i, Observed(s, Failed("CHANGED_DURING_READ")))
  BY <1>1, <1>3, FailedDigests DEF Statuses
<1>4. CASE n # 0 /\ Stat(n) = s.stat[s.at] /\ Set(i, Opened(s, "half"))
  <2> DEFINE st == Stat(n)
             t == [s EXCEPT !.fd = n, !.before = st, !.state = "half"]
  <2>1. n \in Inode /\ st \in StatId /\ Live(n)
    BY <1>1, <1>4, NameTyped DEF DigestInv, FilesFit
  <2>2. st.inode = n /\ st.ctime = inodes[n].ctime /\ st.ctime \in Nat /\ st = s.stat[s.at] /\ Set(i, t)
    BY <1>4, <2>1 DEF Stat, StatId, Opened
  <2> HIDE DEF n, st
  <2>3. /\ t.state = "half" /\ t.seen = s.seen /\ t.stat = s.stat /\ t.fd = n /\ t.before = st
        /\ t.at = s.at
    BY <1>1 DEF ScanRecord
  <2> HIDE DEF t
  <2>4. ReadFits(t)
    BY <2>1, <2>2, <2>3 DEF ReadFits
  <2>5. DigestFits(t)
    BY <2>3 DEF DigestInv, DigestFits
  <2> QED
    BY <2>2, <2>4, <2>5, ScanKeepsDigests
<1> QED
  BY <1>2, <1>3, <1>4 DEF Open

LEMMA ReadHalfDigests ==
  ASSUME DigestInv, ReuseInv', NEW i \in Scans, ReadHalf(i)
  PROVE  DigestInv'
<1> DEFINE s == scans[i]
           x == inodes[s.fd].content[1]
           c == [s.read EXCEPT ![1] = x]
           t == [s EXCEPT !.read = c, !.state = "check"]
<1>1. s \in ScanRecord /\ s.state = "half" /\ ReadFits(s) /\ s.read \in Blocks
  BY ScanFacts, Fields DEF DigestInv, ReadHalf
<1>2. s.fd \in Inode
  BY <1>1 DEF ReadFits
<1>3. c[1] = x
  <2>1. x \in 0..2
    BY <1>2, BlockTyped DEF DigestInv
  <2> HIDE DEF x
  <2>2. c = <<x, s.read[2]>>
    BY <1>1, <2>1, BlockRead
  <2> HIDE DEF c
  <2> QED
    BY <2>2
<1>4. Set(i, Observed(s, Failed("TIME_BUDGET_EXHAUSTED"))) \/ Set(i, t)
  BY DEF ReadHalf
<1>5. CASE Set(i, Observed(s, Failed("TIME_BUDGET_EXHAUSTED")))
  BY <1>1, <1>5, FailedDigests DEF Statuses
<1>6. CASE Set(i, t)
  <2> HIDE DEF c, x
  <2>1. /\ t.state = "check" /\ t.seen = s.seen /\ t.stat = s.stat /\ t.fd = s.fd /\ t.before = s.before
        /\ t.at = s.at /\ t.read = c
    BY <1>1 DEF ScanRecord
  <2> HIDE DEF t
  <2>2. t.read[1] = inodes[t.fd].content[1]
    BY <1>3, <2>1 DEF x
  <2>3. ReadFits(t)
    BY <1>1, <2>1, <2>2 DEF ReadFits
  <2>4. DigestFits(t)
    BY <2>1 DEF DigestInv, DigestFits
  <2> QED
    BY <1>6, <2>3, <2>4, ScanKeepsDigests
<1> QED
  BY <1>4, <1>5, <1>6

\* While the file kept its stat identity it kept its content, so the two
\* blocks are of one content, and it is held under that identity.
LEMMA ReadRestDigests ==
  ASSUME DigestInv, ReuseInv', NEW i \in Scans, ReadRest(i)
  PROVE  DigestInv'
<1> DEFINE s == scans[i]
           x == inodes[s.fd].content[2]
           c == [s.read EXCEPT ![2] = x]
           o == Hashed(c, 0)
<1>1. s \in ScanRecord /\ s.state = "check" /\ ReadFits(s) /\ s.read \in Blocks /\ PayloadBounds
  BY ScanFacts, Fields DEF DigestInv, ReadRest
<1>2. /\ s.fd \in Inode /\ Live(s.fd) /\ s.before = s.stat[s.at]
      /\ Stat(s.fd) = s.before => s.read[1] = inodes[s.fd].content[1]
  BY <1>1 DEF ReadFits
<1>3. c \in Blocks /\ c = <<s.read[1], x>>
  BY <1>1, <1>2, BlockTyped, BlockRead DEF DigestInv
<1>4. \/ Set(i, Observed(s, Failed("CHANGED_DURING_READ")))
      \/ Stat(s.fd) = s.before /\ Set(i, Observed(s, o))
  BY DEF ReadRest, StillThere, SameIdentity
<1>5. CASE Set(i, Observed(s, Failed("CHANGED_DURING_READ")))
  BY <1>1, <1>5, FailedDigests DEF Statuses
<1>6. CASE Stat(s.fd) = s.before /\ Set(i, Observed(s, o))
  <2>1. c = inodes[s.fd].content
    BY <1>2, <1>3, <1>6, BlockTyped DEF DigestInv
  <2>2. Holds(s.stat[s.at], c)
    BY <1>2, <1>6, <2>1 DEF DigestInv, FilesFit
  <2> HIDE DEF c
  <2>3. o \in Seen /\ o.digest = c
    BY <1>1, <1>3 DEF Hashed, Seen, Statuses, PayloadBounds
  <2> HIDE DEF o
  <2> QED
    BY <1>1, <1>6, <2>2, <2>3, ObservedDigests
<1> QED
  BY <1>4, <1>5, <1>6

LEMMA OtherDigests ==
  ASSUME DigestInv, ReuseInv', NEW i \in Scans,
         Begin(i) \/ WriteEvidence(i) \/ CommitRows(i) \/ CloseRun(i) \/ Crash(i) \/ Damage(i)
  PROVE  DigestInv'
<1> DEFINE s == scans[i]
<1>1. s \in ScanRecord
  BY ScanFacts DEF DigestInv
<1>2. PICK z \in States \ {"half", "check"}, x \in Nat, b \in BOOLEAN, w \in BOOLEAN :
        Set(i, [s EXCEPT !.state = z, !.started = x, !.indexed = b, !.whole = w])
  <2>1. s.started \in Nat /\ s.indexed \in BOOLEAN /\ s.whole \in BOOLEAN /\ clock \in Nat
    BY <1>1, Fields, ScanFacts DEF DigestInv
  <2>2. CASE Begin(i)
    <3>1. Set(i, [s EXCEPT !.state = "began", !.started = clock, !.indexed = s.indexed, !.whole = s.whole])
      BY <1>1, <2>2 DEF Begin, ScanRecord
    <3> QED
      BY <2>1, <3>1 DEF States
  <2>3. CASE WriteEvidence(i)
    <3> DEFINE y == IF ReferencesHold(s) THEN "evidence" ELSE "refused"
    <3>1. Set(i, [s EXCEPT !.state = y])
      BY <2>3 DEF WriteEvidence
    <3>2. y \in States \ {"half", "check"}
      BY DEF States, OnDisk, Visiting
    <3> HIDE DEF y
    <3>3. Set(i, [s EXCEPT !.state = y, !.started = s.started, !.indexed = s.indexed, !.whole = s.whole])
      BY <1>1, <3>1 DEF ScanRecord
    <3> QED
      BY <2>1, <3>2, <3>3
  <2>4. CASE CommitRows(i)
    <3>1. Set(i, [s EXCEPT !.state = "indexed", !.started = s.started, !.indexed = TRUE, !.whole = s.whole])
      BY <1>1, <2>4 DEF CommitRows, ScanRecord
    <3> QED
      BY <2>1, <3>1 DEF States, OnDisk
  <2>5. CASE CloseRun(i)
    <3>1. Set(i, [s EXCEPT !.state = "closed", !.started = s.started, !.indexed = s.indexed, !.whole = s.whole])
      BY <1>1, <2>5 DEF CloseRun, ScanRecord
    <3> QED
      BY <2>1, <3>1 DEF States, OnDisk
  <2>6. CASE Crash(i)
    <3>1. Set(i, [s EXCEPT !.state = "orphaned", !.started = s.started, !.indexed = s.indexed, !.whole = s.whole])
      BY <1>1, <2>6 DEF Crash, ScanRecord
    <3> QED
      BY <2>1, <3>1 DEF States, OnDisk
  <2>7. CASE Damage(i)
    <3>1. Set(i, [s EXCEPT !.state = s.state, !.started = s.started, !.indexed = s.indexed, !.whole = FALSE])
      BY <1>1, <2>7 DEF Damage, ScanRecord
    <3>2. s.state \in States \ {"half", "check"}
      BY <2>7 DEF Damage, States, OnDisk
    <3> QED
      BY <2>1, <3>1, <3>2
  <2> QED
    BY <2>2, <2>3, <2>4, <2>5, <2>6, <2>7
<1> DEFINE t == [s EXCEPT !.state = z, !.started = x, !.indexed = b, !.whole = w]
<1>3. t.state = z /\ t.seen = s.seen /\ t.stat = s.stat
  BY <1>1 DEF ScanRecord
<1> HIDE DEF t
<1> QED
  BY <1>2, <1>3, QuietDigests DEF t

LEMMA DigestInvNext ==
  ASSUME DigestInv, FineClock, [Next]_vars
  PROVE  DigestInv'
<1>1. ReuseInv'
  BY ReuseInvNext DEF DigestInv
<1>2. ASSUME NEW p \in Path, Write(p)
      PROVE  DigestInv'
  BY <1>1, <1>2, WriteKeepsDigests
<1>3. ASSUME NEW p \in Path, Replace(p)
      PROVE  DigestInv'
  BY <1>1, <1>3, ReplaceKeepsDigests
<1>4. ASSUME NEW p \in Path, Delete(p)
      PROVE  DigestInv'
  <2>1. UNCHANGED <<clock, inodes, held, scans>> /\ \A q \in Path : names'[q] \in {0, names[q]}
    BY <1>4 DEF Delete, DigestInv, ReuseInv, FilesTyped
  <2> QED
    BY <1>1, <2>1, StillFiles
<1>5. CASE UNCHANGED vars
  BY <1>1, <1>5, StillFiles DEF vars
<1>6. CASE \E i \in Scans :
             \/ Begin(i) \/ ScanMetadata(i) \/ Probe(i) \/ Resolve(i) \/ Open(i) \/ ReadHalf(i)
             \/ ReadRest(i) \/ WriteEvidence(i) \/ CommitRows(i) \/ CloseRun(i) \/ Crash(i) \/ Damage(i)
  BY <1>1, <1>6, MetadataDigests, ProbeDigests, ResolveDigests, OpenDigests, ReadHalfDigests,
     ReadRestDigests, OtherDigests
<1> QED
  BY <1>2, <1>3, <1>4, <1>5, <1>6 DEF Next

LEMMA DigestInvInit ==
  ASSUME PayloadBounds, Init
  PROVE  DigestInv
<1>1. ReuseInv
  BY ReuseInvInit
<1>2. FilesFit
  <2> DEFINE h(n) == [stat |-> [inode |-> n, ctime |-> 0], content |-> <<0, 0>>]
  <2>1. held = {h(n) : n \in 1..Paths}
    BY DEF Init
  <2>2. \A n : h(n).stat.inode = n /\ h(n).stat.ctime = 0 /\ h(n).content = <<0, 0>>
    OBVIOUS
  <2>3. \A n \in 1..Paths : n \in Inode
    BY DEF PayloadBounds, Inode
  <2>4. \A n \in Inode : Stat(n) = [inode |-> n, ctime |-> 0] /\ inodes[n].content = <<0, 0>>
    BY DEF Init, Stat
  <2>5. \A n \in Inode : [stat |-> Stat(n), content |-> inodes[n].content] = h(n)
    BY <2>4
  <2> HIDE DEF h
  <2>6. \A n \in Inode : Live(n) => n \in 1..Paths
    BY <2>1, <2>2 DEF Live
  <2>7. \A n \in Inode : Live(n) => Holds(Stat(n), inodes[n].content)
    BY <2>1, <2>5, <2>6 DEF Holds
  <2>8. \A k \in held : k.stat.inode \in Inode /\ k.stat.ctime <= clock /\ k.content = <<0, 0>>
    BY <2>1, <2>2, <2>3 DEF Init
  <2>9. \A p \in Path : names[p] # 0 => Live(names[p])
    BY <2>1, <2>2 DEF Init, Live, Path
  <2> QED
    BY <2>7, <2>8, <2>9 DEF FilesFit
<1>3. \A i \in Scans : scans[i] = NewScan
  BY DEF Init
<1>4. NewScan.state = "absent" /\ \A p \in Path : NewScan.seen[p].status = "unread"
  BY Constants DEF NewScan
<1>5. ReadFits(NewScan) /\ DigestFits(NewScan)
  BY <1>4 DEF ReadFits, DigestFits
<1> QED
  BY <1>1, <1>2, <1>3, <1>5 DEF DigestInv

-----------------------------------------------------------------------------
(* The theorems.                                                           *)

\* The reuse invariant holds in every reachable state.
THEOREM ReuseAlways == ASSUME PayloadBounds PROVE Spec => []ReuseInv
<1>1. Init => ReuseInv
  BY ReuseInvInit
<1>2. ReuseInv /\ [Next]_vars => ReuseInv'
  BY ReuseInvNext
<1> QED
  BY <1>1, <1>2, PTL DEF Spec

\* Scans keep their types and their pace, and no scan reuses itself
\* (PayloadTypeOK).
THEOREM PayloadTypesHold == ASSUME PayloadBounds PROVE Spec => []PayloadTypeOK
<1>1. ReuseInv => PayloadTypeOK
  BY TypesFollow
<1> QED
  BY <1>1, ReuseAlways, PTL

\* However scans overlap, die and lose Evidence, a digest a scan has taken was
\* read by its source itself, at the same stat identity, and the source is
\* closed and was complete before the scan began
\* (_VerifiedReuseSourceSelector, validate_snapshot_reuse_references).
THEOREM ReuseIsOneStep == ASSUME PayloadBounds PROVE Spec => []OneStepFromARead
<1>1. ReuseInv => OneStepFromARead
  BY ReuseIsDirect
<1> QED
  BY <1>1, ReuseAlways, PTL

\* While no Evidence is damaged no scan is refused when it is persisted, and
\* verify_snapshot accepts whatever a scan has closed: what the selector takes
\* is what the verification accepts, and a chain of sources ends
\* (_VerifiedReuseSourceSelector, _persist, verify_snapshot).
THEOREM ClosedSnapshotsVerify == ASSUME PayloadBounds PROVE Spec => []ClosedIsValid
<1>1. Init => ReuseInv /\ Unrefused
  <2>1. Init => Unrefused
    BY DEF Init, Unrefused, NewScan
  <2> QED
    BY <2>1, ReuseInvInit
<1>2. (ReuseInv /\ Unrefused) /\ [Next]_vars => (ReuseInv /\ Unrefused)'
  BY ReuseInvNext, UnrefusedNext
<1>3. ReuseInv /\ Unrefused => ClosedIsValid
  BY ClosedAreValid DEF ClosedIsValid, Unrefused
<1> QED
  BY <1>1, <1>2, <1>3, PTL DEF Spec

\* Where every write gets a ctime of its own, a digest, read or reused, is the
\* content the file had while it had the stat identity that is reported with
\* it, whatever is written, replaced or deleted meanwhile
\* (observe_direct_payloads, observe_payloads).
THEOREM DigestsStayTrue == ASSUME PayloadBounds, FineClock PROVE Spec => []DigestsAreTrue
<1>1. Init => DigestInv
  BY DigestInvInit
<1>2. DigestInv /\ [Next]_vars => DigestInv'
  BY DigestInvNext
<1>3. DigestInv => DigestsAreTrue
  BY DEF DigestInv, DigestFits, Holds, DigestsAreTrue
<1> QED
  BY <1>1, <1>2, <1>3, PTL DEF Spec
=============================================================================
