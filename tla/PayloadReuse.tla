---------------------------- MODULE PayloadReuse ----------------------------
(***************************************************************************)
(* Payload hashes of Snapshots v2: payload_hashing.py reads a file between *)
(* two looks at its stat identity, or reuses the digest that an earlier    *)
(* VALID Snapshot read (snapshots.py, _VerifiedReuseSourceSelector), and   *)
(* verify_snapshot checks the reuse again for ever.  Scans overlap; files  *)
(* are written in place, replaced and deleted while they are read; a scan  *)
(* may die, and Evidence may be damaged.  A content is two blocks and its  *)
(* own digest, a stat identity is an inode and its ctime.  The metadata    *)
(* scan is one step (FilesystemScan takes it apart), byte budgets are left *)
(* out, and any budget may be exhausted.                                   *)
(***************************************************************************)
EXTENDS Naturals, FiniteSets

CONSTANTS Paths,      \* number of files of the Scope, visited in order
          MaxScans,   \* bound: scans ever begun
          MaxInode,   \* bound: files ever created
          MaxClock,   \* bound: ticks
          FineClock,  \* every write gets a ctime of its own
          MaxHarm     \* bound: Runs that die and Evidence that is damaged

PayloadBounds ==
    /\ Paths \in Nat \ {0} /\ MaxInode \in Nat /\ MaxInode >= Paths
    /\ MaxScans \in Nat /\ MaxClock \in Nat /\ MaxHarm \in Nat /\ FineClock \in BOOLEAN

VARIABLES clock,
          inodes,  \* inode -> its ctime and content
          names,   \* path -> the inode it names, 0 for none
          held,    \* every stat identity ever, with the contents it had
          scans    \* scans, by the order in which they began

vars == <<clock, inodes, names, held, scans>>

Path == 1..Paths
Scans == 1..MaxScans
Inode == 1..MaxInode
Contents == (0..1) \X (0..1)
NoContent == <<2, 2>>

Stat(n) == [inode |-> n, ctime |-> inodes[n].ctime]
NoStat == [inode |-> 0, ctime |-> 0]

Failed(reason) == [status |-> reason, digest |-> NoContent, source |-> 0]
Hashed(content, source) == [status |-> "HASHED", digest |-> content, source |-> source]
Unread == Failed("unread")

NewScan == [state |-> "absent", started |-> 0, completed |-> 0, stat |-> [p \in Path |-> NoStat],
            seen |-> [p \in Path |-> Unread], at |-> 1, fd |-> 0, before |-> NoStat,
            read |-> NoContent, sources |-> {}, loaded |-> FALSE, whole |-> TRUE, indexed |-> FALSE]

OnDisk == {"evidence", "indexed", "closed", "orphaned"}

PayloadTypeOK ==
    /\ clock \in 0..MaxClock
    /\ names \in [Path -> 0..MaxInode]
    /\ \A i \in Scans : LET s == scans[i] IN
         /\ s.state \in {"absent", "began", "probe", "probed", "open", "half", "check", "persist",
                         "raised", "refused"} \cup OnDisk
         /\ s.started <= s.completed \/ s.state \in {"absent", "began"}
         /\ s.indexed => s.state \in {"indexed", "closed", "orphaned"}
         /\ s.state \in OnDisk => \A p \in Path : s.seen[p] # Unread
         /\ \A p \in Path : s.seen[p].source # i

Init ==
    /\ clock = 0
    /\ inodes = [n \in Inode |-> [ctime |-> 0, content |-> <<0, 0>>]]
    /\ names = [p \in Path |-> p]
    /\ held = {[stat |-> [inode |-> n, ctime |-> 0], content |-> <<0, 0>>] : n \in 1..Paths}
    /\ scans = [i \in Scans |-> NewScan]

-----------------------------------------------------------------------------
(* The user's files.                                                        *)
Hold(n, c, t) ==
    /\ inodes' = [inodes EXCEPT ![n] = [ctime |-> t, content |-> c]]
    /\ held' = held \cup {[stat |-> [inode |-> n, ctime |-> t], content |-> c]}

Write(p) ==
    /\ names[p] # 0
    /\ \E b \in 1..2, t \in {clock, clock + 1} :
         /\ t <= MaxClock /\ (FineClock => t = clock + 1)
         /\ clock' = t
         /\ Hold(names[p], [inodes[names[p]].content EXCEPT ![b] = 1 - @], t)
    /\ UNCHANGED <<names, scans>>

Replace(p) ==
    /\ \E n \in Inode : /\ n > Paths /\ \A h \in held : h.stat.inode # n
                        /\ Hold(n, <<1, 1>>, clock)
                        /\ names' = [names EXCEPT ![p] = n]
    /\ UNCHANGED <<clock, scans>>

Delete(p) == names[p] # 0 /\ names' = [names EXCEPT ![p] = 0] /\ UNCHANGED <<clock, inodes, held, scans>>

-----------------------------------------------------------------------------
(* verify_snapshot and validate_snapshot_reuse_references: a reused digest  *)
(* is that of a direct read, at the same stat identity, in a Snapshot that  *)
(* was complete before this one began and is VALID itself.                  *)
ChainedReuse(s, j, p) ==  \* deviation: a reused digest is reused again
    scans[j].seen[p].status = "HASHED" /\ scans[j].stat[p] = s.stat[p]

DirectReuseEligible(s, j, p) ==
    /\ scans[j].seen[p].status = "HASHED" /\ scans[j].seen[p].source = 0
    /\ scans[j].stat[p] = s.stat[p]

Earlier(s, j) == scans[j].completed <= s.started

ReuseHolds(s, p) ==
    LET j == s.seen[p].source
    IN  /\ Earlier(s, j)
        /\ DirectReuseEligible(s, j, p)
        /\ s.seen[p].digest = scans[j].seen[p].digest

(* Whether each Snapshot is VALID; a source was persisted before its use.   *)
ValidSnapshots[i \in Scans] ==
    /\ scans[i].whole /\ scans[i].state = "closed"
    /\ \A p \in Path : LET j == scans[i].seen[p].source
                       IN j # 0 => ReuseHolds(scans[i], p) /\ ValidSnapshots[j]

-----------------------------------------------------------------------------
Set(i, s) == scans' = [scans EXCEPT ![i] = s] /\ UNCHANGED <<clock, inodes, names, held>>

(* create_snapshot; created_at and completed_at precede the payload reads.  *)
Begin(i) ==
    /\ scans[i].state = "absent" /\ \A j \in 1..(i - 1) : scans[j].state # "absent"
    /\ Set(i, [scans[i] EXCEPT !.state = "began", !.started = clock])

ScanMetadata(i) ==
    /\ scans[i].state = "began"
    /\ Set(i, [scans[i] EXCEPT !.state = "probe", !.completed = clock,
                               !.stat = [p \in Path |-> IF names[p] = 0 THEN NoStat ELSE Stat(names[p])]])

ObservedEarly(s, o) ==  \* deviation: the last file is not waited for
    [s EXCEPT !.fd = 0, !.before = NoStat, !.read = NoContent, !.state = "persist"]

(* The next file, or the Snapshot once every file has its observation.      *)
Observed(s, o) ==
    [s EXCEPT !.seen[s.at] = o, !.fd = 0, !.before = NoStat, !.read = NoContent,
              !.state = IF s.at = Paths THEN "persist" ELSE "probe",
              !.at = IF s.at = Paths THEN s.at ELSE s.at + 1]

Opened(s, state) == [s EXCEPT !.fd = names[s.at], !.before = Stat(names[s.at]), !.state = state]

(* observe_payloads opens a file to probe for reuse; a miss opens it again. *)
Probe(i) ==
    LET s == scans[i] IN
    /\ s.state = "probe"
    /\ \/ s.stat[s.at] = NoStat /\ Set(i, Observed(s, Failed("METADATA_UNAVAILABLE")))
       \/ s.stat[s.at] # NoStat /\ Set(i, Observed(s, Failed("NOT_LOCAL")))
       \/ /\ s.stat[s.at] # NoStat
          /\ IF names[s.at] # 0 /\ Stat(names[s.at]) = s.stat[s.at]
             THEN Set(i, Opened(s, "probed"))
             ELSE Set(i, [s EXCEPT !.state = "open"])

(* _load_candidates, once for a scan: every intrinsically valid Evidence    *)
(* file, indexed or not, of a Snapshot completed before this one began.     *)
LateCandidates(s) ==  \* deviation: Snapshots that completed after this one began
    {j \in Scans : scans[j].state \in OnDisk /\ scans[j].whole}

Candidates(s) ==
    IF s.loaded THEN s.sources
    ELSE {j \in Scans : scans[j].state \in OnDisk /\ scans[j].whole /\ Earlier(s, j)}

Newer(j, k) == scans[j].completed > scans[k].completed \/ (scans[j].completed = scans[k].completed /\ j > k)

Eligible(s, p, C) == {j \in C : ValidSnapshots[j] /\ DirectReuseEligible(s, j, p)}

(* resolve asks the newest first; get_snapshot raises for a missing row.    *)
Raises(s, p, C) ==
    \E j \in C : ~scans[j].indexed /\ \A k \in Eligible(s, p, C) : Newer(j, k)

SameIdentity(s) == Stat(s.fd) = s.before

Resolve(i) ==
    LET s == scans[i]
        C == Candidates(s)
        t == [s EXCEPT !.sources = C, !.loaded = TRUE]
    IN
    /\ s.state = "probed"
    /\ \/ Set(i, Observed(t, Failed("TIME_BUDGET_EXHAUSTED")))
       \/ Raises(s, s.at, C) /\ Set(i, [t EXCEPT !.state = "raised"])
       \/ /\ ~Raises(s, s.at, C)
          /\ IF Eligible(s, s.at, C) # {} /\ SameIdentity(s)
             THEN \E j \in Eligible(s, s.at, C) :
                    /\ \A k \in Eligible(s, s.at, C) \ {j} : Newer(j, k)
                    /\ Set(i, Observed(t, Hashed(scans[j].seen[s.at].digest, j)))
             ELSE Set(i, [t EXCEPT !.state = "open", !.fd = 0])

(* observe_direct_payloads: fstat, read to the end, fstat and lstat.        *)
Open(i) ==
    LET s == scans[i] IN
    /\ s.state = "open"
    /\ IF names[s.at] = 0 THEN Set(i, Observed(s, Failed("NOT_FOUND_DURING_READ")))
       ELSE IF Stat(names[s.at]) # s.stat[s.at] THEN Set(i, Observed(s, Failed("CHANGED_DURING_READ")))
       ELSE Set(i, Opened(s, "half"))

ReadHalf(i) ==
    LET s == scans[i] IN
    /\ s.state = "half"
    /\ \/ Set(i, Observed(s, Failed("TIME_BUDGET_EXHAUSTED")))
       \/ Set(i, [s EXCEPT !.read[1] = inodes[s.fd].content[1], !.state = "check"])

NameUnchecked(s) == TRUE  \* deviation: what was read is not compared with what is there now

StillThere(s) == SameIdentity(s) /\ names[s.at] = s.fd

ReadRest(i) ==
    LET s == scans[i]
        content == [s.read EXCEPT ![2] = inodes[s.fd].content[2]]
    IN
    /\ s.state = "check"
    /\ Set(i, Observed(s, IF StillThere(s) THEN Hashed(content, 0) ELSE Failed("CHANGED_DURING_READ")))

ReferencesHold(s) ==
    \A p \in Path : s.seen[p].source # 0 => ReuseHolds(s, p) /\ ValidSnapshots[s.seen[p].source]

(* _persist verifies what was reused once more and writes the Evidence, then *)
(* the row; then the Run is closed.                                          *)
WriteEvidence(i) ==
    /\ scans[i].state = "persist"
    /\ Set(i, [scans[i] EXCEPT !.state = IF ReferencesHold(scans[i]) THEN "evidence" ELSE "refused"])

CommitRows(i) == scans[i].state = "evidence" /\ Set(i, [scans[i] EXCEPT !.state = "indexed", !.indexed = TRUE])

CloseRun(i) == scans[i].state = "indexed" /\ Set(i, [scans[i] EXCEPT !.state = "closed"])

Harmed == {i \in Scans : scans[i].state = "orphaned" \/ ~scans[i].whole}

Crash(i) ==
    /\ Cardinality(Harmed) < MaxHarm /\ scans[i].state \in {"evidence", "indexed"}
    /\ Set(i, [scans[i] EXCEPT !.state = "orphaned"])

Damage(i) ==
    /\ Cardinality(Harmed) < MaxHarm /\ scans[i].state \in OnDisk /\ scans[i].whole
    /\ Set(i, [scans[i] EXCEPT !.whole = FALSE])

Next ==
    \/ \E p \in Path : Write(p) \/ Replace(p) \/ Delete(p)
    \/ \E i \in Scans : \/ Begin(i) \/ ScanMetadata(i) \/ Probe(i) \/ Resolve(i) \/ Open(i)
                        \/ ReadHalf(i) \/ ReadRest(i)
                        \/ WriteEvidence(i) \/ CommitRows(i) \/ CloseRun(i) \/ Crash(i) \/ Damage(i)

Spec == Init /\ [][Next]_vars

-----------------------------------------------------------------------------
(* A digest, read or reused, is the content the file had while it had the   *)
(* very stat identity the entry reports; never the blocks of two contents,  *)
(* nor those of a file that has since taken the name                        *)
(* (observe_direct_payloads, _metadata_reuse_eligible).                     *)
DigestsAreTrue ==
    \A i \in Scans, p \in Path : scans[i].state \in OnDisk /\ scans[i].seen[p].status = "HASHED" =>
        [stat |-> scans[i].stat[p], content |-> scans[i].seen[p].digest] \in held

(* Unless Evidence is damaged, what the scan reuses is what verification    *)
(* accepts, though scans overlap and finish out of order: no scan is        *)
(* refused when it is persisted, and a closed Snapshot is VALID (the        *)
(* selector and validate_snapshot_reuse_references agree).                  *)
ClosedIsValid ==
    (\A i \in Scans : scans[i].whole) =>
        \A i \in Scans : /\ scans[i].state # "refused"
                         /\ scans[i].state = "closed" => ValidSnapshots[i]

(* A digest that a scan has taken, and whatever the scan came to since,     *)
(* rests on one direct read and never on another reuse: its source is a     *)
(* Snapshot that is closed, was complete before the scan began, and read    *)
(* the digest itself at the stat identity the scan reports                  *)
(* (_VerifiedReuseSourceSelector, test_reuse_does_not_form_a_chain).        *)
OneStepFromARead ==
    \A i \in Scans, p \in Path : scans[i].seen[p].source # 0 =>
        LET s == scans[i]
            j == scans[s.seen[p].source]
        IN  /\ j.state = "closed" /\ j.completed <= s.started
            /\ j.seen[p].status = "HASHED" /\ j.seen[p].source = 0
            /\ j.stat[p] = s.stat[p] /\ j.seen[p].digest = s.seen[p].digest

(* A miss is delegated to the direct reader: no other Run's remains make a  *)
(* scan fail (observe_payloads).                                            *)
MissesAreRead == \A i \in Scans : scans[i].state # "raised"
=============================================================================
