-------------------------- MODULE SnapshotLifecycle --------------------------
(***************************************************************************)
(* Which Run ledgers a Snapshot is compatible with (snapshot_lifecycle.py) *)
(* and how a whole Evidence corpus is classified before the index is       *)
(* rebuilt from it (classify_operational_evidence and                      *)
(* replay_classified_operational_index).  Constant definitions over the    *)
(* chains of EvidenceLedger.                                               *)
(***************************************************************************)
EXTENDS EvidenceLedger

\* Deviation: the Snapshot's own status is used for the Run.
status_unmapped(c) == c

\* The status the Run of a Snapshot is closed with.
expected_run_status(c) == IF c = "partial" THEN "partial" ELSE "scanned"

IsTransition(e) == e.type = "run.state_transition"

\* _transition_pairs: the <<from, to>> pairs of a chain, in order.
TransitionPairs(s) ==
  LET t == SelectSeq(s, IsTransition)
  IN  [i \in 1..Len(t) |-> <<t[i].from, t[i].to>>]

\* _supported_ledger_integrity: sequence numbers and digest chain.
LedgerIntegrity(s) ==
  /\ s # <<>>
  /\ \A i \in 1..Len(s) :
       /\ s[i].seq = i
       /\ s[i].prev = IF i = 1 THEN NoDigest ELSE digest(s[i - 1])

\* The transitions of the supported workflow up to the given status.
WorkflowPairs(c, status) ==
  LET e == expected_run_status(c)
      closed == << <<"created", "scanning">>, <<"scanning", e>> >>
      verifying == Append(closed, <<e, "verifying">>)
  IN  CASE status = e -> closed
        [] status = "verifying" -> verifying
        [] status = "verified" -> Append(verifying, <<"verifying", "verified">>)

\* snapshot_run_compatible(snapshot_status, run_kind, final_status, documents)
\* for a Run of kind filesystem.snapshot; governed says that the documents
\* begin with the marker of the supported workflow.  A legacy Run must have
\* been closed with the expected status; a governed one must consist of
\* exactly the transitions of the workflow.
snapshot_run_compatible(c, status, governed, s) ==
  IF ~governed
  THEN status = expected_run_status(c)
  ELSE /\ status \in {expected_run_status(c), "verifying", "verified"}
       /\ LedgerIntegrity(s)
       /\ status # expected_run_status(c) =>
            Cardinality({i \in 1..Len(s) : s[i].type = "filesystem.snapshot"}) = 1
       /\ TransitionPairs(s) = WorkflowPairs(c, status)

-----------------------------------------------------------------------------
(* Classification of one Run directory F that passed verify_run and holds  *)
(* exactly one Snapshot.                                                   *)

SnapshotOf(F) == (CHOOSE e \in SnapshotsIn(F) : TRUE).snap

Eligible(F) ==
  snapshot_run_compatible(SnapshotOf(F), LedgerStatus(F), Governed(F), Chain(F))

\* The one inconsistency that is excluded from the index instead of stopping
\* the rebuild: a legacy Run left in scanning with a partial Snapshot.
Ineligible(F) ==
  SnapshotOf(F) = "partial" /\ LedgerStatus(F) = "scanning" /\ ~Governed(F)

\* classification_complete: every Run directory of the corpus verifies and
\* every Snapshot in it is classified; a second Snapshot of one Run
\* (SNAPSHOT_RUN_DUPLICATE) and an unclassified one stop the rebuild.
ClassificationComplete(corpus) ==
  \A r \in DOMAIN corpus : corpus[r] # {} =>
    /\ verify_run(corpus[r])
    /\ Cardinality(SnapshotsIn(corpus[r])) <= 1
    /\ SnapshotsIn(corpus[r]) # {} => Eligible(corpus[r]) \/ Ineligible(corpus[r])

\* Deviation: only Runs that were just closed get their Snapshot back.
ReplayedClosedRow(F) ==
  LET s == Chain(F)
  IN  [status        |-> StatusOf(s),
       last_sequence |-> Len(s),
       last_digest   |-> digest(s[Len(s)]),
       records       |-> s,
       snapshot      |-> IF /\ SnapshotsIn(F) # {} /\ Eligible(F)
                            /\ StatusOf(s) = expected_run_status(SnapshotOf(F))
                         THEN SnapshotOf(F) ELSE None]

\* Deviation: sequence numbers are counted from zero.
ReplayedZeroBasedRow(F) ==
  [ReplayedClosedRow(F) EXCEPT !.last_sequence = @ - 1]

\* The rows that replay writes for one Run directory (_insert_run_ledger and
\* _insert_snapshot_index_rows).
ReplayedRow(F) ==
  LET s == Chain(F)
  IN  [status        |-> StatusOf(s),
       last_sequence |-> Len(s),
       last_digest   |-> digest(s[Len(s)]),
       records       |-> s,
       snapshot      |-> IF SnapshotsIn(F) # {} /\ Eligible(F)
                         THEN SnapshotOf(F) ELSE None]
=============================================================================
