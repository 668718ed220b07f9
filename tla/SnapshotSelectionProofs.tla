----------------------- MODULE SnapshotSelectionProofs -----------------------
(***************************************************************************)
(* What SnapshotSelection promises, for every number of Snapshots, tick    *)
(* and Scope.  The invariant says three things: the times and the verdict  *)
(* of a scan fit its state; scans begin in the order of their numbers, and *)
(* the supported ones never overlap (the lease); and a call holds, at each *)
(* of its stages, what its resolutions and checks found.  A review with    *)
(* the default base is in order because two supported scans never overlap, *)
(* which neither the resolution nor the review looks at.                   *)
(***************************************************************************)
EXTENDS SnapshotSelection, TLAPS

-----------------------------------------------------------------------------
(* Types.                                                                  *)

SnapStates == {"absent", "scanning", "done", "published", "verified", "failed"}
Scanned == {"done", "published", "verified"}
SnapRecord ==
  [state: SnapStates, governed: BOOLEAN, held: BOOLEAN, scopes: SUBSET Scope, root: 0..MaxRoot,
   started: Nat, completed: Nat, whole: BOOLEAN, valid: BOOLEAN]
CallStages == {"none", "target", "base", "preflight", "acquiring", "check base", "check target",
               "diff"} \cup Ended
CallRecord ==
  [stage: CallStages, action: Actions, scope: Scope \cup {NoScope},
   selector: Selectors \cup {Default}, baseSelector: Selectors \cup {Default},
   target: 0..MaxSnapshots, base: 0..MaxSnapshots]

Typed ==
  /\ clock \in 0..MaxClock /\ root \in 0..MaxRoot
  /\ snaps \in [Ids -> SnapRecord] /\ call \in CallRecord

-----------------------------------------------------------------------------
(* The scans.                                                              *)

\* What the times and the verdict of a scan are, for where it is.
ScanFits(s) ==
  /\ s.started <= clock
  /\ s.state \in Scanned => s.started <= s.completed /\ s.completed <= clock
  /\ s.valid => s.state \in Listed
  /\ s.held \/ s.state = "verified" => s.governed
  /\ s.held => s.state \in Scanned \cup {"scanning"}
  /\ s.state = "scanning" /\ s.governed => s.held

\* Scans begin in the order of their numbers.
InOrder == \A i, j \in Ids : i < j /\ snaps[i].state = "absent" => snaps[j].state = "absent"

\* The lease: an acquisition has scanned, or failed, when the next one begins;
\* a recovery may still publish what it scanned.
Leased ==
  \A i, j \in Ids : i < j /\ snaps[i].governed /\ snaps[j].governed /\ snaps[j].state # "absent" =>
    \/ snaps[i].state = "failed"
    \/ snaps[i].state \in Scanned /\ snaps[i].completed <= snaps[j].started

ScansInv == (\A i \in Ids : ScanFits(snaps[i])) /\ InOrder /\ Leased

-----------------------------------------------------------------------------
(* The call that is followed.                                              *)

Published(i) == i \in Ids /\ snaps[i].state \in Listed
Reviewing == {"check base", "check target", "diff", "answered"}

\* A question about Snapshots that are there.
QuestionFits ==
  /\ call.stage \in {"none", "target", "base", "refused"} \cup Reviewing
  /\ call.stage = "target" => call.selector \in Selectors
  /\ call.stage \in {"base"} \cup Reviewing => Published(call.target)
  /\ call.stage \in Reviewing /\ call.action # "INSPECT" =>
       /\ Published(call.base)
       /\ call.baseSelector = Default => snaps[call.base].completed < snaps[call.target].completed
  /\ call.action = "INSPECT" => call.stage \in {"none", "target", "diff", "answered", "refused"}

\* A refresh acquires its target after its base was complete.
RefreshFits ==
  /\ call.scope \in Scope /\ call.stage # "target"
  /\ call.stage \in {"base", "preflight"} => call.target = NoId
  /\ call.stage \in {"preflight", "acquiring"} \cup Reviewing => Published(call.base)
  /\ call.target # NoId =>
       /\ Published(call.base) /\ snaps[call.target].state # "absent"
       /\ snaps[call.target].scopes = {call.scope}
       /\ snaps[call.base].completed <= snaps[call.target].started
  /\ call.stage \in Reviewing => Published(call.target)

\* What the checks of a comparison found.
ChecksFit ==
  /\ call.action \in {"REVIEW", "REFRESH"} /\ call.stage \in {"check target", "diff", "answered"} =>
       snaps[call.base].state = "verified" /\ snaps[call.base].whole
  /\ call.action \in {"REVIEW", "REFRESH"} /\ call.stage \in {"diff", "answered"} =>
       /\ snaps[call.target].state = "verified" /\ snaps[call.target].whole
       /\ SameBinding(call.base, call.target)
  /\ call.action = "EXPLAIN" /\ call.stage \in {"diff", "answered"} =>
       snaps[call.base].completed <= snaps[call.target].started

CallFits ==
  /\ call.action # "REFRESH" => QuestionFits
  /\ call.action = "REFRESH" => RefreshFits
  /\ ChecksFit

SelectionInv == SelectionBounds /\ QuestionsAreTyped /\ Typed /\ ScansInv /\ CallFits

-----------------------------------------------------------------------------
(* Facts about typed states.                                               *)

LEMMA ScanTyped ==
  ASSUME Typed, NEW i \in Ids
  PROVE  /\ snaps[i] \in SnapRecord
         /\ snaps[i].state \in SnapStates /\ snaps[i].governed \in BOOLEAN
         /\ snaps[i].held \in BOOLEAN
         /\ snaps[i].scopes \subseteq Scope /\ snaps[i].root \in 0..MaxRoot
         /\ snaps[i].started \in Nat /\ snaps[i].completed \in Nat
         /\ snaps[i].whole \in BOOLEAN /\ snaps[i].valid \in BOOLEAN
<1>1. snaps[i] \in SnapRecord
  BY DEF Typed
<1> QED
  BY <1>1 DEF SnapRecord

LEMMA CallTyped ==
  ASSUME Typed
  PROVE  /\ call \in CallRecord /\ call.stage \in CallStages /\ call.action \in Actions
         /\ call.scope \in Scope \cup {NoScope} /\ call.selector \in Selectors \cup {Default}
         /\ call.baseSelector \in Selectors \cup {Default}
         /\ call.target \in 0..MaxSnapshots /\ call.base \in 0..MaxSnapshots
BY DEF Typed, CallRecord

\* What a policy leaves is published; the previous one completed before.
LEMMA ResolvedFits ==
  ASSUME Typed, NEW i, NEW s,
         NEW policy \in {"EXACT_ID", "ONLY_COMPATIBLE", "LATEST_VALID", "PREVIOUS_VALID"},
         NEW j \in Resolved(policy, i, s)
  PROVE  /\ Published(j)
         /\ policy = "PREVIOUS_VALID" => snaps[j].completed < snaps[i].completed
<1>1. CASE policy = "EXACT_ID"
  BY <1>1 DEF Resolved, ExactValid, ValidCandidates, Rows, Published
<1>2. CASE policy = "ONLY_COMPATIBLE"
  BY <1>2 DEF Resolved, ValidCandidates, Rows, Published
<1>3. CASE policy = "LATEST_VALID"
  BY <1>3 DEF Resolved, Newest, ValidCandidates, Rows, Published
<1>4. CASE policy = "PREVIOUS_VALID"
  BY <1>4 DEF Resolved, PreviousTo, Newest, ValidCandidates, Rows, Published
<1> QED
  BY <1>1, <1>2, <1>3, <1>4

LEMMA TypedAfter ==
  ASSUME clock' \in 0..MaxClock, root' \in 0..MaxRoot, snaps' \in [Ids -> SnapRecord], call' \in CallRecord
  PROVE  Typed'
BY DEF Typed, Ids, SnapRecord, SnapStates, CallRecord, CallStages, Ended, Actions, Selectors, Default, NoId

LEMMA InvAfter ==
  ASSUME SelectionInv, clock' \in 0..MaxClock, root' \in 0..MaxRoot, snaps' \in [Ids -> SnapRecord],
         call' \in CallRecord, ScansInv', CallFits'
  PROVE  SelectionInv'
<1>1. Typed'
  BY TypedAfter
<1>2. SelectionBounds' /\ QuestionsAreTyped'
  BY DEF SelectionInv, SelectionBounds, QuestionsAreTyped, Questions, Selectors, Default, Actions, Ids, NoId
<1> QED
  BY <1>1, <1>2 DEF SelectionInv

\* A step of the call leaves the scans alone.
LEMMA CallStep ==
  ASSUME SelectionInv, UNCHANGED <<clock, root, snaps>>, call' \in CallRecord, CallFits'
  PROVE  SelectionInv'
<1>1. ScansInv'
  BY DEF SelectionInv, ScansInv, ScanFits, InOrder, Leased, Ids
<1> QED
  BY <1>1, InvAfter DEF SelectionInv, Typed

-----------------------------------------------------------------------------
(* The scans.                                                              *)

\* What a scan keeps for good.
Lasts(s, t) ==
  /\ s.state # "absent" =>
       /\ t.state # "absent" /\ t.governed = s.governed /\ t.scopes = s.scopes
       /\ t.root = s.root /\ t.started = s.started
  /\ s.state \in Scanned =>
       t.state \in Scanned \cup {"failed"} /\ t.completed = s.completed /\ t.whole = s.whole
  /\ s.state \in Listed => t.state \in Listed
  /\ s.state \in {"verified", "failed"} => t.state = s.state

LEMMA CallLasts ==
  ASSUME Typed, CallFits, call' = call, \A i \in Ids : Lasts(snaps[i], snaps'[i])
  PROVE  CallFits'
<1>1. /\ call.target \in 0..MaxSnapshots /\ call.base \in 0..MaxSnapshots
      /\ call.stage \in CallStages
  BY CallTyped
<1>2. \A i \in Ids : snaps[i].state \in Listed =>
        /\ snaps'[i].state \in Listed /\ (snaps[i].state = "verified" => snaps'[i].state = "verified")
        /\ snaps'[i].governed = snaps[i].governed
        /\ snaps'[i].scopes = snaps[i].scopes /\ snaps'[i].root = snaps[i].root
        /\ snaps'[i].started = snaps[i].started /\ snaps'[i].completed = snaps[i].completed
        /\ snaps'[i].whole = snaps[i].whole
  BY DEF Lasts, Listed, Scanned
<1>3. \A i : Published(i) => Published(i)'
  BY <1>2 DEF Published, Ids
<1>4. ASSUME call.action # "REFRESH"
      PROVE  QuestionFits'
  <2>1. QuestionFits
    BY <1>4 DEF CallFits
  <2> QED
    BY <1>2, <1>3, <2>1 DEF QuestionFits, Published, Reviewing, Selectors, Default, Ids, NoId
<1>5. ASSUME call.action = "REFRESH"
      PROVE  RefreshFits'
  <2>1. RefreshFits
    BY <1>5 DEF CallFits
  <2>2. call.target # NoId => call.target \in Ids
    BY <1>1 DEF NoId, Ids
  <2>3. call.target # NoId =>
          /\ Published(call.base)' /\ snaps'[call.target].state # "absent"
          /\ snaps'[call.target].scopes = {call.scope}
          /\ snaps'[call.base].completed <= snaps'[call.target].started
    BY <1>2, <1>3, <2>1, <2>2 DEF RefreshFits, Lasts, Published
  <2> QED
    BY <1>3, <2>1, <2>3 DEF RefreshFits, Reviewing, NoId, Published, Ids
<1>6. ChecksFit'
  <2>1. ChecksFit
    BY DEF CallFits
  <2>2. call.action \in {"REVIEW", "REFRESH", "EXPLAIN"} /\ call.stage \in Reviewing =>
          Published(call.base) /\ Published(call.target)
    BY DEF CallFits, QuestionFits, RefreshFits
  <2> QED
    BY <1>2, <2>1, <2>2 DEF ChecksFit, Reviewing, Published, SameBinding
<1> QED
  BY <1>4, <1>5, <1>6 DEF CallFits

LEMMA BeginStep ==
  ASSUME SelectionInv, NEW i \in Ids, Fresh(i), NEW g \in BOOLEAN, NEW S \in SUBSET Scope,
         g => LeaseFree, snaps' = [snaps EXCEPT ![i] = Begun(g, S)], clock' = clock
  PROVE  /\ ScansInv' /\ snaps' \in [Ids -> SnapRecord]
         /\ \A k \in Ids : Lasts(snaps[k], snaps'[k])
         /\ snaps'[i].state = "scanning" /\ snaps'[i].scopes = S /\ snaps'[i].started = clock
<1> DEFINE t == Begun(g, S)
<1>1. clock \in Nat /\ root \in 0..MaxRoot /\ snaps \in [Ids -> SnapRecord]
  BY DEF SelectionInv, SelectionBounds, Typed
<1>2. /\ t \in SnapRecord /\ t.state = "scanning" /\ t.governed = g /\ t.scopes = S
      /\ t.started = clock /\ t.valid = FALSE /\ t.held = g
  BY <1>1 DEF Begun, Absent, SnapRecord, SnapStates
<1> HIDE DEF t
<1>3. /\ snaps' \in [Ids -> SnapRecord] /\ snaps'[i] = t
      /\ \A k \in Ids \ {i} : snaps'[k] = snaps[k]
  BY <1>1, <1>2 DEF t
<1>4. snaps[i].state = "absent" /\ \A j \in Ids : j < i => snaps[j].state # "absent"
  BY DEF Fresh, Ids, SelectionInv, SelectionBounds
<1>5. \A j \in Ids : i < j => snaps[j].state = "absent"
  BY <1>4 DEF SelectionInv, ScansInv, InOrder
<1>6. \A k \in Ids : ScanFits(snaps'[k])
  <2>1. ScanFits(t)
    BY <1>1, <1>2 DEF ScanFits, Scanned, Listed
  <2> QED
    BY <1>3, <2>1 DEF SelectionInv, ScansInv
<1>7. InOrder'
  <2> SUFFICES ASSUME NEW k \in Ids, NEW j \in Ids, k < j, snaps'[k].state = "absent"
               PROVE  snaps'[j].state = "absent"
    BY DEF InOrder, Ids
  <2>1. k # i /\ snaps[k].state = "absent"
    BY <1>2, <1>3
  <2>2. snaps[j].state = "absent" /\ j # i
    BY <1>4, <2>1 DEF SelectionInv, ScansInv, InOrder
  <2> QED
    BY <1>3, <2>2
<1>8. Leased'
  <2> SUFFICES ASSUME NEW k \in Ids, NEW j \in Ids, k < j, snaps'[k].governed, snaps'[j].governed,
                      snaps'[j].state # "absent"
               PROVE  \/ snaps'[k].state = "failed"
                      \/ snaps'[k].state \in Scanned /\ snaps'[k].completed <= snaps'[j].started
    BY DEF Leased, Ids
  <2>1. CASE k # i /\ j # i
    BY <1>3, <2>1 DEF SelectionInv, ScansInv, Leased
  <2>2. CASE k = i
    BY <1>3, <1>5, <2>2 DEF Ids, SelectionInv, SelectionBounds
  <2>3. CASE j = i /\ k # i
    <3>1. snaps[k].governed /\ snaps[k].state # "absent" /\ LeaseFree
      BY <1>2, <1>3, <1>4, <2>3
    <3>2. ScanFits(snaps[k]) /\ snaps[k].state \in SnapStates
      BY ScanTyped DEF SelectionInv, ScansInv
    <3>3. snaps[k].state \in Scanned \cup {"failed"}
      BY <3>1, <3>2 DEF LeaseFree, ScanFits, SnapStates, Scanned
    <3>4. snaps[k].state \in Scanned => snaps[k].completed <= clock
      BY <3>2 DEF ScanFits
    <3> QED
      BY <1>2, <1>3, <2>3, <3>3, <3>4
  <2> QED
    BY <2>1, <2>2, <2>3
<1>9. \A k \in Ids : Lasts(snaps[k], snaps'[k])
  BY <1>3, <1>4 DEF Lasts, Scanned, Listed
<1>10. ScansInv'
  BY <1>6, <1>7, <1>8 DEF ScansInv, ScanFits, Ids
<1> QED
  BY <1>2, <1>3, <1>9, <1>10

\* A scan that goes on keeps its place in the order.
LEMMA MoveScans ==
  ASSUME SelectionInv, NEW i \in Ids, NEW t \in SnapRecord, snaps[i].state # "absent",
         Lasts(snaps[i], t), ScanFits(t), snaps' = [snaps EXCEPT ![i] = t], clock' = clock
  PROVE  /\ ScansInv' /\ snaps' \in [Ids -> SnapRecord]
         /\ \A k \in Ids : Lasts(snaps[k], snaps'[k])
<1>1. /\ snaps' \in [Ids -> SnapRecord] /\ snaps'[i] = t
      /\ \A k \in Ids \ {i} : snaps'[k] = snaps[k]
  BY DEF SelectionInv, Typed
<1>2. \A k \in Ids : Lasts(snaps[k], snaps'[k])
  BY <1>1 DEF Lasts, Scanned, Listed
<1>3. \A k \in Ids : (snaps'[k].state = "absent") <=> (snaps[k].state = "absent")
  BY <1>1 DEF Lasts
<1>4. InOrder'
  BY <1>3 DEF InOrder, Ids, SelectionInv, ScansInv
<1>5. Leased'
  <2> SUFFICES ASSUME NEW k \in Ids, NEW j \in Ids, k < j, snaps'[k].governed, snaps'[j].governed,
                      snaps'[j].state # "absent"
               PROVE  \/ snaps'[k].state = "failed"
                      \/ snaps'[k].state \in Scanned /\ snaps'[k].completed <= snaps'[j].started
    BY DEF Leased, Ids
  <2>1. snaps[j].state # "absent" /\ snaps[k].state # "absent"
    BY <1>3 DEF SelectionInv, ScansInv, InOrder
  <2>2. \/ snaps[k].state = "failed"
        \/ snaps[k].state \in Scanned /\ snaps[k].completed <= snaps[j].started
    BY <1>2, <2>1 DEF SelectionInv, ScansInv, Leased, Lasts
  <2> QED
    BY <1>2, <2>1, <2>2 DEF Lasts
<1>6. ScansInv'
  <2>1. \A k \in Ids : ScanFits(snaps'[k])
    BY <1>1 DEF SelectionInv, ScansInv
  <2> QED
    BY <1>4, <1>5, <2>1 DEF ScansInv, ScanFits, Ids
<1> QED
  BY <1>1, <1>2, <1>6

LEMMA MoveStep ==
  ASSUME SelectionInv, NEW i \in Ids, NEW t \in SnapRecord, snaps[i].state # "absent",
         Lasts(snaps[i], t), ScanFits(t), snaps' = [snaps EXCEPT ![i] = t],
         UNCHANGED <<clock, root, call>>
  PROVE  SelectionInv'
<1>1. /\ ScansInv' /\ snaps' \in [Ids -> SnapRecord]
      /\ \A k \in Ids : Lasts(snaps[k], snaps'[k])
  BY MoveScans
<1>2. CallFits'
  BY <1>1, CallLasts DEF SelectionInv
<1> QED
  BY <1>1, <1>2, InvAfter DEF SelectionInv, Typed

LEMMA ScanKeeps ==
  ASSUME SelectionInv, NEW i \in Ids, NEW g \in BOOLEAN, NEW S \in ScopeSets, Scan(i, g, S)
  PROVE  SelectionInv'
<1>1. /\ ScansInv' /\ snaps' \in [Ids -> SnapRecord]
      /\ \A k \in Ids : Lasts(snaps[k], snaps'[k])
  BY BeginStep DEF Scan, ScopeSets
<1>2. UNCHANGED <<clock, root, call>>
  BY DEF Scan
<1>3. CallFits'
  BY <1>1, <1>2, CallLasts DEF SelectionInv
<1> QED
  BY <1>1, <1>2, <1>3, InvAfter DEF SelectionInv, Typed

LEMMA CompleteKeeps ==
  ASSUME SelectionInv, NEW i \in Ids, Complete(i)
  PROVE  SelectionInv'
<1>1. PICK w \in {TRUE, ~snaps[i].governed} :
        snaps' = [snaps EXCEPT ![i].state = "done", ![i].completed = clock, ![i].whole = w]
  BY DEF Complete
<1> DEFINE s == snaps[i]
           t == [s EXCEPT !.state = "done", !.completed = clock, !.whole = w]
<1>2. s \in SnapRecord /\ clock \in Nat /\ w \in BOOLEAN /\ s.state = "scanning" /\ ScanFits(s)
  <2>1. s \in SnapRecord /\ s.governed \in BOOLEAN /\ ScanFits(s)
    BY ScanTyped DEF SelectionInv, ScansInv
  <2>2. w \in BOOLEAN
    BY <1>1, <2>1, Zenon
  <2> QED
    BY <2>1, <2>2 DEF SelectionInv, SelectionBounds, Typed, Complete
<1>3. snaps' = [snaps EXCEPT ![i] = t]
  BY <1>1, <1>2 DEF SelectionInv, Typed, SnapRecord
<1>4. /\ t \in SnapRecord /\ t.state = "done" /\ t.completed = clock /\ t.started = s.started
      /\ t.valid = s.valid /\ t.governed = s.governed /\ t.scopes = s.scopes /\ t.root = s.root
      /\ t.held = s.held
  BY <1>2 DEF SnapRecord, SnapStates
<1> HIDE DEF t
<1>5. Lasts(s, t) /\ ScanFits(t)
  BY <1>2, <1>4 DEF Lasts, ScanFits, Scanned, Listed
<1> QED
  BY <1>2, <1>3, <1>4, <1>5, MoveStep DEF Complete

LEMMA PublishKeeps ==
  ASSUME SelectionInv, NEW i \in Ids, Publish(i)
  PROVE  SelectionInv'
<1> DEFINE s == snaps[i]
           t == [s EXCEPT !.state = "published", !.valid = TRUE]
<1>1. s \in SnapRecord /\ s.state = "done" /\ ScanFits(s)
  BY ScanTyped DEF SelectionInv, Publish, ScansInv
<1>2. snaps' = [snaps EXCEPT ![i] = t]
  BY <1>1 DEF SelectionInv, Typed, SnapRecord, Publish
<1>3. /\ t \in SnapRecord /\ t.state = "published" /\ t.completed = s.completed /\ t.started = s.started
      /\ t.governed = s.governed /\ t.scopes = s.scopes /\ t.root = s.root /\ t.held = s.held
      /\ t.whole = s.whole
  BY <1>1 DEF SnapRecord, SnapStates
<1> HIDE DEF t
<1>4. Lasts(s, t) /\ ScanFits(t)
  BY <1>1, <1>3 DEF Lasts, ScanFits, Scanned, Listed
<1> QED
  BY <1>1, <1>2, <1>3, <1>4, MoveStep DEF Publish

LEMMA VerifyKeeps ==
  ASSUME SelectionInv, NEW i \in Ids, Verify(i)
  PROVE  SelectionInv'
<1> DEFINE s == snaps[i]
           t == [s EXCEPT !.state = "verified"]
<1>1. s \in SnapRecord /\ s.state = "published" /\ s.held /\ ScanFits(s)
  BY ScanTyped DEF SelectionInv, Verify, ScansInv
<1>2. snaps' = [snaps EXCEPT ![i] = t]
  BY <1>1 DEF SelectionInv, Typed, SnapRecord, Verify
<1>3. /\ t \in SnapRecord /\ t.state = "verified" /\ t.completed = s.completed /\ t.started = s.started
      /\ t.governed = s.governed /\ t.scopes = s.scopes /\ t.root = s.root /\ t.held = s.held
      /\ t.whole = s.whole
  BY <1>1 DEF SnapRecord, SnapStates
<1> HIDE DEF t
<1>4. Lasts(s, t) /\ ScanFits(t)
  BY <1>1, <1>3 DEF Lasts, ScanFits, Scanned, Listed
<1> QED
  BY <1>1, <1>2, <1>3, <1>4, MoveStep DEF Verify

\* The end of an acquisition, whatever it has come to.
LEMMA EndsStep ==
  ASSUME SelectionInv, NEW i \in Ids, Ends(i), clock' = clock
  PROVE  /\ ScansInv' /\ snaps' \in [Ids -> SnapRecord]
         /\ \A k \in Ids : Lasts(snaps[k], snaps'[k])
<1> DEFINE s == snaps[i]
<1>1. s \in SnapRecord /\ s.held /\ ScanFits(s) /\ s.state \in SnapStates
  BY ScanTyped DEF SelectionInv, Ends, ScansInv
<1>2. PICK z \in {s.state, "failed"} :
        /\ s.state = "scanning" => z = "failed"
        /\ s.state \in Listed => z # "failed"
        /\ snaps' = [snaps EXCEPT ![i].state = z, ![i].held = FALSE]
  BY DEF Ends
<1> DEFINE t == [s EXCEPT !.state = z, !.held = FALSE]
<1>3. snaps' = [snaps EXCEPT ![i] = t]
  BY <1>1, <1>2 DEF SelectionInv, Typed, SnapRecord
<1>4. z \in SnapStates
  BY <1>1 DEF SnapStates
<1>5. /\ t \in SnapRecord /\ t.state = z /\ t.completed = s.completed /\ t.started = s.started
      /\ t.governed = s.governed /\ t.scopes = s.scopes /\ t.root = s.root /\ t.held = FALSE
      /\ t.whole = s.whole /\ t.valid = s.valid
  BY <1>1, <1>4 DEF SnapRecord
<1> HIDE DEF t
<1>6. s.state # "absent"
  BY <1>1 DEF ScanFits, Scanned
<1>7. Lasts(s, t)
  BY <1>1, <1>2, <1>5, <1>6 DEF Lasts, Scanned, Listed, SnapStates
<1>8. ScanFits(t)
  BY <1>1, <1>2, <1>5 DEF ScanFits, Scanned, Listed
<1> QED
  BY <1>3, <1>5, <1>6, <1>7, <1>8, MoveScans

LEMMA ReleaseKeeps ==
  ASSUME SelectionInv, NEW i \in Ids, Release(i)
  PROVE  SelectionInv'
<1>1. /\ ScansInv' /\ snaps' \in [Ids -> SnapRecord]
      /\ \A k \in Ids : Lasts(snaps[k], snaps'[k])
  BY EndsStep DEF Release
<1>2. UNCHANGED <<clock, root, call>>
  BY DEF Release
<1>3. CallFits'
  BY <1>1, <1>2, CallLasts DEF SelectionInv
<1> QED
  BY <1>1, <1>2, <1>3, InvAfter DEF SelectionInv, Typed

LEMMA RecoverKeeps ==
  ASSUME SelectionInv, NEW i \in Ids, Recover(i)
  PROVE  SelectionInv'
<1> DEFINE s == snaps[i]
           t == [s EXCEPT !.held = TRUE]
<1>1. s \in SnapRecord /\ s.state \in {"done", "published"} /\ s.governed /\ ScanFits(s)
  BY ScanTyped DEF SelectionInv, Recover, ScansInv
<1>2. snaps' = [snaps EXCEPT ![i] = t]
  BY <1>1 DEF SelectionInv, Typed, SnapRecord, Recover
<1>3. /\ t \in SnapRecord /\ t.state = s.state /\ t.completed = s.completed /\ t.started = s.started
      /\ t.governed = s.governed /\ t.scopes = s.scopes /\ t.root = s.root /\ t.held = TRUE
      /\ t.whole = s.whole /\ t.valid = s.valid
  BY <1>1 DEF SnapRecord
<1> HIDE DEF t
<1>4. Lasts(s, t) /\ ScanFits(t)
  BY <1>1, <1>3 DEF Lasts, ScanFits, Scanned, Listed
<1> QED
  BY <1>1, <1>2, <1>3, <1>4, MoveStep DEF Recover

LEMMA DamageKeeps ==
  ASSUME SelectionInv, NEW i \in Ids, Damage(i)
  PROVE  SelectionInv'
<1> DEFINE s == snaps[i]
           t == [s EXCEPT !.valid = FALSE]
<1>1. s \in SnapRecord /\ s.state \in Listed /\ ScanFits(s)
  BY ScanTyped DEF SelectionInv, Damage, ScansInv, ScanFits
<1>2. snaps' = [snaps EXCEPT ![i] = t]
  BY <1>1 DEF SelectionInv, Typed, SnapRecord, Damage
<1>3. /\ t \in SnapRecord /\ t.state = s.state /\ t.completed = s.completed /\ t.started = s.started
      /\ t.governed = s.governed /\ t.scopes = s.scopes /\ t.root = s.root /\ t.valid = FALSE
      /\ t.whole = s.whole /\ t.held = s.held
  BY <1>1 DEF SnapRecord
<1> HIDE DEF t
<1>4. Lasts(s, t) /\ ScanFits(t)
  BY <1>1, <1>3 DEF Lasts, ScanFits, Scanned, Listed
<1> QED
  BY <1>1, <1>2, <1>3, <1>4, MoveStep DEF Damage, Listed

\* The clock ticks, or the scanned directories are replaced.
LEMMA OutsideKeeps ==
  ASSUME SelectionInv, UNCHANGED <<snaps, call>>, clock' \in 0..MaxClock, clock' >= clock,
         root' \in 0..MaxRoot
  PROVE  SelectionInv'
<1>1. clock \in Nat /\ clock' \in Nat /\ \A i \in Ids : snaps[i].started \in Nat /\ snaps[i].completed \in Nat
  BY ScanTyped DEF SelectionInv, Typed, SelectionBounds
<1>2. \A i \in Ids : ScanFits(snaps[i])'
  BY <1>1 DEF SelectionInv, ScansInv, ScanFits, Ids
<1>3. ScansInv'
  BY <1>2 DEF SelectionInv, ScansInv, InOrder, Leased, Ids
<1>4. CallFits'
  BY CallLasts DEF SelectionInv, Lasts
<1> QED
  BY <1>3, <1>4, InvAfter DEF SelectionInv, Typed

-----------------------------------------------------------------------------
(* The call.                                                               *)

LEMMA GotoDoes ==
  ASSUME Typed, NEW x \in CallStages, Goto(x)
  PROVE  /\ call' \in CallRecord /\ call'.stage = x /\ call'.action = call.action
         /\ call'.scope = call.scope /\ call'.selector = call.selector
         /\ call'.baseSelector = call.baseSelector /\ call'.target = call.target
         /\ call'.base = call.base
BY DEF Typed, Goto, CallRecord

\* A question ends without an answer.
LEMMA RefuseKeeps ==
  ASSUME SelectionInv, UNCHANGED <<clock, root, snaps>>, Refuse
  PROVE  SelectionInv'
<1>1. /\ call' \in CallRecord /\ call'.stage = "refused" /\ call'.action = call.action
      /\ call'.scope = call.scope /\ call'.target = call.target /\ call'.base = call.base
  BY GotoDoes DEF Refuse, SelectionInv, CallStages, Ended
<1>2. call.action # "REFRESH" => QuestionFits'
  BY <1>1 DEF QuestionFits, Reviewing
<1>3. call.action = "REFRESH" => RefreshFits'
  BY <1>1 DEF SelectionInv, CallFits, RefreshFits, Reviewing, Published, Ids, NoId
<1>4. ChecksFit'
  BY <1>1 DEF ChecksFit
<1> QED
  BY <1>1, <1>2, <1>3, <1>4, CallStep DEF CallFits

LEMMA AskKeeps ==
  ASSUME SelectionInv, NEW q \in Question, Ask(q)
  PROVE  SelectionInv'
<1> DEFINE x == IF q.action = "REFRESH" THEN "base" ELSE "target"
<1>1. /\ q.action \in Actions /\ q.scope \in Scope \cup {NoScope} /\ q.selector \in Selectors
      /\ q.baseSelector \in Selectors \cup {Default}
  BY DEF SelectionInv, QuestionsAreTyped, Questions
<1>2. call' = [NoCall EXCEPT !.stage = x, !.action = q.action, !.scope = q.scope,
                             !.selector = q.selector, !.baseSelector = q.baseSelector]
  BY DEF Ask
<1>3. x \in CallStages
  BY DEF CallStages
<1> HIDE DEF x
<1>4. /\ call' \in CallRecord /\ call'.stage = x /\ call'.action = q.action
      /\ call'.selector = q.selector /\ call'.target = NoId /\ call'.scope = q.scope
  <2>1. NoCall \in CallRecord /\ NoCall.target = NoId
    BY DEF NoCall, CallRecord, CallStages, Actions, NoId, SelectionInv, SelectionBounds
  <2>2. q.selector \in Selectors \cup {Default}
    BY <1>1
  <2> QED
    BY <1>1, <1>2, <1>3, <2>1, <2>2 DEF CallRecord
<1>5. CASE q.action = "REFRESH"
  <2>1. q.scope \in Scope
    BY <1>1, <1>5 DEF SelectionInv, QuestionsAreTyped, Questions
  <2>2. RefreshFits' /\ ChecksFit'
    BY <1>4, <1>5, <2>1 DEF RefreshFits, ChecksFit, Reviewing, NoId, x
  <2> QED
    BY <1>4, <1>5, <2>2, CallStep DEF Ask, CallFits
<1>6. CASE q.action # "REFRESH"
  <2>1. q.selector \in Selectors'
    BY <1>1 DEF Selectors, Ids, NoId
  <2>2. QuestionFits' /\ ChecksFit'
    BY <1>4, <1>6, <2>1 DEF QuestionFits, ChecksFit, Reviewing, x
  <2> QED
    BY <1>4, <1>6, <2>2, CallStep DEF Ask, CallFits
<1> QED
  BY <1>5, <1>6

LEMMA Policies ==
  \A z \in Selectors : z.policy \in {"EXACT_ID", "ONLY_COMPATIBLE", "LATEST_VALID"}
BY DEF Selectors

LEMMA ResolveTargetKeeps ==
  ASSUME SelectionInv, ResolveTarget
  PROVE  SelectionInv'
<1>1. call.action # "REFRESH" /\ call.selector \in Selectors /\ call.stage = "target"
  BY DEF ResolveTarget, SelectionInv, CallFits, RefreshFits, QuestionFits
<1>2. UNCHANGED <<clock, root, snaps>>
  BY DEF ResolveTarget
<1> DEFINE next == IF call.action = "INSPECT" THEN "diff" ELSE "base"
           found == Resolved(call.selector.policy, call.selector.id, NoScope)
<1>3. CASE Refuse
  BY <1>1, <1>2, <1>3, RefuseKeeps
<1>4. CASE \E j \in found : call' = [call EXCEPT !["target"] = j, !.stage = next]
  <2>1. PICK j \in found : call' = [call EXCEPT !["target"] = j, !.stage = next]
    BY <1>4
  <2>2. Published(j)
    BY <1>1, Policies, ResolvedFits DEF SelectionInv
  <2>3. j \in 0..MaxSnapshots /\ next \in CallStages
    BY <2>2 DEF Published, Ids, CallStages
  <2>4. /\ call' \in CallRecord /\ call'.stage = next /\ call'.action = call.action
        /\ call'.target = j
    BY <2>1, <2>3 DEF SelectionInv, Typed, CallRecord
  <2>5. QuestionFits' /\ ChecksFit'
    BY <1>1, <1>2, <2>2, <2>4 DEF QuestionFits, ChecksFit, Reviewing, Published, Ids
  <2> QED
    BY <1>1, <1>2, <2>4, <2>5, CallStep DEF CallFits
<1> QED
  BY <1>3, <1>4 DEF ResolveTarget, ResolveTo

LEMMA ResolveBaseKeeps ==
  ASSUME SelectionInv, ResolveBase
  PROVE  SelectionInv'
<1> DEFINE next == IF call.action = "REFRESH" THEN "preflight" ELSE "check base"
           policy == IF call.baseSelector = Default THEN "PREVIOUS_VALID" ELSE call.baseSelector.policy
           id == IF call.baseSelector = Default THEN call.target ELSE call.baseSelector.id
           s == IF call.baseSelector = Default THEN call.scope ELSE NoScope
           found == Resolved(policy, id, s)
<1>1. call.stage = "base" /\ call.baseSelector \in Selectors \cup {Default}
  BY CallTyped DEF ResolveBase, SelectionInv
<1>2. UNCHANGED <<clock, root, snaps>>
  BY DEF ResolveBase
<1>3. policy \in {"EXACT_ID", "ONLY_COMPATIBLE", "LATEST_VALID", "PREVIOUS_VALID"}
  BY <1>1, Policies
<1>4. Refuse \/ \E j \in found : call' = [call EXCEPT !["base"] = j, !.stage = next]
  BY DEF ResolveBase, ResolveTo
<1>5. CASE Refuse
  BY <1>2, <1>5, RefuseKeeps
<1>6. CASE \E j \in found : call' = [call EXCEPT !["base"] = j, !.stage = next]
  <2>1. PICK j \in found : call' = [call EXCEPT !["base"] = j, !.stage = next]
    BY <1>6
  <2>2. Published(j) /\ (call.baseSelector = Default => snaps[j].completed < snaps[call.target].completed)
    <3>1. Published(j) /\ (policy = "PREVIOUS_VALID" => snaps[j].completed < snaps[id].completed)
      <4> HIDE DEF policy, id, s
      <4> QED
        BY <1>3, ResolvedFits DEF SelectionInv
    <3> QED
      BY <3>1
  <2> HIDE DEF found, policy, id, s
  <2>3. j \in 0..MaxSnapshots /\ next \in CallStages
    BY <2>2 DEF Published, Ids, CallStages
  <2>4. /\ call' \in CallRecord /\ call'.stage = next /\ call'.action = call.action
        /\ call'.scope = call.scope /\ call'.baseSelector = call.baseSelector
        /\ call'.target = call.target /\ call'.base = j
    BY <2>1, <2>3 DEF SelectionInv, Typed, CallRecord
  <2>5. ChecksFit'
    BY <2>4 DEF ChecksFit
  <2>6. CASE call.action = "REFRESH"
    <3>1. RefreshFits'
      BY <1>1, <1>2, <2>2, <2>4, <2>6 DEF SelectionInv, CallFits, RefreshFits, Reviewing, Published, Ids, NoId
    <3> QED
      BY <1>2, <2>4, <2>5, <2>6, <3>1, CallStep DEF CallFits
  <2>7. CASE call.action # "REFRESH"
    <3>1. Published(call.target) /\ call.action # "INSPECT"
      BY <1>1, <2>7 DEF SelectionInv, CallFits, QuestionFits
    <3>2. QuestionFits'
      BY <1>2, <2>2, <2>4, <2>7, <3>1 DEF QuestionFits, Reviewing, Published, Ids, NoId, Default
    <3> QED
      BY <1>2, <2>4, <2>5, <2>7, <3>2, CallStep DEF CallFits
  <2> QED
    BY <2>6, <2>7
<1> QED
  BY <1>4, <1>5, <1>6

\* An error of a review ends a question and leaves a refresh unreviewed.
LEMMA ReviewFailsKeeps ==
  ASSUME SelectionInv, UNCHANGED <<clock, root, snaps>>, ReviewFails
  PROVE  SelectionInv'
<1>1. CASE call.action # "REFRESH"
  BY <1>1, RefuseKeeps DEF ReviewFails
<1>2. CASE call.action = "REFRESH"
  <2>1. /\ call' \in CallRecord /\ call'.stage = "unreviewed" /\ call'.action = call.action
        /\ call'.scope = call.scope /\ call'.target = call.target /\ call'.base = call.base
    BY <1>2, GotoDoes DEF ReviewFails, SelectionInv, CallStages, Ended
  <2>2. RefreshFits' /\ ChecksFit'
    BY <1>2, <2>1 DEF SelectionInv, CallFits, RefreshFits, ChecksFit, Reviewing, Published, Ids, NoId
  <2> QED
    BY <1>2, <2>1, <2>2, CallStep DEF CallFits
<1> QED
  BY <1>1, <1>2

\* A review goes on: what it rests on stays, and what was checked is known.
LEMMA ReviewGoes ==
  ASSUME SelectionInv, UNCHANGED <<clock, root, snaps>>, call.stage \in Reviewing,
         NEW x \in {"check target", "diff", "answered"}, Goto(x),
         call.action \in {"REVIEW", "REFRESH"} =>
           snaps[call.base].state = "verified" /\ snaps[call.base].whole,
         call.action \in {"REVIEW", "REFRESH"} /\ x # "check target" =>
           /\ snaps[call.target].state = "verified" /\ snaps[call.target].whole
           /\ SameBinding(call.base, call.target),
         call.action = "EXPLAIN" /\ x # "check target" =>
           snaps[call.base].completed <= snaps[call.target].started,
         call.action = "INSPECT" => x # "check target"
  PROVE  SelectionInv'
<1>1. /\ call' \in CallRecord /\ call'.stage = x /\ call'.action = call.action
      /\ call'.scope = call.scope /\ call'.baseSelector = call.baseSelector
      /\ call'.target = call.target /\ call'.base = call.base
  BY GotoDoes DEF SelectionInv, CallStages, Ended
<1>2. ChecksFit'
  BY <1>1 DEF ChecksFit, SameBinding
<1>3. CASE call.action = "REFRESH"
  <2>1. RefreshFits'
    BY <1>1, <1>3 DEF SelectionInv, CallFits, RefreshFits, Reviewing, Published, Ids, NoId
  <2> QED
    BY <1>1, <1>2, <1>3, <2>1, CallStep DEF CallFits
<1>4. CASE call.action # "REFRESH"
  <2>1. QuestionFits
    BY <1>4 DEF SelectionInv, CallFits
  <2>2. QuestionFits'
    BY <1>1, <2>1 DEF QuestionFits, Reviewing, Published, Ids, NoId, Default
  <2> QED
    BY <1>1, <1>2, <1>4, <2>2, CallStep DEF CallFits
<1> QED
  BY <1>3, <1>4

LEMMA CheckBaseKeeps ==
  ASSUME SelectionInv, CheckBase
  PROVE  SelectionInv'
<1> DEFINE ok == IF call.action = "EXPLAIN" THEN snaps[call.base].valid ELSE Supported(call.base)
<1>1. /\ call.stage = "check base" /\ UNCHANGED <<clock, root, snaps>>
      /\ IF ok THEN Goto("check target") ELSE ReviewFails
  BY DEF CheckBase, Review
<1>2. CASE ~ok
  BY <1>1, <1>2, ReviewFailsKeeps
<1>3. CASE ok
  <2>1. call.action \in {"REVIEW", "REFRESH"} => snaps[call.base].state = "verified" /\ snaps[call.base].whole
    BY <1>3 DEF Supported
  <2>2. call.action # "INSPECT"
    BY <1>1 DEF SelectionInv, CallFits, QuestionFits
  <2> QED
    BY <1>1, <1>3, <2>1, <2>2, ReviewGoes DEF Reviewing
<1> QED
  BY <1>2, <1>3

LEMMA CheckTargetKeeps ==
  ASSUME SelectionInv, CheckTarget
  PROVE  SelectionInv'
<1> DEFINE ok == IF call.action = "EXPLAIN"
                 THEN snaps[call.target].valid /\ TemporalPair(call.base, call.target)
                 ELSE Supported(call.target) /\ SameBinding(call.base, call.target)
<1>1. /\ call.stage = "check target" /\ UNCHANGED <<clock, root, snaps>>
      /\ IF ok THEN Goto("diff") ELSE ReviewFails
  BY DEF CheckTarget, Review
<1>2. CASE ~ok
  BY <1>1, <1>2, ReviewFailsKeeps
<1>3. CASE ok
  <2>1. call.action \in {"REVIEW", "REFRESH"} =>
          /\ snaps[call.base].state = "verified" /\ snaps[call.base].whole
          /\ snaps[call.target].state = "verified" /\ snaps[call.target].whole
          /\ SameBinding(call.base, call.target)
    BY <1>1, <1>3 DEF Supported, SelectionInv, CallFits, ChecksFit
  <2>2. call.action = "EXPLAIN" => snaps[call.base].completed <= snaps[call.target].started
    BY <1>3 DEF TemporalPair
  <2> QED
    BY <1>1, <1>3, <2>1, <2>2, ReviewGoes DEF Reviewing
<1> QED
  BY <1>2, <1>3

LEMMA AnswerKeeps ==
  ASSUME SelectionInv, Answer
  PROVE  SelectionInv'
<1> DEFINE ok == snaps[call.target].valid /\ (call.base # NoId => snaps[call.base].valid)
<1>1. /\ call.stage = "diff" /\ UNCHANGED <<clock, root, snaps>>
      /\ IF ok THEN Goto("answered") ELSE ReviewFails
  BY DEF Answer, Review
<1>2. CASE ~ok
  BY <1>1, <1>2, ReviewFailsKeeps
<1>3. CASE ok
  BY <1>1, <1>3, ReviewGoes DEF Reviewing, SelectionInv, CallFits, ChecksFit
<1> QED
  BY <1>2, <1>3

-----------------------------------------------------------------------------
(* The refresh.                                                            *)

LEMMA PreflightKeeps ==
  ASSUME SelectionInv, Preflight
  PROVE  SelectionInv'
<1>1. call.stage = "preflight" /\ UNCHANGED <<clock, root, snaps>> /\ (Goto("acquiring") \/ Refuse)
  BY DEF Preflight
<1>2. call.action = "REFRESH"
  BY <1>1 DEF SelectionInv, CallFits, QuestionFits, Reviewing
<1>3. call.target = NoId
  BY <1>1, <1>2 DEF SelectionInv, CallFits, RefreshFits
<1>4. CASE Refuse
  BY <1>1, <1>4, RefuseKeeps
<1>5. CASE Goto("acquiring")
  <2>1. /\ call' \in CallRecord /\ call'.stage = "acquiring" /\ call'.action = call.action
        /\ call'.scope = call.scope /\ call'.target = call.target /\ call'.base = call.base
    BY <1>5, GotoDoes DEF SelectionInv, CallStages
  <2>2. RefreshFits' /\ ChecksFit'
    BY <1>1, <1>2, <1>3, <2>1
       DEF SelectionInv, CallFits, RefreshFits, ChecksFit, Reviewing, Published, Ids, NoId
  <2> QED
    BY <1>1, <1>2, <2>1, <2>2, CallStep DEF CallFits
<1> QED
  BY <1>1, <1>4, <1>5

LEMMA AcquireKeeps ==
  ASSUME SelectionInv, NEW i \in Ids, Acquire(i)
  PROVE  SelectionInv'
<1>1. call.stage = "acquiring" /\ call.target = NoId /\ Fresh(i) /\ UNCHANGED <<clock, root>>
  BY DEF Acquire
<1>2. call.action = "REFRESH"
  BY <1>1 DEF SelectionInv, CallFits, QuestionFits, Reviewing
<1>3. RefreshFits
  BY <1>2 DEF SelectionInv, CallFits
<1>4. CASE Refuse /\ UNCHANGED snaps
  BY <1>1, <1>4, RefuseKeeps
<1>5. CASE LeaseFree /\ snaps' = [snaps EXCEPT ![i] = Begun(TRUE, {call.scope})]
           /\ call' = [call EXCEPT !.target = i]
  <2>1. {call.scope} \in SUBSET Scope
    BY <1>3 DEF RefreshFits
  <2>2. /\ ScansInv' /\ snaps' \in [Ids -> SnapRecord]
        /\ \A k \in Ids : Lasts(snaps[k], snaps'[k])
        /\ snaps'[i].state = "scanning" /\ snaps'[i].scopes = {call.scope} /\ snaps'[i].started = clock
    BY <1>1, <1>5, <2>1, BeginStep
  <2>3. i \in 0..MaxSnapshots /\ i # NoId
    BY DEF Ids, NoId, SelectionInv, SelectionBounds
  <2>4. /\ call' \in CallRecord /\ call'.stage = "acquiring" /\ call'.action = call.action
        /\ call'.scope = call.scope /\ call'.target = i /\ call'.base = call.base
    BY <1>1, <1>5, <2>3 DEF SelectionInv, Typed, CallRecord
  <2>5. /\ call.base \in Ids /\ snaps'[call.base].state \in Listed
        /\ snaps'[call.base].completed = snaps[call.base].completed
        /\ snaps[call.base].completed <= clock
    BY <1>1, <1>3, <2>2 DEF RefreshFits, Published, Lasts, SelectionInv, ScansInv, ScanFits, Listed, Scanned
  <2>6. RefreshFits' /\ ChecksFit'
    BY <1>1, <1>3, <2>2, <2>3, <2>4, <2>5 DEF RefreshFits, ChecksFit, Reviewing, Published, Ids, NoId
  <2>7. CallFits'
    BY <1>2, <2>4, <2>6 DEF CallFits
  <2> QED
    BY <1>1, <2>2, <2>4, <2>7, InvAfter DEF SelectionInv, Typed
<1> QED
  BY <1>4, <1>5 DEF Acquire

LEMMA AcquiredKeeps ==
  ASSUME SelectionInv, Acquired
  PROVE  SelectionInv'
<1> DEFINE t == snaps[call.target]
<1>1. /\ call.stage = "acquiring" /\ call.target # NoId /\ UNCHANGED <<clock, root>> /\ Ends(call.target)
      /\ \/ Refuse
         \/ t.state = "verified" /\ (Goto("partial") \/ Goto("check base"))
  BY DEF Acquired
<1>2. call.action = "REFRESH"
  BY <1>1 DEF SelectionInv, CallFits, QuestionFits, Reviewing
<1>3. RefreshFits /\ call.target \in Ids
  <2>1. RefreshFits
    BY <1>2 DEF SelectionInv, CallFits
  <2>2. call.target \in 0..MaxSnapshots /\ MaxSnapshots \in Nat
    BY CallTyped DEF SelectionInv, SelectionBounds
  <2>3. call.target # NoId
    BY <1>1
  <2>4. call.target \in Ids
    BY <2>2, <2>3 DEF Ids, NoId
  <2> QED
    BY <2>1, <2>4
<1>4. /\ ScansInv' /\ snaps' \in [Ids -> SnapRecord]
      /\ \A k \in Ids : Lasts(snaps[k], snaps'[k])
  BY <1>1, <1>3, EndsStep
<1>5. /\ call.base \in Ids /\ snaps'[call.base].state \in Listed
      /\ snaps'[call.base].completed = snaps[call.base].completed
  BY <1>1, <1>3, <1>4 DEF RefreshFits, Published, Lasts, Listed, Scanned
<1>6. /\ snaps'[call.target].state # "absent" /\ snaps'[call.target].scopes = {call.scope}
      /\ snaps'[call.base].completed <= snaps'[call.target].started
      /\ t.state = "verified" => snaps'[call.target].state = "verified"
  BY <1>1, <1>3, <1>4, <1>5 DEF RefreshFits, Lasts
<1>7. ASSUME NEW x \in {"refused", "partial", "check base"}, Goto(x),
             x = "check base" => t.state = "verified"
      PROVE  SelectionInv'
  <2>1. /\ call' \in CallRecord /\ call'.stage = x /\ call'.action = call.action
        /\ call'.scope = call.scope /\ call'.target = call.target /\ call'.base = call.base
    BY <1>7, GotoDoes DEF SelectionInv, CallStages, Ended
  <2>2. RefreshFits'
    BY <1>1, <1>3, <1>5, <1>6, <1>7, <2>1 DEF RefreshFits, Reviewing, Published, Ids, NoId, Listed
  <2>3. ChecksFit'
    BY <1>7, <2>1 DEF ChecksFit
  <2>4. CallFits'
    BY <1>2, <2>1, <2>2, <2>3 DEF CallFits
  <2> QED
    BY <1>1, <1>4, <2>1, <2>4, InvAfter DEF SelectionInv, Typed
<1> QED
  BY <1>1, <1>7 DEF Refuse

LEMMA SelectionInit ==
  ASSUME SelectionBounds, QuestionsAreTyped, Init
  PROVE  SelectionInv
<1>1. Absent \in SnapRecord /\ Absent.state = "absent" /\ Absent.started = 0 /\ ~Absent.valid
      /\ ~Absent.held
  BY DEF Absent, SnapRecord, SnapStates, SelectionBounds
<1>2. NoCall \in CallRecord /\ NoCall.stage = "none" /\ NoCall.action = "INSPECT"
  BY DEF NoCall, CallRecord, CallStages, Actions, NoId, SelectionBounds
<1> HIDE DEF Absent, NoCall
<1>3. Typed
  BY <1>1, <1>2 DEF Init, Typed, SelectionBounds
<1>4. ScansInv
  <2>1. \A i \in Ids : snaps[i] = Absent
    BY DEF Init
  <2> QED
    BY <1>1, <2>1 DEF Init, ScansInv, ScanFits, InOrder, Leased, Scanned, Listed
<1>5. CallFits
  BY <1>2 DEF Init, CallFits, QuestionFits, ChecksFit, Reviewing
<1> QED
  BY <1>3, <1>4, <1>5 DEF SelectionInv

LEMMA SelectionNext ==
  ASSUME SelectionInv, [Next]_vars
  PROVE  SelectionInv'
<1>1. clock \in 0..MaxClock /\ root \in 0..MaxRoot /\ MaxClock \in Nat /\ MaxRoot \in Nat
  BY DEF SelectionInv, Typed, SelectionBounds
<1>2. ASSUME NEW i \in Ids, NEW g \in BOOLEAN, NEW S \in ScopeSets, Scan(i, g, S)
      PROVE  SelectionInv'
  BY <1>2, ScanKeeps
<1>3. CASE \E i \in Ids : \/ Complete(i) \/ Publish(i) \/ Verify(i) \/ Release(i) \/ Recover(i)
                         \/ Damage(i) \/ Acquire(i)
  BY <1>3, CompleteKeeps, PublishKeeps, VerifyKeeps, ReleaseKeeps, RecoverKeeps, DamageKeeps, AcquireKeeps
<1>4. CASE Tick
  BY <1>1, <1>4, OutsideKeeps DEF Tick
<1>5. CASE ReplaceRoot
  BY <1>1, <1>5, OutsideKeeps DEF ReplaceRoot
<1>6. CASE \E q \in Question : Ask(q)
  BY <1>6, AskKeeps
<1>7. CASE ResolveTarget \/ ResolveBase \/ CheckBase \/ CheckTarget \/ Answer \/ Preflight \/ Acquired
  BY <1>7, ResolveTargetKeeps, ResolveBaseKeeps, CheckBaseKeeps, CheckTargetKeeps, AnswerKeeps,
     PreflightKeeps, AcquiredKeeps
<1>8. CASE UNCHANGED vars
  BY <1>1, <1>8, OutsideKeeps DEF vars
<1> QED
  BY <1>2, <1>3, <1>4, <1>5, <1>6, <1>7, <1>8 DEF Next

-----------------------------------------------------------------------------
(* The theorems.                                                           *)

LEMMA SelectionAlways ==
  ASSUME SelectionBounds, QuestionsAreTyped
  PROVE  Spec => []SelectionInv
<1>1. Init => SelectionInv
  BY SelectionInit
<1>2. SelectionInv /\ [Next]_vars => SelectionInv'
  BY SelectionNext
<1> QED
  BY <1>1, <1>2, PTL DEF Spec

\* What an answered call names.
LEMMA AnsweredNames ==
  ASSUME SelectionInv, call.stage = "answered"
  PROVE  Published(call.target) /\ (call.action # "INSPECT" => Published(call.base))
<1>1. CASE call.action = "REFRESH"
  BY <1>1 DEF SelectionInv, CallFits, RefreshFits, Reviewing
<1>2. CASE call.action # "REFRESH"
  BY <1>2 DEF SelectionInv, CallFits, QuestionFits, Reviewing
<1> QED
  BY <1>1, <1>2

(* Every clock, Snapshot and call is of its kind: a published Snapshot was  *)
(* completed after it began, only published ones are valid, and an answer   *)
(* names published Snapshots (resolve_snapshot, _history, _update).         *)
THEOREM SelectionTypesHold ==
  ASSUME SelectionBounds, QuestionsAreTyped
  PROVE  Spec => []SelectionTypeOK
<1>1. SelectionInv => SelectionTypeOK
  <2> SUFFICES ASSUME SelectionInv PROVE SelectionTypeOK
    OBVIOUS
  <2>1. /\ clock \in 0..MaxClock /\ root \in 0..MaxRoot /\ call.stage \in CallStages
        /\ clock \in Nat
    BY CallTyped DEF SelectionInv, Typed, SelectionBounds
  <2>2. ASSUME NEW i \in Ids
        PROVE  /\ snaps[i].state \in SnapStates /\ snaps[i].scopes \subseteq Scope
               /\ snaps[i].state \in Listed => snaps[i].completed \in snaps[i].started..clock
               /\ snaps[i].valid => snaps[i].state \in Listed
               /\ snaps[i].held \/ snaps[i].state = "verified" => snaps[i].governed
    <3>1. /\ snaps[i].state \in SnapStates /\ snaps[i].scopes \subseteq Scope
          /\ snaps[i].started \in Nat /\ snaps[i].completed \in Nat
      BY ScanTyped DEF SelectionInv
    <3>2. ScanFits(snaps[i])
      BY DEF SelectionInv, ScansInv
    <3> QED
      BY <2>1, <3>1, <3>2 DEF ScanFits, Listed, Scanned
  <2>3. call.stage = "answered" =>
          /\ snaps[call.target].state \in Listed
          /\ call.action # "INSPECT" => snaps[call.base].state \in Listed
    BY AnsweredNames DEF Published
  <2> QED
    BY <2>1, <2>2, <2>3 DEF SelectionTypeOK, SnapStates, CallStages, Listed
<1> QED
  BY <1>1, SelectionAlways, PTL

\* Of two supported scans, the one that completed first had ended when the
\* other began.
LEMMA SupportedInOrder ==
  ASSUME SelectionInv, NEW b, NEW t, Published(b), Published(t),
         snaps[b].governed, snaps[t].governed, snaps[b].completed < snaps[t].completed
  PROVE  snaps[b].completed <= snaps[t].started
<1>1. b \in Ids /\ t \in Ids /\ snaps[b].state \in Scanned /\ snaps[t].state \in Scanned
  BY DEF Published, Listed, Scanned
<1>2. /\ b \in Nat /\ t \in Nat
      /\ snaps[b].started \in Nat /\ snaps[b].completed \in Nat
      /\ snaps[t].started \in Nat /\ snaps[t].completed \in Nat
  BY <1>1, ScanTyped DEF SelectionInv, Ids
<1>3. CASE b < t
  BY <1>1, <1>3 DEF SelectionInv, ScansInv, Leased, Scanned
<1>4. CASE t < b
  <2>1. snaps[t].completed <= snaps[b].started
    BY <1>1, <1>4 DEF SelectionInv, ScansInv, Leased, Scanned
  <2>2. snaps[b].started <= snaps[b].completed
    BY <1>1 DEF SelectionInv, ScansInv, ScanFits
  <2> QED
    BY <1>2, <2>1, <2>2
<1>5. b # t
  BY <1>2
<1> QED
  BY <1>2, <1>3, <1>4, <1>5

(* An answer never reports a change backwards: unless the caller chose the  *)
(* base, its scan had ended when the target's began (resolve_snapshot,      *)
(* _load_sources, review_snapshot_changes).                                 *)
THEOREM PairsAreOrdered ==
  ASSUME SelectionBounds, QuestionsAreTyped
  PROVE  Spec => []DefaultPairOrdered
<1>1. SelectionInv => DefaultPairOrdered
  <2> SUFFICES ASSUME SelectionInv, call.stage = "answered", call.action # "INSPECT",
                      call.baseSelector = Default \/ call.action = "REFRESH"
               PROVE  snaps[call.base].completed <= snaps[call.target].started
    BY DEF DefaultPairOrdered
  <2>1. Published(call.target) /\ Published(call.base)
    BY AnsweredNames
  <2>2. CASE call.action = "EXPLAIN"
    BY <2>2 DEF SelectionInv, CallFits, ChecksFit
  <2>3. CASE call.action = "REFRESH"
    <3>1. call.target # NoId
      BY <2>1 DEF Published, Ids, NoId, SelectionInv, SelectionBounds
    <3> QED
      BY <2>3, <3>1 DEF SelectionInv, CallFits, RefreshFits
  <2>4. CASE call.action = "REVIEW"
    <3>1. snaps[call.base].governed /\ snaps[call.target].governed
      BY <2>1, <2>4 DEF SelectionInv, CallFits, ChecksFit, ScansInv, ScanFits, Published
    <3>2. snaps[call.base].completed < snaps[call.target].completed
      BY <2>4 DEF SelectionInv, CallFits, QuestionFits, Reviewing
    <3> QED
      BY <2>1, <3>1, <3>2, SupportedInOrder
  <2>5. call.action \in Actions
    BY CallTyped DEF SelectionInv
  <2> QED
    BY <2>2, <2>3, <2>4, <2>5 DEF Actions
<1> QED
  BY <1>1, SelectionAlways, PTL

(* A review compares two scans of one directory, both whole, though the     *)
(* directory may be replaced and the base damaged between the preflight and *)
(* the acquisition (_preflight_refresh, _stable_binding).                   *)
THEOREM OneDirectoryIsReviewed ==
  ASSUME SelectionBounds, QuestionsAreTyped
  PROVE  Spec => []ReviewsOneDirectory
<1>1. SelectionInv => ReviewsOneDirectory
  <2> SUFFICES ASSUME SelectionInv, call.stage = "answered", call.action \in {"REVIEW", "REFRESH"}
               PROVE  /\ snaps[call.base].root = snaps[call.target].root
                      /\ snaps[call.base].scopes = snaps[call.target].scopes
                      /\ snaps[call.base].whole /\ snaps[call.target].whole
                      /\ call.action = "REFRESH" => snaps[call.target].scopes = {call.scope}
    BY DEF ReviewsOneDirectory
  <2>1. /\ snaps[call.base].whole /\ snaps[call.target].whole
        /\ SameBinding(call.base, call.target)
    BY DEF SelectionInv, CallFits, ChecksFit
  <2>2. call.target # NoId
    BY AnsweredNames DEF Published, Ids, NoId, SelectionInv, SelectionBounds
  <2>3. call.action = "REFRESH" => snaps[call.target].scopes = {call.scope}
    BY <2>2 DEF SelectionInv, CallFits, RefreshFits
  <2> QED
    BY <2>1, <2>3 DEF SameBinding
<1> QED
  BY <1>1, SelectionAlways, PTL
=============================================================================
