-------------------------- MODULE SnapshotSelection --------------------------
(***************************************************************************)
(* Which Snapshots a question is answered from.  agent_session/service.py  *)
(* resolves a selector by a policy; the history and update tools of        *)
(* native_mcp_server/adapter.py resolve a target and a base one after the  *)
(* other; snapshot_refresh.py, snapshot_diff.py and pair_tracking.py check *)
(* both again before they compare them.  Meanwhile other commands scan,    *)
(* publish, and Evidence is damaged.  One call is followed; entries and    *)
(* pages are left out, a directory is the identity of its root.            *)
(***************************************************************************)
EXTENDS Naturals, FiniteSets

CONSTANTS Scope,          \* configured Scopes
          NoScope,        \* no Scope named
          MaxSnapshots,   \* bound: Snapshots ever begun
          MaxCandidates,  \* MAX_RESOLUTION_CANDIDATES
          Question,       \* what the followed call may ask
          MaxClock,       \* bound: ticks
          MaxRoot         \* bound: replacements of the scanned directories

VARIABLES clock,  \* the host's clock
          root,   \* the identity of the directories behind the Scopes
          snaps,  \* Snapshots, by the order in which their scans began
          call    \* the call that is followed

vars == <<clock, root, snaps, call>>

Ids == 1..MaxSnapshots
NoId == 0
ScopeSets == SUBSET Scope \ {{}}
Actions == {"INSPECT", "REVIEW", "EXPLAIN", "REFRESH"}
Ended == {"answered", "refused", "partial", "unreviewed"}

(* A selector of the caller; "DEFAULT" stands for no base selector.         *)
Selectors == [policy : {"EXACT_ID"}, id : Ids]
             \cup [policy : {"ONLY_COMPATIBLE", "LATEST_VALID"}, id : {NoId}]
Default == [policy |-> "DEFAULT", id |-> NoId]

(* A refresh names a Scope and a base; its target is what it acquires.      *)
Questions == {q \in [action : Actions, scope : Scope \cup {NoScope}, selector : Selectors,
                     baseSelector : Selectors \cup {Default}] :
                q.action = "REFRESH" => q.scope # NoScope /\ q.baseSelector # Default}

QuestionsAreTyped == Question \subseteq Questions
SelectionBounds == MaxSnapshots \in Nat /\ MaxClock \in Nat /\ MaxRoot \in Nat

(* "done" is scanned, "published" closed and indexed, "verified" the end.    *)
Absent == [state |-> "absent", governed |-> FALSE, held |-> FALSE, scopes |-> {}, root |-> 0,
           started |-> 0, completed |-> 0, whole |-> TRUE, valid |-> FALSE]
Listed == {"published", "verified"}
NoCall == [stage |-> "none", action |-> "INSPECT", scope |-> NoScope, selector |-> Default,
           baseSelector |-> Default, target |-> NoId, base |-> NoId]

SelectionTypeOK ==
    /\ clock \in 0..MaxClock /\ root \in 0..MaxRoot
    /\ \A i \in Ids :
         /\ snaps[i].state \in {"absent", "scanning", "done", "failed"} \cup Listed
         /\ snaps[i].scopes \subseteq Scope
         /\ snaps[i].state \in Listed => snaps[i].completed \in snaps[i].started..clock
         /\ snaps[i].valid => snaps[i].state \in Listed
         /\ snaps[i].held \/ snaps[i].state = "verified" => snaps[i].governed
    /\ call.stage \in {"none", "target", "base", "preflight", "acquiring", "check base",
                       "check target", "diff"} \cup Ended
    /\ call.stage = "answered" =>
         /\ snaps[call.target].state \in Listed
         /\ call.action # "INSPECT" => snaps[call.base].state \in Listed

Init ==
    /\ clock = 0 /\ root = 0
    /\ snaps = [i \in Ids |-> Absent]
    /\ call = NoCall

-----------------------------------------------------------------------------
(* Scans: a supported acquisition scans one Scope and holds the lease from  *)
(* its first step to its last, a plain scan takes any Scopes beside it;     *)
(* created_at is the time the scan completed.                               *)
LeaseIgnored == TRUE  \* deviation: acquisitions overlap

LeaseFree == \A i \in Ids : ~snaps[i].held

Fresh(i) == snaps[i].state = "absent" /\ \A j \in 1..(i - 1) : snaps[j].state # "absent"

Begun(governed, scopes) ==
    [Absent EXCEPT !.state = "scanning", !.governed = governed, !.held = governed,
                   !.scopes = scopes, !.root = root, !.started = clock]

Scan(i, governed, scopes) ==
    /\ Fresh(i)
    /\ governed => LeaseFree /\ Cardinality(scopes) = 1
    /\ snaps' = [snaps EXCEPT ![i] = Begun(governed, scopes)]
    /\ UNCHANGED <<clock, root, call>>

Complete(i) ==
    /\ snaps[i].state = "scanning"
    /\ \E whole \in {TRUE, ~snaps[i].governed} :
         snaps' = [snaps EXCEPT ![i].state = "done", ![i].completed = clock, ![i].whole = whole]
    /\ UNCHANGED <<clock, root, call>>

PublishUnfinished(i) ==  \* deviation: published before created_at was taken
    /\ snaps[i].state \in {"scanning", "done"}
    /\ snaps' = [snaps EXCEPT ![i].state = "published", ![i].valid = TRUE]
    /\ UNCHANGED <<clock, root, call>>

(* The Run is closed: of an acquisition, or of a recovery that finishes it. *)
Publish(i) ==
    /\ snaps[i].state = "done" /\ (snaps[i].governed => snaps[i].held)
    /\ snaps' = [snaps EXCEPT ![i].state = "published", ![i].valid = TRUE]
    /\ UNCHANGED <<clock, root, call>>

Verify(i) ==
    /\ snaps[i].state = "published" /\ snaps[i].held /\ snaps[i].valid
    /\ snaps' = [snaps EXCEPT ![i].state = "verified"]
    /\ UNCHANGED <<clock, root, call>>

(* An acquisition ends with a report or an error, at any stage, also after  *)
(* its Snapshot is published or verified; one that had scanned may have     *)
(* left Evidence that a recovery will publish.                              *)
Ends(i) ==
    /\ snaps[i].held
    /\ \E state \in {snaps[i].state, "failed"} :
         /\ snaps[i].state = "scanning" => state = "failed"
         /\ snaps[i].state \in Listed => state # "failed"
         /\ snaps' = [snaps EXCEPT ![i].state = state, ![i].held = FALSE]

Release(i) ==
    /\ ~(call.stage = "acquiring" /\ call.target = i)
    /\ Ends(i)
    /\ UNCHANGED <<clock, root, call>>

Recover(i) ==
    /\ LeaseFree /\ snaps[i].governed /\ snaps[i].state \in {"done", "published"}
    /\ snaps' = [snaps EXCEPT ![i].held = TRUE]
    /\ UNCHANGED <<clock, root, call>>

Damage(i) ==
    /\ snaps[i].valid
    /\ snaps' = [snaps EXCEPT ![i].valid = FALSE]
    /\ UNCHANGED <<clock, root, call>>

Tick == clock < MaxClock /\ clock' = clock + 1 /\ UNCHANGED <<root, snaps, call>>
ReplaceRoot == root < MaxRoot /\ root' = root + 1 /\ UNCHANGED <<clock, snaps, call>>

-----------------------------------------------------------------------------
(* resolve_snapshot: the Snapshots a policy leaves; one must remain.        *)
Rows == {i \in Ids : snaps[i].state \in Listed}
Compatible(i, s) == s = NoScope \/ s \in snaps[i].scopes
ValidCandidates(s) == {i \in Rows : snaps[i].valid /\ Compatible(i, s)}
ExactValid(i, s) == {i} \cap ValidCandidates(s)
Newest(S) == {i \in S : \A j \in S : snaps[j].completed <= snaps[i].completed}

PreviousTo(a, s) ==
    Newest({i \in ValidCandidates(s) : snaps[i].completed < snaps[a].completed
                                       /\ (s = NoScope => snaps[i].scopes = snaps[a].scopes)})

Resolved(policy, i, s) ==
    CASE policy = "EXACT_ID" -> ExactValid(i, s)
      [] Cardinality(Rows) > MaxCandidates -> {}
      [] policy = "ONLY_COMPATIBLE" -> ValidCandidates(s)
      [] policy = "LATEST_VALID" -> Newest(ValidCandidates(s))
      [] policy = "PREVIOUS_VALID" -> IF ExactValid(i, s) = {} THEN {} ELSE PreviousTo(i, s)

Goto(stage) == call' = [call EXCEPT !.stage = stage]
Refuse == Goto("refused")

(* A second resolution may find what the first did not: other commands run. *)
ResolveTo(field, policy, i, s, next) ==
    LET found == Resolved(policy, i, s)
    IN  IF Cardinality(found) # 1 THEN Refuse
        ELSE \E j \in found : call' = [call EXCEPT ![field] = j, !.stage = next]

(* _history and _update: the caller names an action, selectors and a Scope. *)
Ask(q) ==
    /\ call.stage = "none"
    /\ call' = [NoCall EXCEPT !.stage = IF q.action = "REFRESH" THEN "base" ELSE "target",
                              !.action = q.action, !.scope = q.scope,
                              !.selector = q.selector, !.baseSelector = q.baseSelector]
    /\ UNCHANGED <<clock, root, snaps>>

ResolveTarget ==
    /\ call.stage = "target"
    /\ ResolveTo("target", call.selector.policy, call.selector.id, NoScope,
                 IF call.action = "INSPECT" THEN "diff" ELSE "base")
    /\ UNCHANGED <<clock, root, snaps>>

ResolveBase ==
    /\ call.stage = "base"
    /\ LET next == IF call.action = "REFRESH" THEN "preflight" ELSE "check base"
       IN  IF call.baseSelector = Default
           THEN ResolveTo("base", "PREVIOUS_VALID", call.target, call.scope, next)
           ELSE ResolveTo("base", call.baseSelector.policy, call.baseSelector.id, NoScope, next)
    /\ UNCHANGED <<clock, root, snaps>>

-----------------------------------------------------------------------------
(* _context: complete, terminal evidence of one supported acquisition.      *)
Supported(i) == snaps[i].valid /\ snaps[i].state = "verified" /\ snaps[i].whole

SameScopeOnly(b, t) == snaps[b].scopes = snaps[t].scopes  \* deviation: bindings not compared

SameBinding(b, t) == snaps[b].scopes = snaps[t].scopes /\ snaps[b].root = snaps[t].root

(* An error ends a question; in a refresh it only ends the review.          *)
ReviewFails == IF call.action = "REFRESH" THEN Goto("unreviewed") ELSE Refuse

Review(ok, next) == IF ok THEN Goto(next) ELSE ReviewFails

CheckBase ==
    /\ call.stage = "check base"
    /\ Review(IF call.action = "EXPLAIN" THEN snaps[call.base].valid ELSE Supported(call.base),
              "check target")
    /\ UNCHANGED <<clock, root, snaps>>

Unordered(b, t) == b # t  \* deviation: pair tracking accepts any two Snapshots

(* _load_sources: two Snapshots, the base completed before the target began.*)
TemporalPair(b, t) == b # t /\ snaps[b].completed <= snaps[t].started

CheckTarget ==
    /\ call.stage = "check target"
    /\ Review(IF call.action = "EXPLAIN"
              THEN snaps[call.target].valid /\ TemporalPair(call.base, call.target)
              ELSE Supported(call.target) /\ SameBinding(call.base, call.target),
              "diff")
    /\ UNCHANGED <<clock, root, snaps>>

(* compute_verified_snapshot_diff, or the verified detail of one Snapshot.  *)
Answer ==
    /\ call.stage = "diff"
    /\ Review(snaps[call.target].valid /\ (call.base # NoId => snaps[call.base].valid), "answered")
    /\ UNCHANGED <<clock, root, snaps>>

-----------------------------------------------------------------------------
(* _refresh_snapshot: preflight of the base, one acquisition, one review.   *)
Preflight ==
    /\ call.stage = "preflight"
    /\ IF Supported(call.base) /\ snaps[call.base].scopes = {call.scope}
          /\ snaps[call.base].root = root
       THEN Goto("acquiring") ELSE Refuse
    /\ UNCHANGED <<clock, root, snaps>>

Acquire(i) ==
    /\ call.stage = "acquiring" /\ call.target = NoId
    /\ Fresh(i)
    /\ IF LeaseFree
       THEN /\ snaps' = [snaps EXCEPT ![i] = Begun(TRUE, {call.scope})]
            /\ call' = [call EXCEPT !.target = i]
       ELSE Refuse /\ UNCHANGED snaps
    /\ UNCHANGED <<clock, root>>

(* Only what the acquisition reports as verified is reviewed; its error is  *)
(* the refresh's, whatever the acquisition has left.                        *)
Acquired ==
    /\ call.stage = "acquiring" /\ call.target # NoId
    /\ Ends(call.target)
    /\ LET t == snaps[call.target]
       IN  \/ Refuse
           \/ t.state = "verified" /\ Goto(IF t.whole THEN "check base" ELSE "partial")
    /\ UNCHANGED <<clock, root>>

Next ==
    \/ \E i \in Ids : \/ \E g \in BOOLEAN, S \in ScopeSets : Scan(i, g, S)
                      \/ Complete(i) \/ Publish(i) \/ Verify(i) \/ Release(i)
                      \/ Recover(i) \/ Damage(i) \/ Acquire(i)
    \/ Tick \/ ReplaceRoot
    \/ \E q \in Question : Ask(q)
    \/ ResolveTarget \/ ResolveBase \/ CheckBase \/ CheckTarget \/ Answer
    \/ Preflight \/ Acquired

Spec == Init /\ [][Next]_vars

-----------------------------------------------------------------------------
(* An answer never reports a change backwards: unless the caller chose the  *)
(* base, the base's scan had ended when the target's began, so CREATED and  *)
(* DELETED have one meaning.  A review does not check this itself; it rests *)
(* on PREVIOUS_VALID and on the lease, which a recovery may take to publish *)
(* an old scan beside newer ones (resolve_snapshot, _load_sources,          *)
(* review_snapshot_changes, recover_snapshot_acquisition).                  *)
DefaultPairOrdered ==
    call.stage = "answered" /\ call.action # "INSPECT"
      /\ (call.baseSelector = Default \/ call.action = "REFRESH") =>
        snaps[call.base].completed <= snaps[call.target].started

(* A review compares two scans of one directory, though the directory may   *)
(* be replaced, and the base damaged, between the preflight and the         *)
(* acquisition (_preflight_refresh, _stable_binding).                       *)
ReviewsOneDirectory ==
    call.stage = "answered" /\ call.action \in {"REVIEW", "REFRESH"} =>
        LET b == snaps[call.base]
            t == snaps[call.target]
        IN  /\ b.root = t.root /\ b.scopes = t.scopes /\ b.whole /\ t.whole
            /\ call.action = "REFRESH" => t.scopes = {call.scope}
=============================================================================
