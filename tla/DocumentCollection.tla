------------------------- MODULE DocumentCollection -------------------------
(***************************************************************************)
(* Finding documents by name and reading them (document_discovery.py,      *)
(* document_collection.py and NativeStewardDispatcher._document and        *)
(* _document_evidence_set).  One call reads the one document that matches; *)
(* or a chain of calls reads a set of them, a batch in each call, planning *)
(* the set anew every time.  The files change in between.                  *)
(***************************************************************************)
EXTENDS Integers, Sequences, SequencesExt, FiniteSets

CONSTANTS Name,            \* files of the Scope that the extensions admit
          Suffix,          \* name -> its suffix, in capitals
          Rank,            \* name -> how well it matches the query
          Matching,        \* the names that match
          MaxDocuments, BatchSize,
          Limits,          \* limits a request for one document may give
          Partial,         \* may a scan run out of its budget?
          Modes,           \* "one", "current", "snapshot"
          MaxChanges       \* bound: changes of files

Gone == [kind |-> "none", version |-> 0]
States == [kind : {"file", "other"}, version : 0..MaxChanges] \cup {Gone}

VARIABLES mode,
          file,       \* name -> what is there now
          recorded,   \* name -> what the verified Snapshot holds of it
          changes,
          pc, limit,
          plan,       \* the candidates of this call
          matched,    \* names that matched in its scan
          whole,      \* did that scan see everything?
          token,      \* the continuation this call was given
          index, identity,
          items,      \* results of this call
          got,        \* results of the chain
          selected    \* the one document that was read

vars == <<mode, file, recorded, changes, pc, limit, plan, matched, whole, token,
          index, identity, items, got, selected>>

NoToken == [plan |-> << >>, next |-> 0]
NoIdentity == [relation |-> "none", version |-> 0]

CollectionTypeOK ==
    /\ file \in [Name -> States] /\ recorded \in [Name -> States]
    /\ pc \in {"ask", "plan", "revalidate", "inspect", "return", "end"}
    /\ Len(plan) <= MaxDocuments /\ index \in 0..Len(plan)
    /\ Len(items) <= BatchSize
    /\ token.next \in 0..MaxDocuments
    /\ selected \in Name \cup {"none"}

CollectionInit ==
    /\ mode \in Modes
    /\ file \in [Name -> {Gone, [kind |-> "file", version |-> 0]}]
    /\ recorded = file
    /\ changes = 0 /\ pc = "ask" /\ limit = MaxDocuments
    /\ plan = << >> /\ matched = {} /\ whole = TRUE /\ token = NoToken
    /\ index = 0 /\ identity = NoIdentity /\ items = << >> /\ got = << >>
    /\ selected = "none"

(***************************************************************************)
(* Candidates: what matches, best match and newest first.                  *)
(***************************************************************************)
Discovered(seen) == {n \in seen \cap Matching : file[n].kind = "file"}
Remembered == {n \in Matching : recorded[n].kind = "file"}

CurrentFormat(n) == IF Suffix[n] = "M4V" THEN "MP4" ELSE Suffix[n]
SnapshotFormat(n) == Suffix[n]

CurrentCandidate(n) == [name |-> n, version |-> file[n].version, format |-> CurrentFormat(n)]
SnapshotCandidate(n) == [name |-> n, version |-> recorded[n].version, format |-> SnapshotFormat(n)]

Better(a, b) ==
    \/ Rank[a.name] < Rank[b.name]
    \/ Rank[a.name] = Rank[b.name] /\ a.version > b.version
    \/ Rank[a.name] = Rank[b.name] /\ a.version = b.version /\ a.name # b.name
         /\ \E order \in {SetToSeq(Name)} : \E i, j \in DOMAIN order :
               i < j /\ order[i] = a.name /\ order[j] = b.name

Best(candidates, n) ==
    LET ranked == SetToSortSeq(candidates, Better)
    IN SubSeq(ranked, 1, IF Len(ranked) < n THEN Len(ranked) ELSE n)

Files == UNCHANGED <<mode, file, recorded, changes>>

Ask ==
    /\ pc = "ask" /\ pc' = "plan"
    /\ limit' \in IF mode = "one" THEN Limits ELSE {MaxDocuments}
    /\ Files /\ UNCHANGED <<plan, matched, whole, token, index, identity, items, got, selected>>

(* A scan that runs out of its budget has seen a part of the files. *)
Scanned == IF Partial THEN SUBSET Name ELSE {Name}

\* deviation: the digest of the candidates is not compared
AcceptedAnyPlan(candidates) == token = NoToken \/ token.next < Len(candidates)

\* deviation: a continuation at the last candidate is refused
AcceptedBeforeLast(candidates) ==
    token = NoToken \/ (token.plan = candidates /\ token.next < Len(candidates) - 1)

Accepted(candidates) ==
    token = NoToken \/ (token.plan = candidates /\ token.next < Len(candidates))

(* The plan is made; a continuation must be of the same candidates. *)
PlanCandidates(candidates, complete) ==
    /\ plan' = candidates /\ whole' = complete
    /\ IF Accepted(candidates)
       THEN pc' = "revalidate" /\ index' = token.next /\ UNCHANGED <<token, got>>
       ELSE pc' = "ask" /\ index' = 0 /\ token' = NoToken /\ got' = << >>
    /\ items' = << >>
    /\ Files /\ UNCHANGED <<limit, identity, selected>>

PlanSnapshot ==
    /\ pc = "plan" /\ mode = "snapshot" /\ matched' = Remembered
    /\ PlanCandidates(Best({SnapshotCandidate(n) : n \in Remembered}, MaxDocuments), TRUE)

PlanCurrent ==
    /\ pc = "plan" /\ mode = "current"
    /\ \E seen \in Scanned :
        /\ matched' = Discovered(seen)
        /\ PlanCandidates(Best({CurrentCandidate(n) : n \in Discovered(seen)}, MaxDocuments),
                          seen = Name)

(***************************************************************************)
(* The one document of a query: read at once if there is a single          *)
(* candidate, else the candidates are returned.                            *)
(***************************************************************************)
\* deviation: the best candidate is read whatever the others
UniqueOfBest(candidates) == candidates # << >>

Unique(candidates) == Len(candidates) = 1

PlanOne ==
    /\ pc = "plan" /\ mode = "one"
    /\ \E seen \in Scanned :
        LET candidates == Best({CurrentCandidate(n) : n \in Discovered(seen)}, limit) IN
        /\ matched' = Discovered(seen) /\ whole' = (seen = Name)
        /\ selected' = IF Unique(candidates) THEN candidates[1].name ELSE "none"
        /\ plan' = candidates /\ pc' = "end"
    /\ Files /\ UNCHANGED <<limit, token, index, identity, items, got>>

(***************************************************************************)
(* A batch: each candidate is admitted again as a current file, then read. *)
(***************************************************************************)
\* deviation: a batch is the whole set
StopAtEnd == Len(plan)

Stop == IF token.next + BatchSize < Len(plan) THEN token.next + BatchSize ELSE Len(plan)
Candidate == plan[index + 1]

Item(status, version) ==
    [index |-> index, candidate |-> Candidate, status |-> status,
     identity |-> identity, read |-> version]

MoveOn(item) ==
    /\ items' = Append(items, item)
    /\ index' = index + 1
    /\ pc' = IF index + 1 < Stop THEN "revalidate" ELSE "return"

RevalidatedFormat(n) ==
    IF Suffix[n] = "JPG" THEN "JPEG" ELSE IF Suffix[n] = "TIF" THEN "TIFF" ELSE Suffix[n]

Revalidate ==
    /\ pc = "revalidate" /\ index < Stop
    /\ LET now == file[Candidate.name] IN
       IF now.kind = "file" /\ RevalidatedFormat(Candidate.name) = Candidate.format
       THEN /\ identity' = [relation |-> IF now.version = Candidate.version
                                         THEN "METADATA_MATCH" ELSE "METADATA_CHANGED",
                            version |-> now.version]
            /\ pc' = "inspect" /\ UNCHANGED <<items, index>>
       ELSE /\ identity' = NoIdentity
            /\ MoveOn([Item("FAILED", 0) EXCEPT !.identity = NoIdentity])
    /\ Files /\ UNCHANGED <<limit, plan, matched, whole, token, got, selected>>

(* The document is copied and parsed as it is now; every failure is kept. *)
Inspect ==
    /\ pc = "inspect"
    /\ LET now == file[Candidate.name] IN
       \E status \in IF now.kind = "file" THEN {"COMPLETE", "NO_EVIDENCE", "FAILED"} ELSE {"FAILED"} :
          MoveOn(Item(status, now.version))
    /\ Files /\ UNCHANGED <<limit, plan, matched, whole, token, identity, got, selected>>

NextIndex == Stop

Return ==
    /\ pc \in {"revalidate", "return"} /\ (pc = "revalidate" => index >= Stop)
    /\ got' = got \o items /\ items' = << >>
    /\ IF Stop < Len(plan)
       THEN token' = [plan |-> plan, next |-> NextIndex] /\ pc' = "ask"
       ELSE UNCHANGED token /\ pc' = "end"
    /\ Files /\ UNCHANGED <<limit, plan, matched, whole, index, identity, selected>>

(* A file is written, replaced by something else, or removed. *)
Change ==
    /\ pc # "end" /\ changes < MaxChanges /\ changes' = changes + 1
    /\ \E n \in Name, s \in {[kind |-> "file", version |-> changes'],
                             [kind |-> "other", version |-> changes'], Gone} :
          file' = [file EXCEPT ![n] = s]
    /\ UNCHANGED <<mode, recorded, pc, limit, plan, matched, whole, token, index, identity,
                   items, got, selected>>

Step == Ask \/ PlanSnapshot \/ PlanCurrent \/ PlanOne \/ Revalidate \/ Inspect \/ Return
CollectionNext == Step \/ Change

CollectionSpec == CollectionInit /\ [][CollectionNext]_vars
(* Every call returns, its work being bounded, and the caller goes on. *)
CollectionFairSpec == CollectionSpec /\ WF_vars(Step)

(***************************************************************************)
(* Properties.                                                             *)
(***************************************************************************)
(* A chain gives every candidate of one set once, in order, and a document *)
(* that fails costs no other its turn (_document_evidence_set).            *)
EachOnce ==
    /\ \A i \in DOMAIN got : got[i].index = i - 1
    /\ pc = "end" /\ mode # "one" =>
        /\ Len(got) = Len(plan)
        /\ \A i \in DOMAIN got : got[i].candidate = plan[i]

IsOver == pc = "end"

(* A caller that follows the continuations, and begins again when one is   *)
(* refused, comes to the end once the files rest.                          *)
CollectionEnds == <>IsOver

(* A document that is read as the one that matches the query is the only   *)
(* one that matches it (_document, QUERY_UNIQUE).                          *)
UniqueIsUnique ==
    selected # "none" => whole /\ matched = {selected}

(* A file that is there as it was planned is not refused admission.        *)
SameFileIsAdmitted ==
    \A i \in DOMAIN got :
        got[i].identity = NoIdentity /\ got[i].status = "FAILED" => changes > 0

(* What is published of a current document, its size and times and the     *)
(* digest of its bytes, is of one version of it.                           *)
ItemIsOfOneVersion ==
    \A i \in DOMAIN got :
        got[i].status # "FAILED" => got[i].identity.version = got[i].read
=============================================================================
