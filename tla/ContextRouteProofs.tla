------------------------- MODULE ContextRouteProofs -------------------------
(***************************************************************************)
(* Theorems of ContextRoute, for any number of calls and any requests.     *)
(*                                                                         *)
(* That the product is asked once for a grant is a fact about calls that   *)
(* are under way: the grant is consumed before the await, so of the calls  *)
(* that wait for the product no two have one grant, and none has a grant   *)
(* the product was asked with before (GrantsAreSpent).  That an envelope   *)
(* names every Snapshot follows from what was granted: only a request      *)
(* whose Snapshots are as many as its operation reads.                     *)
(***************************************************************************)
EXTENDS ContextRoute, TLAPS

\* A grant is consumed before the product is asked, and by one call.
GrantsAreSpent ==
  /\ \A r \in Request : accesses[r] <= 1 /\ (accesses[r] # 0 => r \in consumed)
  /\ \A c \in Call : phase[c] = "granted" =>
       /\ request[c] \in Request
       /\ Decision(request[c]) = "CONTEXT"
       /\ request[c] \in consumed
       /\ accesses[request[c]] = 0
       /\ \A d \in Call \ {c} : phase[d] = "granted" => request[d] # request[c]

\* The inductive invariant.
RouteInvariant == RouteTypeOK /\ GrantsAreSpent /\ EnvelopesSound

-----------------------------------------------------------------------------
(* The routing decision.                                                   *)

LEMMA GrantIsRequest == \A r : Grant(r) = r
BY DEF Grant

\* What is granted is a context operation with as many Snapshots as its
\* envelope must have provenance for.
LEMMA GrantedFacts ==
  ASSUME NEW r \in Requests, Decision(r) = "CONTEXT"
  PROVE  /\ r.operation \in {Diagnostic, Explanation}
         /\ r.snapshots = ProvenanceMinimum(r.operation)
<1>1. r.operation \in {Diagnostic, Explanation} /\ Missing(r) = {}
  BY DEF Decision, IsContext, Operations
<1>2. SnapshotCount(r.operation) \in {3, r.snapshots}
  BY <1>1 DEF Missing
<1>3. CASE r.operation = Diagnostic
  <2>1. SnapshotCount(r.operation) = 1 /\ ProvenanceMinimum(r.operation) = 1
    BY <1>3 DEF SnapshotCount, ProvenanceMinimum
  <2> QED
    BY <1>1, <1>2, <2>1
<1>4. CASE r.operation = Explanation
  <2>1. SnapshotCount(r.operation) = 2 /\ ProvenanceMinimum(r.operation) = 2
    BY <1>4 DEF SnapshotCount, ProvenanceMinimum, Explanation, Inspection, Resolution, Diagnostic
  <2> QED
    BY <1>1, <1>2, <2>1
<1> QED
  BY <1>1, <1>3, <1>4

LEMMA Decisions ==
  ASSUME NEW r \in Requests
  PROVE  /\ Decision(r) \in {"UNSUPPORTED", "CLARIFY", "CONTEXT", "CORE"}
         /\ Decision(r) \in {"CONTEXT", "CORE"} => r.operation \in Operations
BY DEF Decision

\* A failure publishes no facts, and nothing at all without a route.
LEMMA FailureFacts ==
  ASSUME NEW r \in Requests, NEW code \in Codes
  PROVE  /\ Failure(r, code) \in Envelopes
         /\ Failure(r, code).code = code /\ ~Failure(r, code).pack
         /\ Failure(r, code).publication # NoPayload => ~Failure(r, code).publication.facts
         /\ Decision(r) \notin {"CONTEXT", "CORE"} => Failure(r, code).publication = NoPayload
<1> DEFINE p == Payload(r, "ERROR", FALSE, 0, {"NO_BUSINESS_RESULT"})
<1>1. p = [decision |-> Decision(r), operation |-> r.operation, status |-> "ERROR",
           facts |-> FALSE, provenance |-> 0, boundary |-> {"NO_BUSINESS_RESULT"}]
  BY DEF Payload
<1>2. Failure(r, code) = [code |-> code, publication |-> IF Publishable(p) THEN p ELSE NoPayload,
                          pack |-> FALSE]
  BY DEF Failure
<1> HIDE DEF p
<1>3. Publishable(p) => Decision(r) \in {"CORE", "CONTEXT"}
  BY <1>1 DEF Publishable
<1>4. Publishable(p) => p \in Payloads /\ ~p.facts
  BY <1>1, <1>3, Decisions DEF Payloads
<1> QED
  BY <1>2, <1>3, <1>4 DEF Envelopes

\* An envelope with a result has the provenance its operation needs.
LEMMA PublishedFacts ==
  ASSUME NamesAreFree, NEW r \in Requests, Decision(r) = "CONTEXT", NEW n \in 0..2
  PROVE  /\ Published(r, n) \in Envelopes
         /\ Published(r, n).code \in {"OK", "UNAVAILABLE"}
         /\ Published(r, n).code = "OK" =>
              /\ Published(r, n).pack /\ Published(r, n).publication # NoPayload
              /\ Published(r, n).publication.provenance >= r.snapshots
         /\ Published(r, n).code # "OK" =>
              /\ ~Published(r, n).pack
              /\ Published(r, n).publication # NoPayload => ~Published(r, n).publication.facts
<1> DEFINE p == Payload(r, "OK", TRUE, n, {"BOUNDED_RESULT", "HISTORICAL_NOT_CURRENT"})
<1>1. p = [decision |-> "CONTEXT", operation |-> r.operation, status |-> "OK", facts |-> TRUE,
           provenance |-> n, boundary |-> {"BOUNDED_RESULT", "HISTORICAL_NOT_CURRENT"}]
  BY DEF Payload
<1>2. Published(r, n) = IF Publishable(p) THEN [code |-> "OK", publication |-> p, pack |-> TRUE]
                                          ELSE Failure(r, "UNAVAILABLE")
  BY DEF Published
<1> HIDE DEF p
<1>3. r.operation \in Operations /\ r.snapshots = ProvenanceMinimum(r.operation)
  BY GrantedFacts, Decisions
<1>4. p \in Payloads
  BY <1>1, <1>3 DEF Payloads
<1>5. Publishable(p) => n >= ProvenanceMinimum(r.operation)
  BY <1>1 DEF Publishable
<1>6. p # NoPayload /\ p.provenance = n
  BY <1>1, <1>4 DEF NamesAreFree
<1>7. CASE Publishable(p)
  BY <1>3, <1>4, <1>5, <1>6, <1>2, <1>7 DEF Envelopes, Codes
<1>8. CASE ~Publishable(p)
  BY <1>2, <1>8, FailureFacts DEF Codes
<1> QED
  BY <1>7, <1>8

-----------------------------------------------------------------------------
LEMMA InitRoute == Init => RouteInvariant
<1> SUFFICES ASSUME Init PROVE RouteInvariant
  OBVIOUS
<1>1. NoAnswer \in Envelopes /\ NoAnswer.code = "none"
  BY DEF NoAnswer, Envelopes, Codes
<1>2. RouteTypeOK /\ EnvelopesSound
  BY <1>1 DEF Init, RouteTypeOK, EnvelopesSound
<1>3. GrantsAreSpent
  BY DEF Init, GrantsAreSpent
<1> QED
  BY <1>2, <1>3 DEF RouteInvariant

\* A call is answered with a failure before it has a grant.
LEMMA RefuseKeeps ==
  ASSUME RouteInvariant, NEW c \in Call, NEW r \in Request, phase[c] = "new",
         NEW a \in Envelopes, a.code \notin {"none", "OK"}, ~a.pack,
         a.publication # NoPayload => ~a.publication.facts,
         a.code \in {"CLARIFY", "UNSUPPORTED", "ARGUMENT_INVALID"} => a.publication = NoPayload,
         request' = [request EXCEPT ![c] = r], Answered(c, a), UNCHANGED <<consumed, accesses>>
  PROVE  RouteInvariant'
<1>1. RouteTypeOK'
  BY DEF RouteInvariant, RouteTypeOK, Answered
<1>2. /\ answer'[c] = a /\ request'[c] = r /\ phase'[c] = "answered"
      /\ \A d \in Call : d # c => /\ answer'[d] = answer[d] /\ request'[d] = request[d]
                                  /\ phase'[d] = phase[d]
  BY DEF RouteInvariant, RouteTypeOK, Answered
<1>3. GrantsAreSpent'
  BY <1>2 DEF RouteInvariant, GrantsAreSpent
<1>4. EnvelopesSound'
  <2> SUFFICES ASSUME NEW d \in Call
               PROVE  /\ answer'[d].code = "OK" =>
                           /\ answer'[d].pack /\ answer'[d].publication # NoPayload
                           /\ answer'[d].publication.provenance >= request'[d].snapshots
                           /\ Grant(request'[d]) \in consumed'
                      /\ answer'[d].code \notin {"OK", "none"} =>
                           /\ ~answer'[d].pack
                           /\ answer'[d].publication # NoPayload => ~answer'[d].publication.facts
                           /\ answer'[d].code \in {"CLARIFY", "UNSUPPORTED", "ARGUMENT_INVALID"} =>
                                answer'[d].publication = NoPayload
    BY DEF EnvelopesSound
  <2>1. CASE d = c
    BY <1>2, <2>1
  <2>2. CASE d # c
    BY <1>2, <2>2 DEF RouteInvariant, EnvelopesSound
  <2> QED
    BY <2>1, <2>2
<1> QED
  BY <1>1, <1>3, <1>4 DEF RouteInvariant

\* A call takes a grant nobody has had.
LEMMA GrantKeeps ==
  ASSUME RouteInvariant, NEW c \in Call, NEW r \in Request, phase[c] = "new",
         Decision(r) = "CONTEXT", r \notin consumed,
         request' = [request EXCEPT ![c] = r],
         phase' = [phase EXCEPT ![c] = "granted"],
         consumed' = consumed \cup {r}, UNCHANGED <<answer, accesses>>
  PROVE  RouteInvariant'
<1>1. answer[c].code = "none" /\ accesses[r] = 0 /\ accesses \in [Request -> Nat]
  BY DEF RouteInvariant, RouteTypeOK, GrantsAreSpent
<1>2. /\ request'[c] = r /\ phase'[c] = "granted"
      /\ \A d \in Call : d # c => request'[d] = request[d] /\ phase'[d] = phase[d]
  BY DEF RouteInvariant, RouteTypeOK
<1>3. RouteTypeOK'
  BY <1>1, GrantIsRequest DEF RouteInvariant, RouteTypeOK
<1>4. GrantsAreSpent'
  BY <1>1, <1>2 DEF RouteInvariant, GrantsAreSpent
<1>5. EnvelopesSound'
  BY <1>1, <1>2 DEF RouteInvariant, EnvelopesSound
<1> QED
  BY <1>3, <1>4, <1>5 DEF RouteInvariant

LEMMA DispatchKeeps ==
  ASSUME RouteInvariant, RequestsAreTyped, NEW c \in Call, NEW r \in Request, Dispatch(c, r)
  PROVE  RouteInvariant'
<1>1. /\ r \in Requests /\ phase[c] = "new"
      /\ request' = [request EXCEPT ![c] = r] /\ accesses' = accesses
  BY DEF RequestsAreTyped, Dispatch
<1>2. CASE ~Valid(r)
  <2> DEFINE f == Failure(r, "ARGUMENT_INVALID")
             a == [f EXCEPT !.publication = NoPayload]
  <2>1. Answered(c, a) /\ consumed' = consumed
    BY <1>2 DEF Dispatch
  <2>2. f \in Envelopes /\ f.code = "ARGUMENT_INVALID" /\ ~f.pack
    BY <1>1, FailureFacts DEF Codes
  <2> HIDE DEF f
  <2>3. /\ a \in Envelopes /\ a.code = "ARGUMENT_INVALID" /\ ~a.pack
        /\ a.publication = NoPayload
    BY <2>2 DEF Envelopes
  <2> HIDE DEF a
  <2> QED
    BY <1>1, <2>1, <2>3, RefuseKeeps
<1>3. CASE Valid(r) /\ Decision(r) # "CONTEXT"
  <2>1. Answered(c, Failure(r, Decision(r))) /\ consumed' = consumed
    BY <1>3 DEF Dispatch
  <2>2. Decision(r) \in {"UNSUPPORTED", "CLARIFY", "CORE"}
    BY <1>1, <1>3, Decisions
  <2>3. Decision(r) \in Codes
    BY <2>2 DEF Codes
  <2> QED
    BY <1>1, <2>1, <2>2, <2>3, FailureFacts, RefuseKeeps
<1>4. CASE Valid(r) /\ Decision(r) = "CONTEXT"
  <2>1. Consume(c, r)
    BY <1>4 DEF Dispatch
  <2>2. GrantedExactly(r, Grant(r))
    BY <1>4 DEF GrantedExactly
  <2>3. CASE r \in consumed
    <3>1. Answered(c, Failure(r, "GRANT_INVALID")) /\ consumed' = consumed
      BY <2>1, <2>3, GrantIsRequest DEF Consume
    <3>2. "GRANT_INVALID" \in Codes
      BY DEF Codes
    <3> QED
      BY <1>1, <3>1, <3>2, FailureFacts, RefuseKeeps
  <2>4. CASE r \notin consumed
    <3>1. /\ consumed' = consumed \cup {r} /\ phase' = [phase EXCEPT ![c] = "granted"]
          /\ answer' = answer
      BY <2>1, <2>2, <2>4, GrantIsRequest DEF Consume
    <3> QED
      BY <1>1, <1>4, <2>4, <3>1, GrantKeeps
  <2> QED
    BY <2>3, <2>4
<1> QED
  BY <1>2, <1>3, <1>4

\* The product has been asked: what it returned or raised is the answer, and
\* the access is the only one of its grant.
LEMMA ProductKeeps ==
  ASSUME RouteInvariant, RequestsAreTyped, NamesAreFree, NEW c \in Call, Product(c)
  PROVE  RouteInvariant'
<1> DEFINE r == request[c]
<1>1. /\ phase[c] = "granted" /\ r \in Request /\ r \in Requests /\ Decision(r) = "CONTEXT"
      /\ r \in consumed /\ accesses[r] = 0
      /\ \A d \in Call \ {c} : phase[d] = "granted" => request[d] # r
      /\ request' = request
  BY DEF Product, RouteInvariant, GrantsAreSpent, RequestsAreTyped
<1>2. accesses' = [accesses EXCEPT ![r] = @ + 1] /\ consumed' = consumed
  BY <1>1, GrantIsRequest DEF Product
<1>3. PICK a \in {Published(r, n) : n \in 0..2} \cup
                 {Failure(r, e) : e \in {"TIMEOUT", "CONTEXT_ERROR", "SOURCE_UNAVAILABLE",
                                         "UNAVAILABLE", "RESOURCE_LIMIT"}} : Answered(c, a)
  BY DEF Product
<1>4. /\ a \in Envelopes /\ a.code \notin {"none", "CLARIFY", "UNSUPPORTED", "ARGUMENT_INVALID"}
      /\ a.code = "OK" => /\ a.pack /\ a.publication # NoPayload
                          /\ a.publication.provenance >= r.snapshots
      /\ a.code # "OK" => ~a.pack /\ (a.publication # NoPayload => ~a.publication.facts)
  <2>1. CASE a \in {Published(r, n) : n \in 0..2}
    <3>1. PICK n \in 0..2 : a = Published(r, n)
      BY <2>1
    <3> QED
      BY <1>1, <3>1, PublishedFacts
  <2>2. CASE a \in {Failure(r, e) : e \in {"TIMEOUT", "CONTEXT_ERROR", "SOURCE_UNAVAILABLE",
                                           "UNAVAILABLE", "RESOURCE_LIMIT"}}
    <3>1. PICK e \in {"TIMEOUT", "CONTEXT_ERROR", "SOURCE_UNAVAILABLE",
                      "UNAVAILABLE", "RESOURCE_LIMIT"} : a = Failure(r, e)
      BY <2>2
    <3>2. e \in Codes
      BY DEF Codes
    <3> QED
      BY <1>1, <3>1, <3>2, FailureFacts
  <2> QED
    BY <1>3, <2>1, <2>2
<1>5. /\ answer'[c] = a /\ phase'[c] = "answered"
      /\ \A d \in Call : d # c => answer'[d] = answer[d] /\ phase'[d] = phase[d]
  BY <1>3 DEF RouteInvariant, RouteTypeOK, Answered
<1>6. RouteTypeOK'
  BY <1>1, <1>2, <1>3, <1>4 DEF RouteInvariant, RouteTypeOK, Answered
<1>7. GrantsAreSpent'
  <2>1. accesses \in [Request -> Nat]
    BY DEF RouteInvariant, RouteTypeOK
  <2>2. accesses'[r] = 1 /\ \A q \in Request : q # r => accesses'[q] = accesses[q]
    BY <1>1, <1>2, <2>1
  <2> QED
    BY <1>1, <1>2, <1>5, <2>2 DEF RouteInvariant, GrantsAreSpent
<1>8. EnvelopesSound'
  <2> SUFFICES ASSUME NEW d \in Call
               PROVE  /\ answer'[d].code = "OK" =>
                           /\ answer'[d].pack /\ answer'[d].publication # NoPayload
                           /\ answer'[d].publication.provenance >= request'[d].snapshots
                           /\ Grant(request'[d]) \in consumed'
                      /\ answer'[d].code \notin {"OK", "none"} =>
                           /\ ~answer'[d].pack
                           /\ answer'[d].publication # NoPayload => ~answer'[d].publication.facts
                           /\ answer'[d].code \in {"CLARIFY", "UNSUPPORTED", "ARGUMENT_INVALID"} =>
                                answer'[d].publication = NoPayload
    BY DEF EnvelopesSound
  <2>1. CASE d = c
    BY <1>1, <1>2, <1>4, <1>5, <2>1, GrantIsRequest
  <2>2. CASE d # c
    BY <1>1, <1>2, <1>5, <2>2 DEF RouteInvariant, EnvelopesSound
  <2> QED
    BY <2>1, <2>2
<1> QED
  BY <1>6, <1>7, <1>8 DEF RouteInvariant

-----------------------------------------------------------------------------
THEOREM RouteAlways ==
  ASSUME RequestsAreTyped, NamesAreFree
  PROVE  Spec => []RouteInvariant
<1>1. Init => RouteInvariant
  BY InitRoute
<1>2. RouteInvariant /\ [Next]_vars => RouteInvariant'
  <2> SUFFICES ASSUME RouteInvariant, [Next]_vars PROVE RouteInvariant'
    OBVIOUS
  <2>1. CASE UNCHANGED vars
    BY <2>1 DEF vars, RouteInvariant, RouteTypeOK, GrantsAreSpent, EnvelopesSound
  <2> QED
    BY <2>1, DispatchKeeps, ProductKeeps DEF Next
<1> QED
  BY <1>1, <1>2, PTL DEF Spec

\* Calls, grants and answers keep their types (agent_mcp_server/adapter.py).
THEOREM RouteTypesHold ==
  ASSUME RequestsAreTyped, NamesAreFree
  PROVE  Spec => []RouteTypeOK
<1>1. RouteInvariant => RouteTypeOK
  BY DEF RouteInvariant
<1> QED
  BY <1>1, RouteAlways, PTL

\* However many calls present one grant, the product is asked with it once,
\* and no envelope carries a result without its provenance
\* (RouteGrantGuard.consume, _publication, _routed_failure).
THEOREM RouteCallsAreSound ==
  ASSUME RequestsAreTyped, NamesAreFree
  PROVE  Spec => []CallsAreSound
<1>1. RouteInvariant => CallsAreSound
  BY DEF RouteInvariant, GrantsAreSpent, CallsAreSound, OneAccessPerGrant
<1> QED
  BY <1>1, RouteAlways, PTL

=============================================================================
