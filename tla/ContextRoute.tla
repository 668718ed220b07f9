---------------------------- MODULE ContextRoute ----------------------------
(***************************************************************************)
(* The Context route: agent_routing/service.py decides which requests have *)
(* a grant, and agent_mcp_server/adapter.py consumes the grant, asks the   *)
(* product for a context pack, and publishes an envelope or a failure.  A  *)
(* grant is a digest of its request, so equal requests have equal grants.  *)
(* Texts, digests and byte limits are left out; that a limit is exceeded   *)
(* is a choice.                                                            *)
(***************************************************************************)
EXTENDS Naturals, FiniteSets, TLC

CONSTANTS Call,      \* calls of the client
          Request,   \* the requests they may make
          NoRequest, \* no request yet
          NoPayload  \* no publication

VARIABLES request,   \* call -> its request
          phase,     \* call -> where its dispatch is
          consumed,  \* the grants of RouteGrantGuard
          accesses,  \* request -> how often the product was asked
          answer     \* call -> the envelope it was given

vars == <<request, phase, consumed, accesses, answer>>

Diagnostic == "BOUNDED_STRUCTURAL_DIAGNOSTIC"
Explanation == "ORDERED_HISTORICAL_CHANGE_EXPLANATION"
Inspection == "EXACT_SNAPSHOT_INSPECTION"
Resolution == "EXACT_HISTORICAL_ENTRY_RESOLUTION"
Review == "BOUNDED_CHANGE_REVIEW"
Document == "CONFIRMED_DOCUMENT_INSPECTION"
Health == "CONFIGURATION_OR_HEALTH"
Unknown == "NOT_AN_OPERATION"

Operations == {Diagnostic, Explanation, Inspection, Resolution, Review, Document, Health}

(* A request names an operation, Snapshots in order, and perhaps a Scope, a *)
(* path and bounds; distinct Snapshots are all that its identities must be. *)
Requests == [operation : Operations \cup {Unknown}, snapshots : 0..2, repeated : BOOLEAN,
             scope : BOOLEAN, path : BOOLEAN, bounds : BOOLEAN]

RequestsAreTyped == Request \subseteq Requests

-----------------------------------------------------------------------------
(* _ROUTE_REQUIREMENTS; 3 stands for "any number".                          *)
SnapshotCount(op) ==
    IF op \in {Inspection, Resolution, Diagnostic} THEN 1
    ELSE IF op \in {Review, Explanation} THEN 2 ELSE 3

NeedsScope(op) == op \in {Resolution, Review, Document, Diagnostic, Explanation}
NeedsPath(op) == op \in {Resolution, Document}
NeedsBounds(op) == op \in {Document, Diagnostic, Explanation}

Valid(r) == ~r.repeated

Missing(r) ==
    (IF SnapshotCount(r.operation) \notin {3, r.snapshots} THEN {"ordered_snapshot_ids"} ELSE {})
    \cup (IF NeedsScope(r.operation) /\ ~r.scope THEN {"scope_id"} ELSE {})
    \cup (IF NeedsPath(r.operation) /\ ~r.path THEN {"path_or_prefix"} ELSE {})
    \cup (IF NeedsBounds(r.operation) /\ ~r.bounds THEN {"bounds"} ELSE {})

IsContext(op) == op \in {Diagnostic, Explanation}

(* route_steward_operation: one of four decisions; a grant only for CONTEXT.*)
Decision(r) ==
    IF r.operation \notin Operations THEN "UNSUPPORTED"
    ELSE IF Missing(r) # {} THEN "CLARIFY"
    ELSE IF IsContext(r.operation) THEN "CONTEXT" ELSE "CORE"

Grant(r) == r

GrantedExactly(r, g) == Decision(r) = "CONTEXT" /\ g = Grant(r)

-----------------------------------------------------------------------------
(* _validate_publication_payload: what an envelope may say.                 *)
ProvenanceMinimum(op) ==
    IF op \in {Inspection, Resolution, Diagnostic} THEN 1
    ELSE IF op \in {Review, Explanation} THEN 2 ELSE 0

AnyProvenance(p) ==  \* deviation: the provenance is not counted
    /\ p.decision \in {"CORE", "CONTEXT"}
    /\ IF p.status = "ERROR" THEN ~p.facts /\ p.provenance = 0 /\ "NO_BUSINESS_RESULT" \in p.boundary
       ELSE p.facts /\ (ProvenanceMinimum(p.operation) > 0 => "HISTORICAL_NOT_CURRENT" \in p.boundary)

Publishable(p) ==
    /\ p.decision \in {"CORE", "CONTEXT"}
    /\ IF p.status = "ERROR"
       THEN ~p.facts /\ p.provenance = 0 /\ "NO_BUSINESS_RESULT" \in p.boundary
       ELSE /\ p.facts
            /\ p.provenance >= ProvenanceMinimum(p.operation)
            /\ ProvenanceMinimum(p.operation) > 0 => "HISTORICAL_NOT_CURRENT" \in p.boundary

Payload(r, status, facts, provenance, boundary) ==
    [decision |-> Decision(r), operation |-> r.operation, status |-> status, facts |-> facts,
     provenance |-> provenance, boundary |-> boundary]

SilentFailure(r, code) ==  \* deviation: a failure without its code
    [code |-> "none", publication |-> NoPayload, pack |-> FALSE]

(* _routed_failure: a publication of the failure where the route allows one. *)
Failure(r, code) ==
    LET p == Payload(r, "ERROR", FALSE, 0, {"NO_BUSINESS_RESULT"})
    IN  [code |-> code, publication |-> IF Publishable(p) THEN p ELSE NoPayload, pack |-> FALSE]

(* _publication: the pack's facts and the Snapshots it was built from.      *)
Published(r, provenance) ==
    LET p == Payload(r, "OK", TRUE, provenance, {"BOUNDED_RESULT", "HISTORICAL_NOT_CURRENT"})
    IN  IF Publishable(p) THEN [code |-> "OK", publication |-> p, pack |-> TRUE]
                          ELSE Failure(r, "UNAVAILABLE")

NoAnswer == [code |-> "none", publication |-> NoPayload, pack |-> FALSE]

Codes == {"none", "OK", "ARGUMENT_INVALID", "UNSUPPORTED", "CLARIFY", "CORE", "GRANT_INVALID",
          "TIMEOUT", "CONTEXT_ERROR", "SOURCE_UNAVAILABLE", "UNAVAILABLE", "RESOURCE_LIMIT"}
Payloads == [decision : {"CORE", "CONTEXT"}, operation : Operations, status : {"OK", "ERROR"},
             facts : BOOLEAN, provenance : 0..2,
             boundary : SUBSET {"NO_BUSINESS_RESULT", "BOUNDED_RESULT", "HISTORICAL_NOT_CURRENT"}]
Envelopes == [code : Codes, publication : Payloads \cup {NoPayload}, pack : BOOLEAN]

(* What stands for no request and no publication is neither.                *)
NamesAreFree == NoRequest \notin Request /\ NoPayload \notin Payloads

RouteTypeOK ==
    /\ request \in [Call -> Request \cup {NoRequest}]
    /\ phase \in [Call -> {"new", "granted", "answered"}]
    /\ consumed \subseteq {Grant(r) : r \in Request}
    /\ accesses \in [Request -> Nat]
    /\ answer \in [Call -> Envelopes]
    /\ \A c \in Call : phase[c] = "answered" <=> answer[c].code # "none"

Init ==
    /\ request = [c \in Call |-> NoRequest]
    /\ phase = [c \in Call |-> "new"]
    /\ consumed = {}
    /\ accesses = [r \in Request |-> 0]
    /\ answer = [c \in Call |-> NoAnswer]

Answered(c, a) ==
    /\ phase' = [phase EXCEPT ![c] = "answered"]
    /\ answer' = [answer EXCEPT ![c] = a]

(* dispatch up to its only await: arguments, decision, grant.               *)
LateConsume(c, r) ==  \* deviation: the grant is consumed once the pack has been built
    /\ phase' = [phase EXCEPT ![c] = "granted"]
    /\ UNCHANGED <<consumed, answer>>

Consume(c, r) ==
    IF GrantedExactly(r, Grant(r)) /\ Grant(r) \notin consumed
    THEN /\ consumed' = consumed \cup {Grant(r)}
         /\ phase' = [phase EXCEPT ![c] = "granted"]
         /\ UNCHANGED answer
    ELSE Answered(c, Failure(r, "GRANT_INVALID")) /\ UNCHANGED consumed

Dispatch(c, r) ==
    /\ phase[c] = "new"
    /\ request' = [request EXCEPT ![c] = r]
    /\ IF ~Valid(r)
       THEN /\ Answered(c, [Failure(r, "ARGUMENT_INVALID") EXCEPT !.publication = NoPayload])
            /\ UNCHANGED consumed
       ELSE IF Decision(r) # "CONTEXT"
       THEN Answered(c, Failure(r, Decision(r))) /\ UNCHANGED consumed
       ELSE Consume(c, r)
    /\ UNCHANGED accesses

(* prepare_agent_context in a worker thread: it may find its Snapshots, and *)
(* then names each as provenance; it may fail or outlast the deadline.      *)
Product(c) ==
    /\ phase[c] = "granted"
    /\ LET r == request[c]
       IN  /\ accesses' = [accesses EXCEPT ![r] = @ + 1]
           /\ \E a \in {Published(r, n) : n \in 0..2} \cup
                       {Failure(r, e) : e \in {"TIMEOUT", "CONTEXT_ERROR", "SOURCE_UNAVAILABLE",
                                               "UNAVAILABLE", "RESOURCE_LIMIT"}} : Answered(c, a)
           /\ consumed' = consumed \cup {Grant(r)}
    /\ UNCHANGED request

Next ==
    \/ \E c \in Call, r \in Request : Dispatch(c, r)
    \/ \E c \in Call : Product(c)

Spec == Init /\ [][Next]_vars

-----------------------------------------------------------------------------
(* The product is asked at most once for each grant, whatever became of the *)
(* first call: it may have failed, timed out, or still be under way         *)
(* (RouteGrantGuard.consume before the await in dispatch).                  *)
OneAccessPerGrant == \A r \in Request : accesses[r] <= 1

(* An envelope carries a business result only with the provenance of every  *)
(* Snapshot its operation reads; a failure carries none, and one of a       *)
(* request that was not executed publishes nothing but its route            *)
(* (_publication, _validate_publication_payload, _routed_failure).          *)
EnvelopesSound ==
    \A c \in Call : LET a == answer[c] IN
        /\ a.code = "OK" => /\ a.pack /\ a.publication # NoPayload
                            /\ a.publication.provenance >= request[c].snapshots
                            /\ Grant(request[c]) \in consumed
        /\ a.code \notin {"OK", "none"} =>
             /\ ~a.pack
             /\ a.publication # NoPayload => ~a.publication.facts
             /\ a.code \in {"CLARIFY", "UNSUPPORTED", "ARGUMENT_INVALID"} => a.publication = NoPayload

(* What a routed call promises about its access and its answer.             *)
CallsAreSound == OneAccessPerGrant /\ EnvelopesSound
=============================================================================
