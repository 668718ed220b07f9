--------------------------- MODULE EvidencePages ---------------------------
(***************************************************************************)
(* A caller that follows the continuations of document evidence.  Each     *)
(* request runs the whole route of DocumentRoute on the same source; the   *)
(* matching items of the observation it returns are the anchors; a packet  *)
(* publishes the slices of some of them and a continuation when more       *)
(* anchors or more matched pages remain (build_document_evidence_selection *)
(* and _build_selected_document_evidence_packet).  There is one anchor per *)
(* matched page.                                                           *)
(***************************************************************************)
EXTENDS DocumentRoute

CONSTANTS
    Limit,      \* content_limit: the anchors a packet may publish
    Slices,     \* how many slices the characters of a packet may suffice for
    Context,    \* the items of a slice beside its anchor, in front of it
    FactLimit   \* MAX_GROUNDED_EVIDENCE_FACTS

SlicesAssumption ==
    /\ Limit \in Nat \ {0}
    /\ Slices \subseteq 1 .. Limit
    /\ Context \in Nat
    /\ FactLimit \in Nat \ {0}

VARIABLES
    offset,     \* content_offset of the request
    link,       \* the continuation of the packet: [page, offset], or NoLink
    shown,      \* the pages whose anchor some packet has published
    covered,    \* the matched pages some packet was selected from
    firstMap    \* the pages that matched in the first request's first parse

evidenceVars == <<req, shape, found, pc, attempts, selected, named, target,
                  offset, link, shown, covered, firstMap>>
callerVars == <<offset, link, shown, covered, firstMap>>

NoLink == [page |-> 0, offset |-> 0]
Observation == attempts[selected]

\* The anchors of the observation in item order, and those of this request.
Anchors == Observation.pages
Position(p) == Cardinality({q \in Anchors : q < p})

\* deviation: a packet counts the anchors it was asked for, not those it has published
NextOffsetByLimit(n) == offset + Limit

\* next_offset: the anchors whose slices fitted in the character budget
NextOffset(n) == offset + n

\* deviation: no continuation for the pages outside the targeted interval
LinkForMatches(next, omitted) ==
    IF next < Cardinality(Anchors) THEN [page |-> 0, offset |-> next] ELSE NoLink

\* deviation: the page after the interval, whether or not it matched
LinkAfterInterval(next, omitted) ==
    [page |-> IF omitted = {} THEN 0 ELSE target.end + 1,
     offset |-> IF next < Cardinality(Anchors) THEN next ELSE 0]

\* The continuation: the next offset when anchors remain, and the first matched
\* page outside the interval the parser was aimed at.
Link(next, omitted) ==
    [page |-> IF omitted = {} THEN 0 ELSE Min(omitted),
     offset |-> IF next < Cardinality(Anchors) THEN next ELSE 0]

\* The anchors whose facts fit in the packet, among the slices from an offset on.
Cited(slices) ==
    {p \in slices : (Position(p) - offset) * (Context + 1) + Context < FactLimit}

\* The packet.  Its slices stop at the limit, or earlier when the characters are
\* used up.
Publish ==
    /\ pc = "DONE"
    /\ Complete(Observation)
    /\ \E k \in Slices :
        LET here == {p \in Anchors : Position(p) \in offset .. (offset + k - 1)}
        IN  /\ shown' = shown \cup Cited(here)
            /\ link' = Link(NextOffset(Cardinality(here)), target.omitted)
    /\ covered' = covered \cup IF Observation.call.range = WholeDocument THEN Pages
                               ELSE Observation.call.range
    /\ firstMap' = IF req.page = 0 /\ offset = 0 THEN First.pages ELSE firstMap
    /\ pc' = IF link' = NoLink THEN "CLOSED" ELSE "PUBLISHED"
    /\ UNCHANGED <<req, shape, found, attempts, selected, named, target, offset>>

\* deviation: after a failure the caller is sent to the same continuation again
PublishFailureAgain ==
    /\ pc = "DONE"
    /\ ~Complete(Observation)
    /\ pc' = IF link = NoLink THEN "FAILED" ELSE "PUBLISHED"
    /\ UNCHANGED <<req, shape, found, attempts, selected, named, target, callerVars>>

\* A failed observation has nothing to continue.
PublishFailure ==
    /\ pc = "DONE"
    /\ ~Complete(Observation)
    /\ pc' = "FAILED"
    /\ UNCHANGED <<req, shape, found, attempts, selected, named, target, callerVars>>

\* The caller sends the continuation's fields with the same query.
Follow ==
    /\ pc = "PUBLISHED"
    /\ Begin([req EXCEPT !.page = link.page])
    /\ offset' = link.offset
    /\ UNCHANGED <<shape, found, link, shown, covered, firstMap>>

EvidenceInit ==
    /\ RouteInit
    /\ offset = 0
    /\ link = NoLink
    /\ shown = {} /\ covered = {} /\ firstMap = {}

EvidenceNext ==
    \/ RouteStep /\ UNCHANGED callerVars
    \/ Publish \/ PublishFailure \/ Follow

\* The adapter finishes what it began and the caller goes on asking.
EvidenceSpec == EvidenceInit /\ [][EvidenceNext]_evidenceVars /\ WF_evidenceVars(EvidenceNext)

----------------------------------------------------------------------------
(* Properties.                                                             *)

EvidenceTypeOK ==
    /\ offset \in 0 .. Cardinality(Pages)
    /\ link \in [page : {0} \cup Pages, offset : 0 .. Cardinality(Pages)]
    /\ shown \subseteq Pages /\ covered \subseteq Pages /\ firstMap \subseteq Pages
    /\ pc = "PUBLISHED" => link # NoLink

\* Every packet moves the conversation: the page it asks for lies after the page
\* that was asked for, or the offset grows on the same items.
LinkStep ==
    pc = "DONE" /\ pc' = "PUBLISHED" => link'.page > req.page \/ link'.offset > offset

LinksMoveOn == [][LinkStep]_evidenceVars

\* A continuation the packet gave is never refused.
LinksAreAccepted == pc # "REFUSED"

\* When no continuation is left, every page the first map matched has been in
\* the interval of some packet (docs/CAPABILITIES.md: a continuation must be
\* followed to claim complete coverage).
MatchedPagesCovered == pc = "CLOSED" => firstMap \subseteq covered

\* And every anchor has been published, when each parser finds the query on the
\* same pages.
MatchesShown ==
    pc = "CLOSED" /\ found["native"] = found["deep"] => firstMap \subseteq shown

\* At the end of the conversation, every anchor of the observation the last packet
\* was made from has been published by some packet (docs/DOCUMENT-AND-MEDIA.md:
\* continuations are bound to the source digest and analysis configuration).
LastObservationShown == pc = "CLOSED" => Anchors \subseteq shown

IsOver == pc \in {"CLOSED", "FAILED", "REFUSED"}

\* The conversation comes to an end.
ConversationEnds == <>IsOver
=============================================================================
