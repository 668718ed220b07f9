---------------------------- MODULE ContextPages ----------------------------
(***************************************************************************)
(* A historical projection read page by page: the history tool of          *)
(* native_mcp_server/adapter.py resolves its selectors anew for each page, *)
(* agent_context/routing.py may choose the profile from the question,      *)
(* agent_context/context_projection.py checks the continuation against     *)
(* what it now reads, verifies, and answers a page that fits, and          *)
(* grounded_evidence.py wraps the page in a packet of few facts.           *)
(*                                                                         *)
(* Between any two steps a new Snapshot may be recorded or an old one      *)
(* damaged.  A caller follows continuations, and may by mistake send one   *)
(* with another request.  Digests are what they bind; texts, anchors and   *)
(* identifiers are left out.                                               *)
(***************************************************************************)
EXTENDS Naturals, FiniteSets, Sequences, SequencesExt, FiniteSetsExt

CONSTANTS
    Recordings,   \* the Snapshots that get recorded, the oldest first
    Order,        \* the locations <<scope, path>>, by scope and path
    Width,        \* [locations -> Nat]: what a fact about a location takes
    Envelope,     \* what a page without values takes
    PageBytes,    \* MAX_CONTEXT_PROJECTION_BYTES
    ReviewLimit,  \* the changes one review shows: MAX_CONTEXT_PROJECTION_LIMIT
    PacketFacts,  \* MAX_GROUNDED_EVIDENCE_FACTS
    Requests,     \* what a caller may ask
    MaxDamage,    \* bound: Snapshots damaged
    MaxStrays,    \* bound: continuations sent with another request
    MaxPages      \* bound: pages read, more than there are

OnePageHolds == \A l \in ToSet(Order) : Envelope + Width[l] <= PageBytes

Profiles == {"GENERAL", "STRUCTURE_OVERVIEW", "CHANGE_TRIAGE", "STORAGE_HOTSPOTS"}
Newest == 0     \* a selector LATEST_VALID; any other is an EXACT_ID
NotGiven == 0   \* no base selector
AnyScope == "any scope"
NoPrefix == <<"no prefix">>
NoSize == 1000  \* the size of an entry that has none
SummaryFacts == 3
SummaryMetrics == 4

VARIABLES
    recorded,  \* how many of Recordings there are
    damaged,   \* those whose Evidence no longer verifies
    call,      \* the call that runs
    chain      \* the pages that the caller has read

vars == <<recorded, damaged, call, chain>>

NoRequest == [profile |-> "none", question |-> {}, target |-> Newest, base |-> NotGiven,
              scope |-> AnyScope, prefix |-> NoPrefix, limit |-> 0]

Idle == [stage |-> "idle", request |-> NoRequest, offset |-> 0, carried |-> {},
         target |-> 0, base |-> 0, todo |-> <<>>, stray |-> FALSE]

Unread == [state |-> "unread", request |-> NoRequest, digest |-> {}, sources |-> <<>>,
           pages |-> <<>>, strays |-> 0]

Init ==
    /\ recorded = 1
    /\ damaged = {}
    /\ call = Idle
    /\ chain = Unread

-----------------------------------------------------------------------------
(* The history beside the calls.                                            *)
Record ==
    /\ recorded < Len(Recordings)
    /\ recorded' = recorded + 1
    /\ UNCHANGED <<damaged, call, chain>>

Damage(i) ==
    /\ i \notin damaged
    /\ Cardinality(damaged) < MaxDamage
    /\ damaged' = damaged \cup {i}
    /\ UNCHANGED <<recorded, call, chain>>

-----------------------------------------------------------------------------
(* What a request means.                                                    *)
SelectContextProfile(question) ==
    CASE "change" \in question -> "CHANGE_TRIAGE"
      [] "structure" \in question /\ "change" \notin question -> "STRUCTURE_OVERVIEW"
      [] OTHER -> "GENERAL"

ProfileOf(r) == IF r.profile = "AUTO" THEN SelectContextProfile(r.question) ELSE r.profile

Compares(r) == ProfileOf(r) = "CHANGE_TRIAGE"

Files(i) == Recordings[i].files

ScopeIds(i) == {l[1] : l \in DOMAIN Files(i)}

PathSelected(path, prefix) == prefix = NoPrefix \/ IsPrefix(prefix, path)

IsSelected(l, r) == (r.scope = AnyScope \/ l[1] = r.scope) /\ PathSelected(l[2], r.prefix)

FilteredEntries(i, r) == {l \in DOMAIN Files(i) : IsSelected(l, r)}

Fact(l, entries, bytes) == [at |-> l, entries |-> entries, bytes |-> bytes]

InOrder(S, FactOf(_)) ==
    LET inOrder == SelectSeq(Order, LAMBDA l : l \in S)
    IN  [n \in DOMAIN inOrder |-> FactOf(inOrder[n])]

KnownBytes(i, S) ==
    MapThenSumSet(LAMBDA l : Files(i)[l].size,
                  {l \in S : Files(i)[l].type = "file" /\ Files(i)[l].size # NoSize})

(* The root is counted as an entry of its own; an empty directory is none.  *)
AncestorsOf(l) == {<<l[1], SubSeq(l[2], 1, n)>> : n \in 0 .. Len(l[2]) - 1} \cup {<<l[1], <<>>>>}

DirectoryNodes(i, S) ==
    LET below(d) == {l \in S : d \in AncestorsOf(l)}
    IN  InOrder(UNION {AncestorsOf(l) : l \in S},
                LAMBDA d : Fact(d, Cardinality(below(d)), KnownBytes(i, below(d))))

EntryFacts(i, S) == InOrder(S, LAMBDA l : Fact(l, 1, Files(i)[l].size))

Events(b, t) ==
    {l \in DOMAIN Files(b) \cup DOMAIN Files(t) :
        ~(l \in DOMAIN Files(b) /\ l \in DOMAIN Files(t) /\ Files(b)[l] = Files(t)[l])}

ChangeFacts(b, t, r) == InOrder({l \in Events(b, t) : IsSelected(l, r)}, LAMBDA l : Fact(l, 1, 0))

(* All that the pages of a request list, from Snapshots sources.            *)
Values(r, sources) ==
    CASE ProfileOf(r) = "GENERAL" -> EntryFacts(sources[1], FilteredEntries(sources[1], r))
      [] ProfileOf(r) = "STRUCTURE_OVERVIEW" ->
           DirectoryNodes(sources[1], FilteredEntries(sources[1], r))
      [] Compares(r) -> ChangeFacts(sources[1], sources[2], r)

UnboundBinding(r, sources) ==  \* deviation: the Snapshots are not bound
    [profile |-> ProfileOf(r), sources |-> <<Len(sources)>>, scope |-> r.scope,
     prefix |-> r.prefix, limit |-> r.limit]

Binding(r, sources) ==
    [profile |-> ProfileOf(r), sources |-> sources, scope |-> r.scope,
     prefix |-> r.prefix, limit |-> r.limit]

-----------------------------------------------------------------------------
(* The caller.                                                              *)
Ask(r) ==
    /\ call.stage = "idle" /\ chain.state = "unread"
    /\ call' = [Idle EXCEPT !.stage = "target", !.request = r]
    /\ chain' = [chain EXCEPT !.state = "reading", !.request = r]
    /\ UNCHANGED <<recorded, damaged>>

NextOffset == Last(chain.pages).next

Send(r, stray) ==
    call' = [Idle EXCEPT !.stage = "target", !.request = r, !.offset = NextOffset,
                         !.carried = chain.digest, !.stray = stray]

Follow ==
    /\ call.stage = "idle" /\ chain.state = "reading" /\ Len(chain.pages) < MaxPages
    /\ Send(chain.request, FALSE)
    /\ UNCHANGED <<recorded, damaged, chain>>

(* The continuation goes out with another request.                          *)
Stray(r) ==
    /\ call.stage = "idle" /\ chain.state = "reading"
    /\ r # chain.request /\ chain.strays < MaxStrays /\ Len(chain.pages) < MaxPages
    /\ Send(r, TRUE)
    /\ chain' = [chain EXCEPT !.strays = @ + 1]
    /\ UNCHANGED <<recorded, damaged>>

(* A refusal ends a reading, unless it answers a stray request.             *)
Refuse ==
    /\ call' = Idle
    /\ chain' = IF call.stray THEN chain ELSE [chain EXCEPT !.state = "stopped"]
    /\ UNCHANGED <<recorded, damaged>>

Goto(stage, ids) ==
    /\ call' = [call EXCEPT !.stage = stage, !.todo = ids]
    /\ UNCHANGED <<recorded, damaged, chain>>

-----------------------------------------------------------------------------
(* _history: the selectors of this call, on the Snapshots there now are.    *)
Verified == (1 .. recorded) \ damaged

Latest(S) == {i \in S : \A j \in S : j <= i}

Resolved(selector) == IF selector = Newest THEN Latest(Verified) ELSE Verified \cap {selector}

PreviousValid(t) ==
    IF t \notin Verified THEN {}
    ELSE Latest({i \in Verified : i < t /\ ScopeIds(i) = ScopeIds(t)})

Unsupported(r) == ProfileOf(r) = "STORAGE_HOTSPOTS"

NoBase(r) == r.base = NotGiven /\ r.profile # "AUTO"

ResolveTarget ==
    /\ call.stage = "target"
    /\ LET r == call.request
           found == Resolved(r.target)
       IN  IF found = {} \/ Unsupported(r) \/ (Compares(r) /\ NoBase(r)) THEN Refuse
           ELSE \E t \in found :
                  /\ call' = [call EXCEPT !.target = t,
                                          !.stage = IF Compares(r) THEN "base" ELSE "load",
                                          !.todo = IF Compares(r) THEN <<>> ELSE <<t>>]
                  /\ UNCHANGED <<recorded, damaged, chain>>

ResolveBase ==
    /\ call.stage = "base"
    /\ LET r == call.request
           found == IF r.base = NotGiven THEN PreviousValid(call.target) ELSE Resolved(r.base)
       IN  IF found = {} THEN Refuse
           ELSE \E b \in found :
                  /\ call' = [call EXCEPT !.base = b, !.stage = "load",
                                          !.todo = <<b, call.target>>]
                  /\ UNCHANGED <<recorded, damaged, chain>>

-----------------------------------------------------------------------------
(* build_context_projection: each Snapshot is read and verified in turn, a  *)
(* comparison's before it, during its review and after it.                  *)
Sources == IF Compares(call.request) THEN <<call.base, call.target>> ELSE <<call.target>>

Verify ==
    /\ call.todo # <<>>
    /\ IF Head(call.todo) \in damaged THEN Refuse ELSE Goto(call.stage, Tail(call.todo))

Bind ==
    /\ call.stage = "load" /\ call.todo = <<>>
    /\ IF call.carried \subseteq {Binding(call.request, Sources)}
       THEN IF Compares(call.request) THEN Goto("review", Sources \o Sources)
            ELSE Goto("answer", <<>>)
       ELSE Refuse

Comparable(b, t) ==
    /\ Recordings[b].governed /\ Recordings[t].governed
    /\ Cardinality(ScopeIds(b)) = 1 /\ ScopeIds(b) = ScopeIds(t)

ReviewFits(b, t) == Cardinality(Events(b, t)) <= ReviewLimit

Review ==
    /\ call.stage = "review" /\ call.todo = <<>>
    /\ LET b == call.base
           t == call.target
       IN  IF /\ Comparable(b, t) /\ ReviewFits(b, t)
              /\ call.request.scope \in {AnyScope} \cup ScopeIds(t)
           THEN Goto("answer", Sources)
           ELSE Refuse

PageBytesOf(page) == Envelope + FoldSeq(LAMBDA f, n : Width[f.at] + n, 0, page)

Halves(page) == {SubSeq(page, 1, Len(page) \div (2 ^ n)) : n \in 0 .. Len(page)}

(* The longest half of a half that fits; a comparison's page is not fitted. *)
FitPage(page) ==
    LET fitting == {p \in Halves(page) : PageBytesOf(p) <= PageBytes}
    IN  CHOOSE p \in fitting : \A q \in fitting : Len(q) <= Len(p)

LimitPage(shown, values) ==  \* deviation: the next page begins after the limit
    LET next == call.offset + call.request.limit
    IN  [shown |-> shown, more |-> next < Len(values), next |-> next]

EndlessPage(shown, values) ==  \* deviation: more than the last value
    LET next == call.offset + Len(shown)
    IN  [shown |-> shown, more |-> next <= Len(values), next |-> next]

Page(shown, values) ==
    LET next == call.offset + Len(shown)
    IN  [shown |-> shown, more |-> next < Len(values), next |-> next]

FactsOf(shown) == (IF Compares(call.request) THEN 1 ELSE SummaryFacts) + Len(shown)

Metrics == IF Compares(call.request) THEN 1 ELSE SummaryMetrics

FactsOnlyPacket(shown) ==  \* deviation: metrics are not counted as dropped
    LET facts == Min({FactsOf(shown), PacketFacts})
    IN  [facts |-> facts, metrics |-> Min({Metrics, PacketFacts - facts}),
         told |-> facts < FactsOf(shown)]

(* build_historical_evidence_packet: facts first, metrics if there is room. *)
Packet(shown) ==
    LET facts == Min({FactsOf(shown), PacketFacts})
        metrics == Min({Metrics, PacketFacts - facts})
    IN  [facts |-> facts, metrics |-> metrics,
         told |-> facts + metrics < FactsOf(shown) + Metrics]

Answer ==
    /\ call.stage = "answer" /\ call.todo = <<>>
    /\ LET r == call.request
           values == Values(r, Sources)
           limited == SubSeq(values, call.offset + 1, Min({call.offset + r.limit, Len(values)}))
           shown == IF Compares(r) THEN limited ELSE FitPage(limited)
           page == Page(shown, values)
       IN  IF r.scope \notin {AnyScope} \cup ScopeIds(call.target) THEN Refuse
           ELSE /\ call' = Idle
                /\ chain' = [chain EXCEPT
                     !.pages = Append(@, page @@ [packet |-> Packet(shown)]),
                     !.digest = {Binding(r, Sources)}, !.sources = Sources,
                     !.state = IF page.more THEN "reading" ELSE "finished"]
                /\ UNCHANGED <<recorded, damaged>>

Handle == ResolveTarget \/ ResolveBase \/ Verify \/ Bind \/ Review \/ Answer

Next ==
    \/ Record
    \/ \E i \in 1 .. recorded : Damage(i)
    \/ \E r \in Requests : Ask(r) \/ Stray(r)
    \/ Follow
    \/ Handle

Spec == Init /\ [][Next]_vars

(* A call ends, and the caller goes on while there is more to read.         *)
ReadSpec == Spec /\ WF_vars(Handle) /\ WF_vars(Follow)

-----------------------------------------------------------------------------
TypeOK ==
    /\ recorded \in 1 .. Len(Recordings) /\ damaged \subseteq 1 .. recorded
    /\ call.stage \in {"idle", "target", "base", "load", "review", "answer"}
    /\ call.stage = "idle" => call = Idle
    /\ call.target \in 0 .. recorded /\ call.base \in 0 .. recorded
    /\ chain.state \in {"unread", "reading", "finished", "stopped"}
    /\ chain.state # "unread" => ProfileOf(chain.request) \in Profiles
    /\ chain.strays \in 0 .. MaxStrays /\ Len(chain.pages) < MaxPages
    /\ \A n \in DOMAIN chain.pages : chain.pages[n].packet.told \in BOOLEAN

(* Who follows continuations to the end has read every value of one pair of *)
(* Snapshots exactly once and in order, whatever was recorded, damaged or   *)
(* sent by mistake between the pages, and however pages had to shrink.      *)
WholeWhenFinished ==
    chain.state = "finished" =>
        FlattenSeq([n \in DOMAIN chain.pages |-> chain.pages[n].shown])
          = Values(chain.request, chain.sources)

(* A page goes back to what the pages before it were read from: pages of    *)
(* two states of the history are never put together.                        *)
PageStep == Len(chain.pages) > 0 /\ chain'.pages # chain.pages => chain'.sources = chain.sources

PagesAreOfOneState == [][PageStep]_vars

(* Who has only read the packets, to the end, and was never told that one  *)
(* lacks something, has had every value and every metric.                   *)
PacketsSufficeUnlessTold ==
    chain.state = "finished" /\ (\A n \in DOMAIN chain.pages : ~chain.pages[n].packet.told) =>
        LET comparing == Compares(chain.request)
            summary == IF comparing THEN 1 ELSE SummaryFacts
        IN  /\ FoldSeq(LAMBDA page, sum : page.packet.facts - summary + sum, 0, chain.pages)
                 = Len(Values(chain.request, chain.sources))
            /\ Last(chain.pages).packet.metrics = IF comparing THEN 1 ELSE SummaryMetrics

(* What is said of a directory is so in the Snapshot it is said of.         *)
DirectoryFactsHold ==
    \A n \in DOMAIN chain.pages :
        ProfileOf(chain.request) = "STRUCTURE_OVERVIEW" =>
            \A f \in ToSet(chain.pages[n].shown) :
                LET i == chain.sources[1]
                IN  f.bytes = KnownBytes(i, {l \in DOMAIN Files(i) : f.at \in AncestorsOf(l)})

IsReading == chain.state = "reading"
IsDone == chain.state \in {"finished", "stopped"}

(* A caller that follows continuations reaches the last page or a refusal.  *)
ReadingEnds == IsReading ~> IsDone
=============================================================================
