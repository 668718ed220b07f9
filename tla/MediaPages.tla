----------------------------- MODULE MediaPages -----------------------------
(***************************************************************************)
(* Reading a long audio or video file (document_observation.py with        *)
(* structured_documents.py, audio_documents.py and video_documents.py).    *)
(* One request analyses one window of the source and returns one page of   *)
(* its items; the continuation it returns names the next page of the same  *)
(* window, answered from memory only, or the next window.  Meanwhile the   *)
(* file may be rewritten and parses may leave the cache.                   *)
(***************************************************************************)
EXTENDS Naturals, Sequences, SequencesExt, FiniteSets

CONSTANTS Duration, Window,    \* of the source, and of one analysis
          MaxItems,            \* bound: items in a window
          PageLimit,           \* items in a page
          Cached,              \* has the adapter a parse cache?
          CacheBytes,          \* items of the largest parse the cache keeps
          SpeechAtEnd,         \* may the speech bound fall on the very end?
          MaxChanges, MaxLost  \* bounds: rewrites of the file, lost parses

Start == 0..(Duration - 1)
End(s) == IF s + Window < Duration THEN s + Window ELSE Duration

VARIABLES medium,     \* "AUDIO" or "VIDEO"
          items,      \* start of a window -> the items its analysis finds
          bound,      \* start of a window -> where speech was cut off, or 0
          source,     \* the version of the file
          cache, lost,\* parses kept, parses that were kept and are gone
          request,    \* what the caller asks
          pc, before, admitted,
          reply,      \* the last answer
          delivered   \* what the caller has read since it last began

vars == <<medium, items, bound, source, cache, lost, request, pc, before, admitted, reply, delivered>>

Version == 0..MaxChanges
First == [schema |-> "none", kind |-> "first", start |-> 0, offset |-> 0, version |-> 0]
Kinds == {"first", "offset", "window", "page"}
NoToken == [schema |-> "none", kind |-> "none"]
Refused(why) == [status |-> why, more |-> FALSE, offset |-> 0, token |-> NoToken]

MediaTypeOK ==
    /\ source \in Version /\ before \in Version /\ admitted \in Version
    /\ cache \subseteq Version \X Start /\ lost \subseteq Version \X Start
    /\ request.kind \in Kinds /\ request.start \in 0..Duration
    /\ pc \in {"caller", "begin", "admit", "analyse", "close", "end"}
    /\ reply.status \in {"none", "page", "changed", "invalid", "expired", "malformed"}
    /\ \A k \in cache : Cached /\ items[k[2]] <= CacheBytes

Init ==
    /\ medium \in {"AUDIO", "VIDEO"}
    /\ items \in [Start -> 1..MaxItems]
    /\ bound \in {b \in [Start -> 0..Duration] :
                    \A s \in Start : b[s] = 0 \/ (/\ s < b[s] /\ b[s] <= End(s)
                                                  /\ b[s] = Duration => SpeechAtEnd
                                                  /\ medium = "AUDIO")}
    /\ source = 0 /\ cache = {} /\ lost = {}
    /\ request = First /\ pc = "begin" /\ before = 0 /\ admitted = 0
    /\ reply = Refused("none") /\ delivered = << >>

(***************************************************************************)
(* The window that follows: where speech was cut off, else where this      *)
(* window ends, if the source goes on.                                     *)
(***************************************************************************)
\* deviation: the test for the end of the source is off by one
ContinuesAtEnd(s) == bound[s] # 0 \/ End(s) <= Duration

Continues(s) == bound[s] # 0 \/ End(s) < Duration

Following(s) == IF bound[s] # 0 THEN bound[s] ELSE End(s)

WindowItems(v, s) == [i \in 1..items[s] |-> <<v, s, i>>]

WindowToken(v, s) ==
    IF Continues(s)
    THEN [schema |-> medium, kind |-> "window", start |-> Following(s), offset |-> 0, version |-> v]
    ELSE NoToken

(***************************************************************************)
(* The handler.                                                            *)
(***************************************************************************)
Same == UNCHANGED <<medium, items, bound, source, lost>>

Answer(r) ==
    /\ reply' = r /\ pc' = "caller"
    /\ UNCHANGED <<request, before, admitted>>

(* What a request may carry. *)
IsAudioWindow(r) == r.schema = "AUDIO" /\ r.kind = "window"

IsAudioPage(r) == r.schema = "AUDIO" /\ r.kind = "page" /\ r.offset > 0

IsVideoWindow(r) == r.schema = "VIDEO" /\ r.kind = "window"

IsVideoPage(r) == r.schema = "VIDEO" /\ r.kind = "page" /\ r.offset > 0

Valid(r) == \/ r.kind \in {"first", "offset"}
            \/ IsAudioWindow(r) \/ IsAudioPage(r) \/ IsVideoWindow(r) \/ IsVideoPage(r)

(* inspect_document checks the request and takes the state of the file. *)
Begin ==
    /\ pc = "begin"
    /\ Same /\ UNCHANGED <<cache, delivered>>
    /\ IF Valid(request)
       THEN pc' = "admit" /\ before' = source /\ UNCHANGED <<request, admitted, reply>>
       ELSE Answer(Refused("malformed"))

(* The file is copied and digested; a continuation must be of that digest. *)
Admit ==
    /\ pc = "admit" /\ admitted' = source
    /\ Same /\ UNCHANGED <<cache, request, before, delivered>>
    /\ IF request.kind \in {"window", "page"} /\ request.version # source
       THEN reply' = Refused("invalid") /\ pc' = "caller"
       ELSE pc' = "analyse" /\ UNCHANGED reply

Key == <<admitted, request.start>>

(* A result page is only looked up. *)
LookUp ==
    /\ pc = "analyse" /\ request.kind = "page"
    /\ Same /\ UNCHANGED <<cache, delivered>>
    /\ IF Key \in cache
       THEN pc' = "close" /\ UNCHANGED <<request, before, admitted, reply>>
       ELSE Answer(Refused("expired"))

\* deviation: the parse is kept without a look at whether there is a cache
AnalyseAlwaysKeeps ==
    /\ pc = "analyse" /\ request.kind # "page"
    /\ Same /\ UNCHANGED delivered
    /\ pc' = "close" /\ UNCHANGED <<request, before, admitted, reply>>
    /\ cache' = cache \cup {Key}

(* Any other request is looked up or analysed, and kept if it is not too large. *)
Analyse ==
    /\ pc = "analyse" /\ request.kind # "page"
    /\ Same /\ UNCHANGED delivered
    /\ IF request.start >= Duration
       THEN Answer(Refused("malformed")) /\ UNCHANGED cache
       ELSE /\ pc' = "close" /\ UNCHANGED <<request, before, admitted, reply>>
            /\ cache' = IF Cached /\ items[request.start] <= CacheBytes
                        THEN cache \cup {Key} ELSE cache

\* deviation: the state of the file is not compared again
UnchangedSinceAdmission == TRUE

UnchangedSinceBegin == source = before

ExpectedSource == request.kind = "offset" => request.version = admitted

\* deviation: the next page is counted from the beginning of the window
NextOffsetFirst == IF PageLimit < items[request.start] THEN PageLimit ELSE items[request.start]

NextOffset == IF request.offset + PageLimit < items[request.start]
              THEN request.offset + PageLimit ELSE items[request.start]

\* deviation: a page begins where the window does
PageItemsFromStart == SubSeq(WindowItems(admitted, request.start), 1, NextOffset)

PageItems == SubSeq(WindowItems(admitted, request.start), request.offset + 1, NextOffset)

(* The rest of this window, which only a cache can answer. *)
PageToken == [schema |-> medium, kind |-> "page", start |-> request.start,
              offset |-> NextOffset, version |-> admitted]

AudioPageToken == IF medium = "AUDIO" /\ Cached THEN PageToken ELSE NoToken

VideoPageToken == IF medium = "VIDEO" /\ Cached THEN PageToken ELSE NoToken

Page ==
    LET more == NextOffset < items[request.start] IN
    [status |-> "page", more |-> more, offset |-> NextOffset,
     token |-> IF more /\ AudioPageToken # NoToken THEN AudioPageToken
               ELSE IF more /\ VideoPageToken # NoToken THEN VideoPageToken
               ELSE WindowToken(admitted, request.start)]

(* The page is published if the file is still in the state it began in. *)
Close ==
    /\ pc = "close"
    /\ Same /\ UNCHANGED cache
    /\ IF UnchangedSinceBegin /\ ExpectedSource
       THEN /\ Answer(Page)
            /\ delivered' = delivered \o PageItems
       ELSE Answer(Refused("changed")) /\ UNCHANGED delivered

(***************************************************************************)
(* The caller follows what it was given, and begins again when refused.    *)
(***************************************************************************)
NextRequest ==
    IF reply.status # "page" THEN First
    ELSE IF reply.token.kind = "page" THEN reply.token
    ELSE IF reply.more THEN [request EXCEPT !.kind = "offset", !.offset = reply.offset,
                                     !.version = admitted]
    ELSE reply.token

Follow ==
    /\ pc = "caller" /\ Same /\ UNCHANGED <<cache, before, admitted, reply>>
    /\ IF reply.status = "page" /\ ~reply.more /\ reply.token = NoToken
       THEN pc' = "end" /\ UNCHANGED <<request, delivered>>
       ELSE /\ pc' = "begin" /\ request' = NextRequest
            /\ delivered' = IF reply.status = "page" THEN delivered ELSE << >>

(***************************************************************************)
(* Others: a rewrite of the file; a parse that expires or is pushed out.   *)
(***************************************************************************)
Rewrite ==
    /\ pc # "end" /\ source < MaxChanges /\ source' = source + 1
    /\ UNCHANGED <<medium, items, bound, cache, lost, request, pc, before, admitted, reply, delivered>>

Lose ==
    /\ pc # "end" /\ Cardinality(lost) < MaxLost
    /\ \E k \in cache : cache' = cache \ {k} /\ lost' = lost \cup {k}
    /\ UNCHANGED <<medium, items, bound, source, request, pc, before, admitted, reply, delivered>>

Serve == Begin \/ Admit \/ LookUp \/ Analyse \/ Close \/ Follow
Next == Serve \/ Rewrite \/ Lose

Spec == Init /\ [][Next]_vars
(* A handler returns, its work being under a timeout, and the caller goes on. *)
FairSpec == Spec /\ WF_vars(Serve)

(***************************************************************************)
(* Properties.                                                             *)
(***************************************************************************)
(* All items of version v, in the order of the windows and of the pages. *)
Reading(v) ==
    LET rest[s \in 0..(Duration + Window)] ==
          IF s >= Duration THEN << >>
          ELSE WindowItems(v, s) \o (IF Continues(s) THEN rest[Following(s)] ELSE << >>)
    IN rest[0]

(* What a caller has been given by following next offsets, page            *)
(* continuations and window continuations is a beginning of one version's  *)
(* reading, each item once and in order, and is all of it at the end       *)
(* (inspect_document, _result_page_bounds, _audio_result_page_continuation). *)
DeliveredInOrder ==
    delivered # << >> =>
        LET whole == Reading(Head(delivered)[1]) IN
        IsPrefix(delivered, whole) /\ (pc = "end" => delivered = whole)

(* A page is only published of the bytes the file holds at that moment,    *)
(* wherever between the first look and the last it was rewritten, and      *)
(* whether it came from the parser or from memory (inspect_document).      *)
PublishStep == Len(delivered') > Len(delivered) => Last(delivered')[1] = source

PublishedCurrent == [][PublishStep]_vars

(* A continuation that was reported is accepted: it is refused as expired  *)
(* only if its parse was kept and is gone since, and never as a start that *)
(* lies outside the source (AudioDocumentWorker, get_existing).            *)
TokensAreAccepted ==
    pc = "caller" =>
        /\ reply.status = "expired" => Key \in lost
        /\ reply.status # "malformed"

IsRead == pc = "end"

(* A caller that keeps following comes to the end once the file rests and  *)
(* parses are lost no more.                                                *)
ReadEnds == <>IsRead
=============================================================================
