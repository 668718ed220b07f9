--------------------------- MODULE DocumentRoute ---------------------------
(***************************************************************************)
(* The choice of parsers for one admitted document                         *)
(* (StructuredDocumentParserAdapter._observe_admitted).  A request names a *)
(* profile, a view, an intent and perhaps a query; the adapter parses once *)
(* with a first profile and then, by what the parse delivered, with        *)
(* another one on the same staged bytes.  Every parse may fail; the        *)
(* observation returned is that of one attempt.                            *)
(*                                                                         *)
(* The text of a document is abstracted to the pages on which each parser  *)
(* finds the query (found); a page stands for the native container of the  *)
(* other formats as well (sheet, slide, section).                          *)
(***************************************************************************)
EXTENDS Naturals, Sequences, FiniteSets, FiniteSetsExt

CONSTANTS
    Requests,           \* requests: format, profile, view, intent, query, page
    Pages,              \* the pages of the document, an interval from 1
    MaxTargetedPages,   \* MAX_TARGETED_EVIDENCE_PAGES
    Finds,              \* where the parsers may find the query, [Readers -> SUBSET Pages]
    Shapes,             \* documents: large, and how many pages lack native text
    Failures,           \* the statuses of a parse that did not complete
    Qualities           \* the qualities a completed parse may be assessed with

RouteAssumption ==
    /\ Pages = 1 .. Cardinality(Pages)
    /\ MaxTargetedPages \in Nat \ {0}
    /\ "COMPLETE" \notin Failures
    /\ Qualities \subseteq {"SUFFICIENT", "INSUFFICIENT"}

VARIABLES
    req,        \* the arguments of the call
    shape,      \* the document: [large, low], low being NONE, SOME or MOST pages
    found,      \* the pages on which the native, the deep and the OCR parsers find the query
    pc,         \* the stage of _observe_admitted
    attempts,   \* the attempts so far
    selected,   \* the attempt whose observation is returned
    named,      \* selected_profile
    target      \* execution_selection

routeVars == <<req, shape, found, pc, attempts, selected, named, target>>

Queried == {"LOCATE", "EVIDENCE"}
OfficeFormats == {"DOCX", "XLSX", "PPTX"}
NativeFormats == {"PDF", "EPUB"} \cup OfficeFormats
OcrFormats == {"PDF", "IMAGE"}
NoTarget == [start |-> 0, end |-> 0, omitted |-> {}]
WholeDocument == {}

----------------------------------------------------------------------------
(* The first profile.                                                      *)

\* streaming_query_map
StreamingQueryMap ==
    /\ req.profile = "AUTO"
    /\ req.query
    /\ req.intent \in Queried
    /\ \/ req.format = "PDF" /\ (shape.large \/ shape.low # "NONE")
       \/ req.format \in OfficeFormats /\ shape.large
       \/ req.format = "EPUB"

\* scanned_pdf_read
ScannedRead ==
    /\ req.format = "PDF"
    /\ req.profile = "AUTO"
    /\ req.intent = "READ"
    /\ shape.low = "MOST"

\* initial_document_profile
PlainProfile ==
    CASE req.profile = "FAST" /\ req.format \in {"EPUB", "IMAGE"} -> "DEEP"
      [] req.profile = "FAST" /\ req.format \notin {"EPUB", "IMAGE"} -> "FAST"
      [] req.profile \in {"DEEP", "ENRICHED"} -> req.profile
      [] req.profile = "AUTO" ->
            CASE req.view = "FORMULAS" ->
                    IF req.format = "XLSX" THEN "FORMULA_NATIVE" ELSE "ENRICHED"
              [] req.view # "FORMULAS" /\ req.format \in {"EPUB", "IMAGE"} -> "DEEP"
              [] OTHER ->
                    IF req.intent \in Queried \/ req.view = "READ" THEN "FAST"
                    ELSE IF req.view = "STRUCTURE" /\ req.format = "PDF"
                         THEN "STRUCTURE_NATIVE"
                         ELSE IF req.format \in {"PDF", "DOCX"} THEN "DEEP" ELSE "FAST"

FirstProfile ==
    IF ScannedRead THEN "OCR_NATIVE"
    ELSE IF StreamingQueryMap THEN "MAP" ELSE PlainProfile

----------------------------------------------------------------------------
(* One parse.                                                              *)

\* The call of _parse_profile: the caller's query goes to the map only, its
\* view to the FAST fallback only.
Call(profile, range, view) ==
    [format |-> req.format, profile |-> profile, range |-> range,
     view |-> view, query |-> profile = "MAP"]

\* _worker_for: the parser that serves a call, and what it is built with.
\* The empty sequence is None.
Worker(c) ==
    CASE c.profile = "STRUCTURE_NATIVE" /\ c.format = "PDF" -> <<"pymupdf structure">>
      [] c.profile = "MAP" /\ c.query /\ c.format \in NativeFormats -> <<"map", c.format>>
      [] c.profile = "FORMULA_NATIVE" /\ c.format = "XLSX" -> <<"openpyxl formulas">>
      [] c.profile = "OCR_NATIVE" /\ c.format = "PDF" -> <<"page ocr">>
      [] c.profile \in {"DEEP", "OCR"} /\ c.format = "PDF" /\ c.range # WholeDocument ->
            <<"docling", c.profile, c.range>>
      [] c.profile = "OCR" /\ c.format \in OcrFormats /\ c.range = WholeDocument -> <<"docling ocr">>
      [] c.profile = "ENRICHED" /\ c.format \in OcrFormats -> <<"docling enriched">>
      [] c.profile = "ENRICHED" /\ c.format \notin OcrFormats -> <<"docling">>
      [] c.profile = "DEEP" /\ ~(c.format = "PDF" /\ c.range # WholeDocument) -> <<"docling">>
      [] c.profile = "FAST" /\ c.format = "EPUB" ->
            <<"native epub", IF c.view = "NONE" THEN "READ" ELSE c.view>>
      [] c.profile = "FAST" /\ c.format \in NativeFormats \ {"EPUB"} -> <<"fast", c.format>>
      [] OTHER -> <<>>

\* deviation: the cache key without the native view
CacheKeyWithoutView(c) == <<c.format, c.profile, c.range, c.query>>

\* The part of the cache key that _parse_profile composes, beside the digest of
\* the source.
CacheKey(c) == <<c.format, c.profile, c.range, c.view, c.query>>

\* Which of the document's matches a profile sees.
Reader(profile) ==
    CASE profile \in {"DEEP", "ENRICHED"} -> "deep"
      [] profile = "OCR" -> "ocr"
      [] OTHER -> "native"

PagesFound(c) ==
    IF c.range = WholeDocument THEN found[Reader(c.profile)]
    ELSE found[Reader(c.profile)] \cap c.range

\* What a parse may return: without a worker it is UNAVAILABLE; a complete one
\* has the matches of its pages, some perhaps in a native note or field, and a
\* quality; richer says whether it has more text than the attempt before.
ParseResults(c) ==
    LET failed(s) == [call |-> c, status |-> s, pages |-> {}, native |-> FALSE,
                      quality |-> "INSUFFICIENT", richer |-> FALSE]
        complete(n, q, r) == [call |-> c, status |-> "COMPLETE", pages |-> PagesFound(c),
                              native |-> n, quality |-> q, richer |-> r]
    IN  IF Worker(c) = <<>> THEN {failed("UNAVAILABLE")}
        ELSE {failed(s) : s \in Failures} \cup
             {complete(n, q, r) :
                n \in IF PagesFound(c) # {} /\ Reader(c.profile) = "native"
                      THEN BOOLEAN ELSE {FALSE},
                q \in Qualities,
                r \in IF c.profile = "OCR" THEN BOOLEAN ELSE {FALSE}}

\* The matched pages: the items of the office formats and of EPUB carry no page.
MatchedPages(a) == IF a.call.format \in OcrFormats THEN a.pages ELSE {}

Complete(a) == a.status = "COMPLETE"
HasQuery(a) == a.pages # {}
First == attempts[1]
Latest == attempts[Len(attempts)]

\* deviation: the interval begins at the first match even when a later page was asked for
TargetFromFirst(pages, asked) ==
    LET start == Min(pages)
        end == IF Max(pages) - start + 1 <= MaxTargetedPages
               THEN Max(pages) ELSE start + MaxTargetedPages - 1
    IN  IF pages = {} THEN NoTarget
        ELSE [start |-> start, end |-> end, omitted |-> {p \in pages : p > end}]

\* deviation: the pages of the next interval are named, matched or not
TargetNextInterval(pages, asked) ==
    LET start == Min({p \in pages : p >= asked})
        end == start + MaxTargetedPages - 1
    IN  IF pages = {} THEN NoTarget
        ELSE [start |-> start, end |-> end, omitted |-> (end + 1) .. (end + MaxTargetedPages)]

\* _targeted_evidence_selection: a bounded interval of pages from the page asked
\* for, and the matched pages after it.
Target(pages, asked) ==
    LET remaining == {p \in pages : p >= asked}
        start == Min(remaining)
        end == IF Max(remaining) - start + 1 <= MaxTargetedPages
               THEN Max(remaining) ELSE start + MaxTargetedPages - 1
    IN  IF pages = {} THEN NoTarget
        ELSE [start |-> start, end |-> end, omitted |-> {p \in remaining : p > end}]

----------------------------------------------------------------------------
(* The stages.  One stage of the route: when it is needed, one more parse, *)
(* whose observation replaces the selected one when it is adopted.         *)

Parse(here, next, needed, c, Adopted(_)) ==
    /\ pc = here
    /\ needed
    /\ \E r \in ParseResults(c) :
        /\ attempts' = Append(attempts, r)
        /\ IF Adopted(r)
           THEN /\ selected' = Len(attempts) + 1
                /\ named' = IF Complete(r) THEN c.profile ELSE "NONE"
           ELSE UNCHANGED <<selected, named>>
    /\ pc' = next
    /\ UNCHANGED <<req, shape, found>>

Pass(here, next, needed) ==
    /\ pc = here
    /\ ~needed
    /\ pc' = next
    /\ UNCHANGED <<req, shape, found, attempts, selected, named, target>>

Always(a) == TRUE
AdoptComplete(a) == Complete(a)

\* deviation: a completed parse is adopted whether or not it retains the query
AdoptMatchingUnchecked(a) == Complete(a)

AdoptMatching(a) == Complete(a) /\ HasQuery(a)

Begin(r) ==
    /\ req' = r
    /\ pc' = "FIRST"
    /\ attempts' = <<>>
    /\ selected' = 0
    /\ named' = "NONE"
    /\ target' = NoTarget

FirstParse ==
    /\ Parse("FIRST", IF req.profile = "AUTO" THEN "EVIDENCE" ELSE "NAMED",
             TRUE, Call(FirstProfile, WholeDocument, "NONE"), Always)
    /\ UNCHANGED target

\* The evidence map exists: the first parse completed and may be queried.
Mapped ==
    /\ req.intent = "EVIDENCE"
    /\ req.query
    /\ First.call.profile \in {"FAST", "MAP"}
    /\ Complete(First)

\* A requested page that does not match the query is refused.
EvidencePageRefused ==
    /\ pc = "EVIDENCE"
    /\ Mapped
    /\ req.page # 0 /\ req.page \notin MatchedPages(First)
    /\ pc' = "REFUSED"
    /\ UNCHANGED <<req, shape, found, attempts, selected, named, target>>

\* A PDF is parsed deeply on the targeted pages only.
TargetedDeep ==
    LET t == Target(MatchedPages(First), req.page)
    IN  /\ pc = "EVIDENCE"
        /\ Mapped
        /\ req.page # 0 => req.page \in MatchedPages(First)
        /\ req.format = "PDF" /\ t # NoTarget
        /\ ~First.native /\ First.call.profile # "MAP"
        /\ Parse("EVIDENCE", "EVIDENCE_OCR", TRUE,
                 Call("DEEP", t.start .. t.end, "NONE"), AdoptMatching)
        /\ target' = t

\* Another format is parsed deeply as a whole when no container matched or a
\* matching one has too little text.
ContainerDeep ==
    /\ pc = "EVIDENCE"
    /\ Mapped
    /\ req.page # 0 => req.page \in MatchedPages(First)
    /\ req.format # "PDF"
    /\ ~First.native /\ First.call.profile # "MAP"
    /\ Parse("EVIDENCE", "EVIDENCE_OCR", TRUE,
             Call("DEEP", WholeDocument, "NONE"), AdoptMatching)
    /\ target' = IF AdoptMatching(attempts'[2]) THEN Target(MatchedPages(attempts'[2]), 0)
                 ELSE Target(MatchedPages(First), req.page)

\* The map is the evidence.
MapOnly ==
    /\ pc = "EVIDENCE"
    /\ Mapped
    /\ req.page # 0 => req.page \in MatchedPages(First)
    /\ \/ First.native
       \/ First.call.profile = "MAP"
       \/ req.format = "PDF" /\ First.pages = {}
       \/ req.format # "PDF" /\ First.pages # {}
    /\ target' = Target(MatchedPages(First), req.page)
    /\ pc' = "EVIDENCE_OCR"
    /\ UNCHANGED <<req, shape, found, attempts, selected, named>>

NoMap == Pass("EVIDENCE", "EVIDENCE_OCR", Mapped)

\* Why, and on which pages, the evidence is read once more by OCR.
OcrFirst == First.quality = "INSUFFICIENT" /\ First.call.profile # "MAP"
OcrTarget ==
    /\ ~OcrFirst
    /\ req.format = "PDF"
    /\ target # NoTarget
    /\ Latest.call.profile = "DEEP"
    /\ Latest.quality = "INSUFFICIENT"
OcrImage == ~OcrFirst /\ req.format = "IMAGE" /\ Latest.quality = "INSUFFICIENT"
OcrNeeded ==
    /\ req.intent = "EVIDENCE"
    /\ req.query
    /\ Complete(First)
    /\ req.format \in OcrFormats
    /\ ~First.native
    /\ OcrFirst \/ OcrTarget \/ OcrImage
OcrPages ==
    CASE OcrFirst /\ req.format = "PDF" /\ req.page # 0 -> {req.page}
      [] OcrTarget -> target.start .. target.end
      [] OTHER -> WholeDocument

EvidenceOcr ==
    /\ Parse("EVIDENCE_OCR", "DEEP", OcrNeeded, Call("OCR", OcrPages, "NONE"), AdoptMatching)
    /\ target' = IF AdoptMatching(Latest') THEN Target(MatchedPages(Latest'), 0) ELSE target
NoEvidenceOcr == Pass("EVIDENCE_OCR", "DEEP", OcrNeeded)

\* Outside EVIDENCE: a deep parse when the fast one is not enough, and OCR when
\* the deep one is not.
DeepNeeded ==
    /\ req.intent # "EVIDENCE"
    /\ First.call.profile = "FAST"
    /\ First.quality = "INSUFFICIENT"
EscalateDeep ==
    /\ Parse("DEEP", "OCR", DeepNeeded, Call("DEEP", WholeDocument, "NONE"), AdoptComplete)
    /\ UNCHANGED target
NoDeep == Pass("DEEP", "OCR", DeepNeeded)


PlainOcrNeeded ==
    /\ req.intent # "EVIDENCE"
    /\ named = "DEEP"
    /\ Latest.quality = "INSUFFICIENT"
    /\ req.format \in OcrFormats

\* deviation: the OCR parse replaces the deep one without a look at its status
AdoptAny(a) == TRUE

AdoptBetter(a) == Complete(a) /\ (a.quality = "SUFFICIENT" \/ a.richer)

EscalateOcr ==
    /\ Parse("OCR", "FALLBACK", PlainOcrNeeded, Call("OCR", WholeDocument, "NONE"), AdoptBetter)
    /\ UNCHANGED target
NoOcr == Pass("OCR", "FALLBACK", PlainOcrNeeded)

\* The fast parser after a primary one that did not complete.

\* deviation: the fallback is taken after a fast parse as well
FallbackAfterFast ==
    /\ ~Complete(attempts[selected])
    /\ req.format \in NativeFormats

FallbackNeeded ==
    /\ ~Complete(attempts[selected])
    /\ req.format \in NativeFormats
    /\ First.call.profile \notin {"FAST", "MAP", "OCR_NATIVE", "STRUCTURE_NATIVE"}

FallbackFast ==
    /\ Parse("FALLBACK", "DONE", FallbackNeeded,
             Call("FAST", WholeDocument, req.view), AdoptComplete)
    /\ UNCHANGED target
NoFallback == Pass("FALLBACK", "DONE", FallbackNeeded)

\* A profile the caller named has one fallback, taken whatever it delivers.
NamedDeepFails ==
    /\ req.profile = "DEEP"
    /\ First.status \in {"PARSER_FAILED", "UNAVAILABLE"}
    /\ req.format \in NativeFormats
NamedEnrichedFails == req.profile = "ENRICHED" /\ ~Complete(First)
NamedFast ==
    /\ Parse("NAMED", "DONE", NamedDeepFails, Call("FAST", WholeDocument, req.view), Always)
    /\ UNCHANGED target
NamedDeep ==
    /\ Parse("NAMED", "DONE", NamedEnrichedFails, Call("DEEP", WholeDocument, "NONE"), Always)
    /\ UNCHANGED target
NoNamed == Pass("NAMED", "DONE", NamedDeepFails \/ NamedEnrichedFails)

----------------------------------------------------------------------------

Readers == {"native", "deep", "ocr"}

RouteInit ==
    /\ req \in Requests
    /\ shape \in Shapes
    /\ req.format # "PDF" => shape.low = "NONE"
    /\ found \in IF req.query THEN Finds ELSE {[r \in Readers |-> {}]}
    /\ pc = "FIRST"
    /\ attempts = <<>>
    /\ selected = 0
    /\ named = "NONE"
    /\ target = NoTarget

RouteStep ==
    \/ FirstParse
    \/ EvidencePageRefused \/ TargetedDeep \/ ContainerDeep \/ MapOnly \/ NoMap
    \/ EvidenceOcr \/ NoEvidenceOcr
    \/ EscalateDeep \/ NoDeep
    \/ EscalateOcr \/ NoOcr
    \/ FallbackFast \/ NoFallback
    \/ NamedFast \/ NamedDeep \/ NoNamed

RouteSpec == RouteInit /\ [][RouteStep]_routeVars

----------------------------------------------------------------------------
(* Properties.                                                             *)

\* The route stays in its types, needs three parses at most and reads the same
\* pages with the same profile once.
RouteTypeOK ==
    /\ pc \in {"FIRST", "EVIDENCE", "EVIDENCE_OCR", "DEEP", "OCR", "FALLBACK", "NAMED",
               "DONE", "REFUSED"}
    /\ Len(attempts) \in 0 .. 3
    /\ selected \in 0 .. Len(attempts)
    /\ target.omitted \subseteq Pages
    /\ \A i, j \in DOMAIN attempts :
        attempts[i].call.profile = attempts[j].call.profile => i = j

\* When any attempt completed, the observation returned is a completed one, and
\* selected_profile names the profile it was made with; it names none exactly
\* when none completed.
CompletedIsReturned ==
    pc = "DONE" =>
        /\ (\E i \in DOMAIN attempts : Complete(attempts[i])) => Complete(attempts[selected])
        /\ named = IF Complete(attempts[selected])
                   THEN attempts[selected].call.profile ELSE "NONE"

\* For EVIDENCE a completed attempt that has the query is never given up for one
\* that has not.
EvidenceIsKept ==
    pc = "DONE" /\ req.intent = "EVIDENCE"
        /\ (\E i \in DOMAIN attempts : Complete(attempts[i]) /\ HasQuery(attempts[i]))
    => HasQuery(attempts[selected])

\* The same for LOCATE, whose answer is where the query is.
LocationIsKept ==
    pc = "DONE" /\ req.intent = "LOCATE"
        /\ (\E i \in DOMAIN attempts : Complete(attempts[i]) /\ HasQuery(attempts[i]))
    => HasQuery(attempts[selected])

\* A cached parse answers only calls its parser would have answered: two calls
\* for one source with one key have one worker.
AllCalls(format) ==
    [format : {format},
     profile : {"FAST", "MAP", "OCR", "DEEP", "ENRICHED", "STRUCTURE_NATIVE",
                "FORMULA_NATIVE", "OCR_NATIVE"},
     range : {WholeDocument} \cup {{p} : p \in Pages},
     view : {"NONE", "READ", "STRUCTURE", "TABLES", "FORMULAS"},
     query : BOOLEAN]
CachedParseFits ==
    \A i \in DOMAIN attempts : \A c \in AllCalls(req.format) :
        CacheKey(c) = CacheKey(attempts[i].call) => Worker(c) = Worker(attempts[i].call)
=============================================================================
