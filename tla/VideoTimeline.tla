---------------------------- MODULE VideoTimeline ----------------------------
(***************************************************************************)
(* One multimodal analysis of a video (video_documents.py,                 *)
(* VideoTimelineWorker and VideoSceneWorker).  With a query, the subtitle  *)
(* cues that match it, else frames that look like it, say which parts to   *)
(* transcribe; what then matches says which parts to decode, and the       *)
(* frames and OCR reads of one request are shared out among those parts.   *)
(***************************************************************************)
EXTENDS Naturals, Sequences, SequencesExt, FiniteSets, FiniteSetsExt

CONSTANTS Duration, Window, AudioWindow,  \* lengths of the source and of one decode
          Padding,                        \* kept on each side of a match
          MaxMatches, MaxDecode, MaxAnchors,
          MaxFrames, MaxOcr, MaxScenes,
          Cues, Segments, Cuts            \* bounds: what the source may hold

VARIABLES query, ocr, start,   \* the request
          cues, speech,        \* subtitle cues and speech that match the query
          audio, cuts,         \* is there an audio stream? where do scenes change?
          pc,
          anchors,             \* times of the frames that look like the query
          heard,               \* the matching speech that was transcribed
          windows,             \* the parts to decode
          scans,               \* of each decoded part, what was found and chosen
          frames, ocrFrames,   \* left of the request's frames and OCR reads
          warnings

source == <<query, ocr, start, cues, speech, audio, cuts>>
vars == <<source, pc, anchors, heard, windows, scans, frames, ocrFrames, warnings>>

Time == 0..Duration
Least(a, b) == IF a < b THEN a ELSE b
Earlier(a, b) == a[1] < b[1] \/ (a[1] = b[1] /\ a[2] < b[2])
Ordered(intervals) == SetToSortSeq(intervals, Earlier)
Sum(seq) == FoldSeq(LAMBDA x, sum : x + sum, 0, seq)

TimelineTypeOK ==
    /\ cues \subseteq Cues /\ heard \subseteq speech /\ speech \subseteq Segments
    /\ anchors \subseteq Time /\ Cardinality(anchors) <= MaxAnchors
    /\ pc \in {"subtitles", "visual", "audio", "plan", "scan", "done", "raised", "malformed"}
    /\ \A i \in DOMAIN windows : windows[i][1] \in Time /\ windows[i][2] \in Time
    /\ Len(scans) <= Len(windows)
    /\ frames \in 0..MaxFrames /\ ocrFrames \in 0..MaxOcr
    /\ warnings \subseteq {"frame limit", "scene limit", "no anchor", "no audio", "no model"}

TimelineInit ==
    /\ query \in BOOLEAN /\ ocr \in BOOLEAN /\ audio \in BOOLEAN
    /\ start \in {s \in Time : s % Window = 0 /\ s < Duration}
    /\ cues \in SUBSET Cues /\ speech \in SUBSET Segments /\ cuts \in SUBSET Cuts
    /\ pc = "subtitles" /\ anchors = {} /\ heard = {} /\ windows = << >> /\ scans = << >>
    /\ frames = MaxFrames /\ ocrFrames = MaxOcr /\ warnings = {}

(***************************************************************************)
(* The parts a set of matches calls for: each match with its padding, and  *)
(* parts that touch are one.                                               *)
(***************************************************************************)
WindowEnd == Least(Duration, start + Window)
RangeStart == IF query THEN 0 ELSE start
RangeEnd == IF query THEN Duration ELSE WindowEnd

\* deviation: the padding may go past the end
PaddedPastEnd(match) ==
    <<IF match[1] - Padding > RangeStart THEN match[1] - Padding ELSE RangeStart, match[2] + Padding>>

Padded(match) ==
    <<IF match[1] - Padding > RangeStart THEN match[1] - Padding ELSE RangeStart,
      Least(RangeEnd, match[2] + Padding)>>

\* deviation: parts that only touch stay apart
JoinedApart(parts, part) ==
    IF parts # << >> /\ part[1] < Last(parts)[1]
    THEN Front(parts) \o << <<Last(parts)[1], IF part[2] > Last(parts)[2] THEN part[2] ELSE Last(parts)[2]>> >>
    ELSE Append(parts, part)

Joined(parts, part) ==
    IF parts # << >> /\ part[1] <= Last(parts)[2]
    THEN Front(parts) \o << <<Last(parts)[1], IF part[2] > Last(parts)[2] THEN part[2] ELSE Last(parts)[2]>> >>
    ELSE Append(parts, part)

FirstOf(seq, n) == SubSeq(seq, 1, Least(n, Len(seq)))

QueryWindows(matches) ==
    LET considered == ToSet(FirstOf(matches, MaxMatches)) IN
    IF query THEN {Padded(match) : match \in considered} ELSE {}

DecodeWindows(matches) ==
    LET padded == Ordered({part \in QueryWindows(matches) : part[2] > part[1]})
    IN FirstOf(FoldLeft(Joined, << >>, padded), MaxDecode)

CueWindows == DecodeWindows(Ordered(cues))

Around(time) == <<IF time > Padding THEN time - Padding ELSE 0, Least(Duration, time + Padding)>>

Apart(times) ==
    \A t, u \in times : t = u \/ Around(t)[1] >= Around(u)[2] \/ Around(u)[1] >= Around(t)[2]

AnchorWindows == Ordered({Around(time) : time \in anchors})

(***************************************************************************)
(* The steps of the worker.                                                *)
(***************************************************************************)
Subtitles ==
    /\ pc = "subtitles" /\ pc' = IF query /\ CueWindows = << >> THEN "visual" ELSE "audio"
    /\ UNCHANGED <<source, anchors, heard, windows, scans, frames, ocrFrames, warnings>>

(* The frame search returns times far enough apart, none, or is not there. *)
Visual ==
    /\ pc = "visual" /\ pc' = "audio"
    /\ \/ anchors' \in {times \in SUBSET (Time \ {Duration}) :
                          Cardinality(times) <= MaxAnchors /\ Apart(times)} /\ UNCHANGED warnings
       \/ warnings' = warnings \cup {"no model"} /\ UNCHANGED anchors
    /\ UNCHANGED <<source, heard, windows, scans, frames, ocrFrames>>

Whole == << <<start, WindowEnd>> >>

AudioWindows ==
    LET anchored == FirstOf(IF CueWindows # << >> THEN CueWindows ELSE AnchorWindows, MaxDecode)
    IN IF query /\ anchored # << >> THEN anchored ELSE Whole

SpeechIn(part) == {s \in speech : part[1] <= s[1] /\ s[2] <= part[2]}

(* The parts are transcribed in turn until one cannot be. *)
Transcribe ==
    /\ pc = "audio" /\ pc' = "plan"
    /\ IF ~audio THEN warnings' = warnings \cup {"no audio"} /\ UNCHANGED heard
       ELSE \E n \in 0..Len(AudioWindows) :
              /\ \A i \in 1..n : AudioWindows[i][2] - AudioWindows[i][1] <= AudioWindow
              /\ heard' = UNION {SpeechIn(AudioWindows[i]) : i \in 1..n}
              /\ warnings' = IF n < Len(AudioWindows) THEN warnings \cup {"no audio"} ELSE warnings
    /\ UNCHANGED <<source, anchors, windows, scans, frames, ocrFrames>>

Matches == Ordered(cues) \o Ordered({<<t, t>> : t \in anchors}) \o Ordered(heard)

Plan ==
    /\ pc = "plan" /\ pc' = "scan"
    /\ windows' = IF DecodeWindows(Matches) # << >> THEN DecodeWindows(Matches) ELSE Whole
    /\ warnings' = IF query /\ DecodeWindows(Matches) = << >>
                   THEN warnings \cup {"no anchor"} ELSE warnings
    /\ UNCHANGED <<source, anchors, heard, scans, frames, ocrFrames>>

(***************************************************************************)
(* One part: its scenes, and which of them get a frame.                    *)
(***************************************************************************)
Part == windows[Len(scans) + 1]

Boundaries(part) == <<part[1]>> \o SetToSortSeq({c \in cuts : part[1] < c /\ c < part[2]}, <) \o <<part[2]>>

Scenes(part) ==
    FirstOf([i \in 1..(Len(Boundaries(part)) - 1) |-> <<Boundaries(part)[i], Boundaries(part)[i + 1]>>],
            MaxScenes)

\* round: to the nearest, and to the even one from the middle
Rounded(a, b) == IF 2 * (a % b) < b \/ (2 * (a % b) = b /\ (a \div b) % 2 = 0)
                 THEN a \div b ELSE a \div b + 1

Coverage(n, limit) ==
    IF n <= limit THEN 1..n
    ELSE {1 + Rounded(i * (n - 1), limit - 1) : i \in 0..(limit - 1)}

OcrReads(selected) == IF ocr THEN Least(Cardinality(selected), ocrFrames) ELSE 0

SceneWarnings(scenes, limit) ==
    {w \in {"frame limit", "scene limit"} :
        \/ w = "frame limit" /\ Len(scenes) > limit
        \/ w = "scene limit" /\ Len(scenes) >= MaxScenes /\ Part[2] < Duration}

(* A part longer than one decode is not decoded, and fails the analysis. *)
TooLong ==
    /\ pc = "scan" /\ Len(scans) < Len(windows) /\ frames > 0
    /\ Part[2] - Part[1] > Window
    /\ pc' = "malformed"
    /\ UNCHANGED <<source, anchors, heard, windows, scans, frames, ocrFrames, warnings>>

(* One frame for several scenes: the spacing divides by zero. *)
Indivisible ==
    /\ pc = "scan" /\ Len(scans) < Len(windows) /\ frames = 1
    /\ Part[2] - Part[1] <= Window /\ Len(Scenes(Part)) > 1
    /\ pc' = "raised"
    /\ UNCHANGED <<source, anchors, heard, windows, scans, frames, ocrFrames, warnings>>

\* deviation: every part gets the frames of the request
FramesLeftAlways(selected) == MaxFrames

FramesLeft(selected) == frames - Cardinality(selected)

Scan ==
    /\ pc = "scan" /\ Len(scans) < Len(windows) /\ frames > 0
    /\ Part[2] - Part[1] <= Window
    /\ frames = 1 => Len(Scenes(Part)) = 1
    /\ LET scenes == Scenes(Part)
           selected == Coverage(Len(scenes), frames) IN
       /\ scans' = Append(scans, [scenes |-> scenes, selected |-> selected, reads |-> OcrReads(selected)])
       /\ frames' = FramesLeft(selected)
       /\ ocrFrames' = ocrFrames - OcrReads(selected)
       /\ warnings' = warnings \cup SceneWarnings(scenes, frames)
    /\ UNCHANGED <<source, pc, anchors, heard, windows>>

\* deviation: parts are left out without a warning
SparedSilently == {}

Spared == IF Len(scans) < Len(windows) THEN {"frame limit"} ELSE {}

Report ==
    /\ pc = "scan" /\ (Len(scans) = Len(windows) \/ frames = 0)
    /\ pc' = "done" /\ warnings' = warnings \cup Spared
    /\ UNCHANGED <<source, anchors, heard, windows, scans, frames, ocrFrames>>

TimelineNext == Subtitles \/ Visual \/ Transcribe \/ Plan \/ TooLong \/ Indivisible \/ Scan \/ Report
TimelineSpec == TimelineInit /\ [][TimelineNext]_vars

(***************************************************************************)
(* Properties.                                                             *)
(***************************************************************************)
(* Every match that is considered lies in a part to decode, unless there   *)
(* are as many parts as are ever decoded, and no two parts touch, so that  *)
(* no moment is decoded twice (_decode_windows_from_query_items).          *)
MatchesAreDecoded ==
    windows # << >> =>
        /\ \A i, j \in DOMAIN windows : i < j => windows[i][2] < windows[j][1]
        /\ query /\ Len(windows) < MaxDecode =>
             \A match \in ToSet(FirstOf(Matches, MaxMatches)) :
                \E i \in DOMAIN windows : windows[i][1] <= match[1] /\ match[2] <= windows[i][2]

(* All parts together take no more frames and OCR reads than one request   *)
(* is given (remaining_frames, remaining_ocr_frames).                      *)
FramesAreShared ==
    /\ Sum([i \in DOMAIN scans |-> Cardinality(scans[i].selected)]) <= MaxFrames
    /\ Sum([i \in DOMAIN scans |-> scans[i].reads]) <= MaxOcr

(* An analysis without a warning about frames or scenes has decoded every  *)
(* part it planned, and each part's scenes cover it and all have a frame.  *)
NothingMissingUnsaid ==
    pc = "done" /\ warnings \cap {"frame limit", "scene limit"} = {} =>
        /\ Len(scans) = Len(windows)
        /\ \A i \in DOMAIN scans :
             /\ scans[i].selected = DOMAIN scans[i].scenes
             /\ UNION {a[1]..a[2] : a \in ToSet(scans[i].scenes)} = windows[i][1]..windows[i][2]

(* The scenes of a part never make the analysis raise. *)
NeverRaises == pc # "raised"

(* The parts to decode are bounded, whatever matches the query. *)
PartsAreBounded == pc # "malformed"
=============================================================================
