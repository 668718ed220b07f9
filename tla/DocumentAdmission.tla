------------------------- MODULE DocumentAdmission -------------------------
(***************************************************************************)
(* One current file on its way into the document parsers, beside programs  *)
(* that write, replace and remove it: the descriptor-safe staging read     *)
(* (ProjectOwnedBoundedDocumentIngress._read), the bounded identification  *)
(* of the staged bytes (identify_document_format), and the checks of       *)
(* inspect_document around them: the state of a media source before and    *)
(* after the parse and the digest a page sequence is bound to.             *)
(*                                                                         *)
(* A file is an inode with chunks; a chunk is the number of the write that *)
(* wrote it, so bytes of two writes are never equal.  The digest of a      *)
(* source is the sequence of its chunks.                                   *)
(***************************************************************************)
EXTENDS Naturals, Sequences, FiniteSets

CONSTANTS
    MaxChunks,      \* max_staged_bytes, in chunks
    MaxWrites,      \* bound: writes to the file
    MaxCalls,       \* bound: calls of inspect_document, the pages of one sequence
    KeepsMtime,     \* whether a writer may restore the modification time
    IsMedia,        \* whether the suffix is in _MEDIA_SUFFIXES
    Containers      \* the archives the file may be (see Identified)

AdmissionAssumption ==
    /\ MaxChunks \in Nat \ {0}
    /\ MaxWrites \in Nat
    /\ MaxCalls \in Nat \ {0}
    /\ KeepsMtime \in BOOLEAN
    /\ IsMedia \in BOOLEAN

VARIABLES
    path,       \* what the path names: an inode, a link, or nothing
    inodes,     \* the inodes: chunks, mtime, ctime
    clock,      \* the number of the last write
    pc,         \* where the reader is
    media,      \* the media state before the parse
    before,     \* fstat before the first read
    fd,         \* the inode the descriptor names
    staged,     \* the chunks staged so far
    container,  \* what kind of file the bytes are
    pinned,     \* expected_source_sha256 of the next call, or Unpinned
    pages,      \* the sources of the pages published so far
    calls,      \* the calls begun
    contents    \* every content some file at the path has had (history)

admissionVars == <<path, inodes, clock, pc, media, before, fd, staged, container,
                   pinned, pages, calls, contents>>
fileVars == <<path, inodes, clock, contents>>

Nothing == 0
Link == MaxWrites + 2
Unpinned == <<0>>
Blank == [ino |-> 0, size |-> 0, mtime |-> 0, ctime |-> 0]

----------------------------------------------------------------------------
(* The other programs.                                                     *)

Written(n) == [i \in 1 .. n |-> clock + 1]

\* A write in place: of one chunk of the file or of all, with its size kept or not,
\* and the modification time perhaps set back.
Overwrite ==
    /\ clock < MaxWrites
    /\ path \in DOMAIN inodes
    /\ \E new \in {Written(n) : n \in 1 .. MaxChunks + 1}
                  \cup {[inodes[path].chunks EXCEPT ![i] = clock + 1] :
                            i \in DOMAIN inodes[path].chunks},
          kept \in IF KeepsMtime THEN BOOLEAN ELSE {FALSE} :
            inodes' = [inodes EXCEPT ![path] =
                        [chunks |-> new,
                         mtime |-> IF kept THEN @.mtime ELSE clock + 1,
                         ctime |-> clock + 1]]
    /\ clock' = clock + 1
    /\ contents' = contents \cup {inodes'[path].chunks}
    /\ UNCHANGED <<path, pc, media, before, fd, staged, container, pinned, pages, calls>>

\* A new file renamed over the path.
Replace ==
    /\ clock < MaxWrites
    /\ \E n \in 1 .. MaxChunks :
        inodes' = [i \in DOMAIN inodes \cup {clock + 2} |->
                    IF i = clock + 2
                    THEN [chunks |-> Written(n), mtime |-> clock + 1, ctime |-> clock + 1]
                    ELSE inodes[i]]
    /\ path' = clock + 2
    /\ clock' = clock + 1
    /\ contents' = contents \cup {inodes'[path'].chunks}
    /\ UNCHANGED <<pc, media, before, fd, staged, container, pinned, pages, calls>>

\* The path is removed or becomes a link.
Remove ==
    /\ path \in DOMAIN inodes
    /\ path' \in {Nothing, Link}
    /\ UNCHANGED <<inodes, clock, contents, pc, media, before, fd, staged, container, pinned,
                   pages, calls>>

----------------------------------------------------------------------------
(* inspect_document and the staging read.                                  *)

Stat(i) == [ino |-> i, size |-> Len(inodes[i].chunks), mtime |-> inodes[i].mtime,
            ctime |-> inodes[i].ctime]

\* deviation: the size alone tells whether the source has changed
SameSize(a, b) == a.ino = b.ino /\ a.size = b.size

\* _same_state: device, inode, size and modification time
SameState(a, b) == a.ino = b.ino /\ a.size = b.size /\ a.mtime = b.mtime

Fail(stage) ==
    /\ pc' = stage
    /\ media' = Blank /\ before' = Blank /\ fd' = Nothing /\ staged' = <<>>
    /\ UNCHANGED <<fileVars, container, pinned, pages, calls>>

\* The call begins; a media source must be a regular file, whose state is kept.
Inspect ==
    /\ pc \in {"IDLE", "FAILED"}
    /\ calls < MaxCalls
    /\ calls' = calls + 1
    /\ IF IsMedia /\ path \notin DOMAIN inodes
       THEN pc' = "FAILED" /\ UNCHANGED media
       ELSE pc' = "OPEN" /\ media' = IF IsMedia THEN Stat(path) ELSE Blank
    /\ UNCHANGED <<fileVars, before, fd, staged, container, pinned, pages>>

\* The descriptor is opened without following a link; a link, a missing file and
\* one that is already too large end the call.
OpenSource ==
    /\ pc = "OPEN"
    /\ path \in DOMAIN inodes
    /\ Len(inodes[path].chunks) <= MaxChunks
    /\ fd' = path
    /\ before' = Stat(path)
    /\ staged' = <<>>
    /\ pc' = "READ"
    /\ UNCHANGED <<fileVars, media, container, pinned, pages, calls>>
OpenRefused ==
    /\ pc = "OPEN"
    /\ path \in DOMAIN inodes => Len(inodes[path].chunks) > MaxChunks
    /\ Fail("FAILED")

\* deviation: what is read beyond the limit is staged all the same
ReadChunkUnbounded ==
    /\ pc = "READ"
    /\ Len(staged) < Len(inodes[fd].chunks)
    /\ staged' = Append(staged, inodes[fd].chunks[Len(staged) + 1])
    /\ UNCHANGED <<fileVars, pc, media, before, fd, container, pinned, pages, calls>>

\* One chunk, as the file is now.
ReadChunk ==
    /\ pc = "READ"
    /\ Len(staged) < Len(inodes[fd].chunks)
    /\ Len(staged) < MaxChunks
    /\ staged' = Append(staged, inodes[fd].chunks[Len(staged) + 1])
    /\ UNCHANGED <<fileVars, pc, media, before, fd, container, pinned, pages, calls>>
ReadTooMuch ==
    /\ pc = "READ"
    /\ Len(staged) < Len(inodes[fd].chunks)
    /\ Len(staged) >= MaxChunks
    /\ Fail("FAILED")
ReadEnd ==
    /\ pc = "READ"
    /\ Len(staged) >= Len(inodes[fd].chunks)
    /\ pc' = "STAGED"
    /\ UNCHANGED <<fileVars, media, before, fd, staged, container, pinned, pages, calls>>

\* The descriptor is asked again; only an unchanged source is admitted.
Admit ==
    /\ pc = "STAGED"
    /\ SameState(before, Stat(fd))
    /\ pc' = "IDENTIFY"
    /\ fd' = Nothing /\ before' = Blank
    /\ UNCHANGED <<fileVars, media, staged, container, pinned, pages, calls>>
AdmitRefused ==
    /\ pc = "STAGED"
    /\ ~SameState(before, Stat(fd))
    /\ Fail("FAILED")

----------------------------------------------------------------------------
(* Identification.  A container is what its members show: the parts it has *)
(* (parts), and the bounds it exceeds (over).                              *)

\* The checks of _container_safety_failure, in their order.
SafetyChecks == {"members", "duplicate", "encrypted", "path", "expanded", "member",
                 "relationships", "control", "ratio"}
Unsafe(c) == c.over \cap SafetyChecks # {}

OfficeParts == {"word/document.xml", "xl/workbook.xml", "ppt/presentation.xml"}
Recognized(c) == c.parts \cap OfficeParts

\* _identify_epub_container
EpubAdmitted(c) ==
    /\ "container.xml" \in c.parts
    /\ "encryption.xml" \notin c.parts
    /\ "source" \notin c.over
    /\ ~Unsafe(c)
    /\ "package" \in c.parts

\* deviation: an office container is routed by its parts alone
OfficeByParts(c) ==
    /\ Cardinality(Recognized(c)) = 1
    /\ "source" \notin c.over
    /\ "[Content_Types].xml" \in c.parts

\* The office branch of _identify_zip_container: one recognised part, its bounds,
\* and for DOCX a content type that is not the one with macros.
OfficeAdmitted(c) ==
    /\ Cardinality(Recognized(c)) = 1
    /\ "source" \notin c.over
    /\ "[Content_Types].xml" \in c.parts
    /\ ~Unsafe(c)
    /\ "word/document.xml" \in c.parts => "macros" \notin c.parts

\* A declared EPUB is judged as one; reading the declaration of an encrypted
\* archive fails.
Identified(c) ==
    \/ ~c.archive /\ "source" \notin c.over
    \/ /\ c.archive
       /\ IF "mimetype" \in c.parts
          THEN "encrypted" \notin c.over /\ EpubAdmitted(c)
          ELSE OfficeAdmitted(c)

Identify ==
    /\ pc = "IDENTIFY"
    /\ Identified(container)
    /\ pc' = "PARSED"
    /\ UNCHANGED <<fileVars, media, before, fd, staged, container, pinned, pages, calls>>
IdentifyRefused ==
    /\ pc = "IDENTIFY"
    /\ ~Identified(container)
    /\ Fail("FAILED")

----------------------------------------------------------------------------
(* The page.                                                               *)

\* deviation: the media source is not asked for again
MediaUnasked == TRUE

\* The media source is still the file it was, change time included.
MediaUnchanged == IsMedia => path \in DOMAIN inodes /\ Stat(path) = media

\* deviation: the expected digest is compared on the first page only
ExpectedOnce == pages = <<>> \/ pinned # Unpinned

\* The source is the one the caller selected with the first page.
Expected == pinned = Unpinned \/ staged = pinned

\* The page is published; the caller binds the next one to its digest.
Publish ==
    /\ pc = "PARSED"
    /\ MediaUnchanged
    /\ Expected
    /\ pages' = Append(pages, staged)
    /\ pinned' = staged
    /\ pc' = "IDLE"
    /\ media' = Blank /\ staged' = <<>>
    /\ UNCHANGED <<fileVars, before, fd, container, calls>>
PublishRefused ==
    /\ pc = "PARSED"
    /\ ~MediaUnchanged \/ ~Expected
    /\ Fail("FAILED")

AdmissionInit ==
    /\ path = 1
    /\ \E n \in 1 .. MaxChunks :
        inodes = [i \in {1} |-> [chunks |-> [k \in 1 .. n |-> 1], mtime |-> 1, ctime |-> 1]]
    /\ clock = 1
    /\ pc = "IDLE"
    /\ media = Blank /\ before = Blank /\ fd = Nothing /\ staged = <<>>
    /\ container \in Containers
    /\ pinned = Unpinned
    /\ pages = <<>>
    /\ calls = 0
    /\ contents = {inodes[1].chunks}

Others == Overwrite \/ Replace \/ Remove
Reader ==
    \/ Inspect \/ OpenSource \/ OpenRefused
    \/ ReadChunk \/ ReadTooMuch \/ ReadEnd \/ Admit \/ AdmitRefused
    \/ Identify \/ IdentifyRefused \/ Publish \/ PublishRefused

AdmissionNext == Others \/ Reader

AdmissionSpec == AdmissionInit /\ [][AdmissionNext]_admissionVars

----------------------------------------------------------------------------
(* Properties.                                                             *)

\* The reader stays in its types and never stages more than its limit.
AdmissionTypeOK ==
    /\ pc \in {"IDLE", "OPEN", "READ", "STAGED", "IDENTIFY", "PARSED", "FAILED"}
    /\ Len(staged) <= MaxChunks
    /\ fd \in {Nothing} \cup DOMAIN inodes
    /\ Len(pages) <= calls

\* The bytes of a published page are bytes the file had at one time: no page mixes
\* two states of its source (docs/DOCUMENT-AND-MEDIA.md, resource behaviour).
NoTornPage == \A k \in DOMAIN pages : pages[k] \in contents

\* The pages of one sequence are pages of one source, whatever was written between
\* the calls.
OneSourcePerSequence == \A k \in DOMAIN pages : pages[k] = pages[1]

\* What reaches a parser is within every bound of its container.
OnlySafeContainersParsed ==
    pc = "PARSED" /\ container.archive =>
        /\ ~Unsafe(container)
        /\ "encryption.xml" \notin container.parts
=============================================================================
