--------------------------- MODULE CloudTransfers ---------------------------
(***************************************************************************)
(* How contents travel: the files of one directory of the drive, the nodes *)
(* CloudVfs has for them, its content cache, and the transfers of the      *)
(* desktop program, which makes one at a time on the thread of its window: *)
(* a download reads chunk after chunk through the cache, an upload is the  *)
(* protocol of CloudService::upload_file, request by request.  Mounts read *)
(* through the same cache between any two steps, and other clients write   *)
(* and delete the files.                                                   *)
(*                                                                         *)
(* A file is as long as it has units; a part of an upload is one of them,  *)
(* a chunk of a download may be more.  A request is done and answered,     *)
(* done although the answer is lost, or not done; how it is sent again     *)
(* with a new token is in Downstream.                                      *)
(***************************************************************************)
EXTENDS CloudContent

CONSTANTS
    Doc,        \* docids
    MaxSize,    \* bound: how long a file is
    MaxRev,     \* bound: how many revisions a file has
    Chunk,      \* chunk_size of a download
    MaxBytes,   \* max_content_cache_bytes
    MaxEntries  \* bound: entries of the cache; those without bytes are never trimmed

ASSUME TransferAssumption ==
    /\ {MaxSize, MaxRev, Chunk, MaxEntries} \subseteq Nat \ {0}
    /\ MaxBytes \in Nat

VARIABLES
    drive,      \* external: the files by docid
    gone,       \* external: the documents deleted so far; their ids are not reused
    session,    \* external: what has arrived of the upload under way; what a failed
                \* one leaves there is never asked for again
    node,       \* the revision and size CloudVfs has listed of each file
    cache,      \* m_content_cache
    work,       \* the transfer that is under way
    report,     \* what the last transfer was reported to be
    quiet,      \* history: nobody has changed the file since the download under way
                \* began, and the drive has sent the ranges it was asked for
    tainted,    \* history: documents of which the cache was given other bytes than
                \* those asked for
    stray       \* history: documents whose nodes went with the root, not their contents

external == <<drive, gone, session>>
vfs == <<node, cache>>
contents == <<tainted, stray>>
history == <<quiet, contents>>
vars == <<external, vfs, work, report, history>>

File == [rev : 1 .. MaxRev, size : 0 .. MaxSize, whole : BOOLEAN]
Session == [parts : SUBSET (1 .. MaxSize), joined : BOOLEAN]
Idle == [pc |-> "idle"]
Download == [pc : {"read"}, doc : Doc, rev : 1 .. MaxRev, size : 0 .. MaxSize,
             offset : 0 .. MaxSize, written : 0 .. MaxSize, inOrder : BOOLEAN]
Upload == [pc : {"check", "fast", "begin", "put", "end",
                 "init", "auth", "part", "complete", "join", "finish"},
           doc : Doc, size : 1 .. MaxSize, allowed : 0 .. MaxSize, next : 1 .. MaxSize + 1]

Partial(f, S, T) == DOMAIN f \subseteq S /\ \A x \in DOMAIN f : f[x] \in T

TypeOK ==
    /\ Partial(drive, Doc, File)
    /\ gone \subseteq Doc \ DOMAIN drive
    /\ session \in Session
    /\ Partial(node, Doc, [rev : 1 .. MaxRev, size : 0 .. MaxSize])
    /\ Len(cache.entries) <= MaxEntries
    /\ \A e \in Range(cache.entries) :
        e.doc \in Doc /\ e.rev \in 1 .. MaxRev /\ e.offset \in 0 .. MaxSize /\ e.bytes \in Slice
    /\ work \in {Idle} \cup Download \cup Upload
    /\ report \in {"none", "failed", "downloaded", "uploaded"}
    /\ tainted \subseteq Doc /\ stray \subseteq Doc
    /\ quiet \in BOOLEAN

Nothing == [x \in {} |-> x]
NoSession == [parts |-> {}, joined |-> FALSE]

Init ==
    /\ \E D \in SUBSET Doc :
        drive \in [D -> {f \in File : f.rev = 1 /\ f.whole}]
    /\ gone = {} /\ session = NoSession
    /\ node = Nothing /\ cache = EmptyCache
    /\ work = Idle /\ report = "none"
    /\ quiet = FALSE /\ tainted = {} /\ stray = {}

With(f, x, y) == [e \in DOMAIN f \cup {x} |-> IF e = x THEN y ELSE f[e]]
Less(f, S) == [e \in DOMAIN f \ S |-> f[e]]

-----------------------------------------------------------------------------
(* The other clients of the drive. *)

Disturb(d) == quiet' = (quiet /\ ~(work.pc = "read" /\ work.doc = d))

OtherWrites(d, size) ==
    /\ d \in DOMAIN drive /\ drive[d].rev < MaxRev
    /\ drive' = [drive EXCEPT ![d] = [rev |-> @.rev + 1, size |-> size, whole |-> TRUE]]
    /\ Disturb(d)
    /\ UNCHANGED <<gone, session, vfs, work, report, contents>>

OtherDeletes(d) ==
    /\ d \in DOMAIN drive
    /\ drive' = Less(drive, {d}) /\ gone' = gone \cup {d}
    /\ Disturb(d)
    /\ UNCHANGED <<session, vfs, work, report, contents>>

-----------------------------------------------------------------------------
(* CloudVfs: listings, and what they and the writes do to the contents kept. *)

\* The contents of the documents of docs go.
Drops(docs) ==
    /\ cache' = RemoveDocs(cache, docs)
    /\ tainted' = tainted \ docs /\ stray' = stray \ docs

\* list and refresh: every node the directory has goes with its contents, and
\* those come that the drive lists.
List ==
    /\ node' = [d \in DOMAIN drive |-> [rev |-> drive[d].rev, size |-> drive[d].size]]
    /\ Drops(DOMAIN node)
    /\ UNCHANGED <<external, work, report, quiet>>

\* load_user_root, when the window opens the drive anew: the nodes go and their
\* contents stay, where no listing finds them before they are listed again.
LoadRoot ==
    /\ work = Idle
    /\ node' = Nothing
    /\ stray' = stray \cup DOMAIN node
    /\ UNCHANGED <<external, cache, work, report, quiet, tainted>>

\* remove, as a mount calls it.
RemoveFile(d) ==
    /\ d \in DOMAIN node \cap DOMAIN drive
    /\ drive' = Less(drive, {d}) /\ gone' = gone \cup {d}
    /\ node' = Less(node, {d})
    /\ Drops({d})
    /\ Disturb(d)
    /\ UNCHANGED <<session, work, report>>

ClearContentCache ==
    /\ cache' = EmptyCache /\ tainted' = {} /\ stray' = {}
    /\ UNCHANGED <<external, node, work, report, quiet>>

\* What the drive may send for a range: some of it, or the file from its start
\* when it takes no ranges, of which as many bytes are kept as were asked for.
Sends(d, offset, length) ==
    IF d \notin DOMAIN drive THEN {}
    ELSE {[rev |-> drive[d].rev, from |-> offset, len |-> n] :
             n \in 1 .. Min({length, drive[d].size - offset})}
         \cup {[rev |-> drive[d].rev, from |-> 0, len |-> Min({length, drive[d].size})]}

Cached(d, offset, length) == Holding(cache.entries, d, node[d].rev, offset, length) # {}

\* What read may give of [offset, offset + length), all of which is listed.
Answers(d, offset, length) ==
    IF Cached(d, offset, length)
    THEN {GetRange(cache.entries, d, node[d].rev, offset, length)}
    ELSE Sends(d, offset, length)

\* What is sent is kept as bytes of the listed revision, whatever it is.
Keeps(d, offset, bytes) ==
    /\ cache' = PutRange(cache, Entry(d, node[d].rev, offset, bytes), MaxBytes)
    /\ Len(cache'.entries) <= MaxEntries
    /\ LET asListed == bytes.rev = node[d].rev /\ bytes.from = offset
       IN  tainted' = IF asListed THEN tainted ELSE tainted \cup {d}

\* Bytes from elsewhere in the file come while it is downloaded.
Misplaced(d, offset, bytes) == work.pc = "read" /\ work.doc = d /\ bytes.from # offset

\* A mount reads; what the cache holds it gets without a step.
MountReads(d, offset, length) ==
    /\ d \in DOMAIN node /\ offset + length <= node[d].size
    /\ ~Cached(d, offset, length)
    /\ \E bytes \in Answers(d, offset, length) :
        /\ Keeps(d, offset, bytes)
        /\ quiet' = (quiet /\ ~Misplaced(d, offset, bytes))
    /\ UNCHANGED <<external, node, work, report, stray>>

-----------------------------------------------------------------------------
(* The download of the desktop program.  The listing that lookup may refresh *)
(* first is a step of List before it.                                        *)

Ends(result) == work' = Idle /\ report' = result
Completes == Ends("downloaded") /\ quiet' = FALSE

DownloadStarts(d) ==
    /\ work = Idle /\ d \in DOMAIN node
    /\ work' = [pc |-> "read", doc |-> d, rev |-> node[d].rev, size |-> node[d].size,
                offset |-> 0, written |-> 0, inOrder |-> TRUE]
    /\ report' = "none"
    /\ quiet' = /\ d \in DOMAIN drive \ tainted
                /\ drive[d].rev = node[d].rev
    /\ UNCHANGED <<external, vfs, contents>>

Reading == work.pc = "read" /\ work.offset < work.size

\* Mutant: the offset moves by what was asked for.
Advanced_AsAsked(bytes, length) == work.offset + length

Advanced(bytes, length) == work.offset + bytes.len

Writes(bytes, length) ==
    /\ work' = [work EXCEPT !.offset = Advanced(bytes, length),
                            !.written = @ + bytes.len,
                            !.inOrder = @ /\ bytes.rev = work.rev
                                          /\ bytes.from = work.written]
    /\ UNCHANGED report

\* Mutant: a chunk without bytes does not end the loop.
AfterChunk_GoesOn(bytes, length, undisturbed) ==
    Writes(bytes, length) /\ quiet' = undisturbed

\* A chunk without bytes ends the loop, and the download is done all the same.
AfterChunk(bytes, length, undisturbed) ==
    \/ bytes.len > 0 /\ Writes(bytes, length) /\ quiet' = undisturbed
    \/ bytes.len = 0 /\ Completes

\* The listed file is no longer than what is written already.
ReadsNothing ==
    /\ Reading /\ work.doc \in DOMAIN node
    /\ work.offset >= node[work.doc].size
    /\ AfterChunk([rev |-> 0, from |-> 0, len |-> 0], Chunk, quiet)
    /\ UNCHANGED <<external, vfs, contents>>

ReadsChunk ==
    /\ Reading /\ work.doc \in DOMAIN node
    /\ LET d      == work.doc
           offset == work.offset
           wanted == Min({Chunk, work.size - offset})
           length == Min({wanted, node[d].size - offset})
       IN  /\ length > 0
           /\ \E bytes \in Answers(d, offset, length) :
                IF Cached(d, offset, length)
                THEN AfterChunk(bytes, wanted, quiet) /\ UNCHANGED <<cache, tainted>>
                ELSE /\ AfterChunk(bytes, wanted, quiet /\ ~Misplaced(d, offset, bytes))
                     /\ Keeps(d, offset, bytes)
    /\ UNCHANGED <<external, node, stray>>

\* The path is gone, the request fails, or the local file cannot be written.
DownloadFails ==
    /\ Reading
    /\ Ends("failed") /\ quiet' = FALSE
    /\ UNCHANGED <<external, vfs, contents>>

\* The size that was listed when the download began is reached.
DownloadDone ==
    /\ work.pc = "read" /\ ~Reading
    /\ Completes
    /\ UNCHANGED <<external, vfs, contents>>

-----------------------------------------------------------------------------
(* CloudService::upload_file. *)

UploadStarts(d, size) ==
    /\ work = Idle /\ d \notin DOMAIN drive \cup gone
    /\ \E first \in {"check", IF size = 1 THEN "begin" ELSE "init"} :
        work' = [pc |-> first, doc |-> d, size |-> size, allowed |-> 0, next |-> 1]
    /\ report' = "none"
    /\ UNCHANGED <<external, vfs, history>>

Goes(pc) == work' = [work EXCEPT !.pc = pc] /\ UNCHANGED report
Leaves(result) == Ends(result) /\ session' = NoSession
Fails == Leaves("failed")

\* A request whose answer is all that counts, or that fails.
Asks(pc, next) ==
    /\ work.pc = pc
    /\ \/ Goes(next) /\ UNCHANGED session
       \/ Fails
    /\ UNCHANGED <<drive, gone, vfs, history>>

\* A request the drive keeps something of, whether its answer arrives or not.
Stores(pc, kept, next) ==
    /\ work.pc = pc
    /\ \/ session' = kept /\ work' = next /\ UNCHANGED report
       \/ Fails
    /\ UNCHANGED <<drive, gone, vfs, history>>

\* The document appears; it is whole when all of it is there.
Appears(all) ==
    drive' = With(drive, work.doc, [rev |-> 1, size |-> work.size, whole |-> all])

\* The request that makes the document appear: answered, or refused, or done
\* though its answer is lost.
LastRequest(pc, all) ==
    /\ work.pc = pc
    /\ \/ Appears(all) /\ Leaves("uploaded")
       \/ (Appears(all) \/ UNCHANGED drive) /\ Fails
    /\ UNCHANGED <<gone, vfs, history>>

\* All the parts have arrived, and were joined when there are several.
Arrived ==
    /\ session.parts = 1 .. work.size
    /\ work.size > 1 => session.joined

WithPart(n) == [session EXCEPT !.parts = @ \cup {n}]

\* predupload: the drive may know the contents, and then does without them.
Check ==
    /\ work.pc = "check"
    /\ \/ Asks("check", "fast")
       \/ Asks("check", IF work.size = 1 THEN "begin" ELSE "init")
Fast == LastRequest("fast", TRUE)

\* What is no longer than a part is sent at once.
Begin == Asks("begin", "put")
Put == Stores("put", WithPart(1), [work EXCEPT !.pc = "end"])
End == LastRequest("end", Arrived)

InitMulti == Asks("init", "auth")

\* The drive authorises some of the parts, or all of them.
Authorise ==
    /\ work.pc = "auth"
    /\ \E n \in 1 .. work.size :
            Stores("auth", session, [work EXCEPT !.pc = "part", !.allowed = n])

PutPart ==
    /\ work.pc = "part" /\ work.next <= work.allowed
    /\ Stores("part", WithPart(work.next), [work EXCEPT !.next = @ + 1])

\* Mutant: nobody asks whether anything remains.
Remains_Never == FALSE

\* remaining is not 0 when the authorised parts are sent.
Remains == work.next <= work.size

PartsSent ==
    /\ work.pc = "part" /\ work.next > work.allowed
    /\ IF Remains THEN Fails ELSE Goes("complete") /\ UNCHANGED session
    /\ UNCHANGED <<drive, gone, vfs, history>>

Complete == Asks("complete", "join")
Join == Stores("join", [session EXCEPT !.joined = TRUE], [work EXCEPT !.pc = "finish"])
Finish == LastRequest("finish", Arrived)

-----------------------------------------------------------------------------

DownloadStep == ReadsNothing \/ ReadsChunk \/ DownloadFails \/ DownloadDone

UploadStep ==
    \/ Check \/ Fast
    \/ Begin \/ Put \/ End
    \/ InitMulti \/ Authorise \/ PutPart \/ PartsSent \/ Complete \/ Join \/ Finish

Next ==
    \/ \E d \in Doc, size \in 0 .. MaxSize : OtherWrites(d, size)
    \/ \E d \in Doc : OtherDeletes(d)
    \/ List \/ LoadRoot \/ ClearContentCache
    \/ \E d \in Doc : RemoveFile(d)
    \/ \E d \in Doc, offset \in 0 .. MaxSize - 1, length \in 1 .. MaxSize :
        MountReads(d, offset, length)
    \/ \E d \in Doc : DownloadStarts(d)
    \/ \E d \in Doc, size \in 1 .. MaxSize : UploadStarts(d, size)
    \/ DownloadStep
    \/ UploadStep

Spec == Init /\ [][Next]_vars

\* What the transfer does next it asks of the drive.
Awaits ==
    \/ /\ Reading
       /\ work.doc \in DOMAIN node =>
            /\ work.offset < node[work.doc].size
            /\ LET rest == Min({work.size, node[work.doc].size}) - work.offset
               IN  ~Cached(work.doc, work.offset, Min({Chunk, rest}))
    \/ work.pc \notin {"idle", "read", "part"}
    \/ work.pc = "part" /\ work.next <= work.allowed

\* The program does what it can do alone; a request may never be answered, and
\* nothing has to fail.
FairSpec ==
    Spec /\ WF_vars(~Awaits /\ (ReadsNothing \/ ReadsChunk \/ DownloadDone \/ PartsSent))

-----------------------------------------------------------------------------
(* Properties. *)

\* What the cache serves of a file is what the range of the listed revision
\* holds, though its contents have outlived a reload of the root, unless the
\* drive has sent other bytes than it was asked for since they were last dropped:
\* those of a newer revision, or the start of the file.
ServedAsListed ==
    \A d \in DOMAIN node \ tainted, offset \in 0 .. MaxSize - 1, length \in 1 .. MaxSize :
        Holding(cache.entries, d, node[d].rev, offset, length) # {} =>
            GetRange(cache.entries, d, node[d].rev, offset, length)
                = [rev |-> node[d].rev, from |-> offset, len |-> length]

\* m_used_bytes is the number of bytes kept, which the configuration bounds,
\* through every order of reads, listings and removals.
CountIsExact == cache.used = BytesOf(cache.entries) /\ cache.used <= MaxBytes

\* Only a reload of the root leaves bytes of a file that is not listed, and none
\* are kept beyond the end of the revision they would be served for.
KeptAreListed ==
    \A e \in Range(cache.entries) :
        /\ e.doc \in DOMAIN node \cup stray
        /\ e.doc \in DOMAIN node /\ e.rev = node[e.doc].rev => e.offset < node[e.doc].size

\* The cache is sound: what it keeps is of listed files, but for what a reload of
\* the root has left, and within them, and the count of its bytes is exact.
CacheSound == TypeOK /\ KeptAreListed /\ CountIsExact

\* A download that is reported as done has written the whole file in order when
\* nobody changed the file meanwhile and the drive takes ranges, however short
\* its answers are and whatever mounts read or list in between.
DownloadedIsWhole ==
    [][report # "downloaded" /\ report' = "downloaded" /\ quiet =>
        work.inOrder /\ work.written = work.size]_vars

\* No document appears on the drive with a part missing or before the parts were
\* joined, wherever an upload ends and whatever number of parts is authorised.
NothingHalf == \A d \in DOMAIN drive : drive[d].whole

\* A transfer ends, though answers are short and a file shrinks under it, unless
\* one request of it is never answered: it does not go on asking for ever.
TransferEnds ==
    \/ []<>(work = Idle)
    \/ []<>Awaits /\ <>[][UNCHANGED work]_vars
=============================================================================
