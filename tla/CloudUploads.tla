----------------------------- MODULE CloudUploads -----------------------------
(***************************************************************************)
(* Write handles and the upload queue of CloudVfs, for one directory of    *)
(* the drive.  Every request of process_next_upload is a step of its own,  *)
(* between which other clients change the directory and after which the    *)
(* answer may be lost; CloudVfs does nothing else meanwhile.               *)
(* Bytes are values of Content; upload_file (hashes, fast path, parts) is  *)
(* one step, as nothing is seen of a file before its last request.  rename *)
(* and remove of CloudVfs change the drive as other clients do and then    *)
(* forget the listing, which is ParentListed.                              *)
(***************************************************************************)
EXTENDS Naturals, FiniteSets, Functions

CONSTANTS
    Name,
    Content,        \* what a file holds
    Empty,          \* nothing
    MaxTasks,       \* bound: tasks ever queued
    MaxHandles,     \* bound: write handles ever opened
    MaxDocs,        \* bound: documents ever on the drive
    MaxAttempts     \* bound: attempts of a task

ASSUME UploadAssumption ==
    /\ Empty \in Content
    /\ {MaxTasks, MaxHandles, MaxDocs} \subseteq Nat
    /\ MaxAttempts \in Nat \ {0}

VARIABLES
    dir,        \* external: the documents of the directory
    born,       \* external: how many documents there have been
    known,      \* whether the index has a node for the directory
    listing,    \* the cached listing: names by docid
    loaded,     \* whether it may be used again
    uploads,    \* m_uploads by task id, the order of its vector
    nextTask,   \* m_next_task_id
    writes,     \* m_writes
    nextHandle, \* m_next_handle_id
    work,       \* how far process_next_upload is
    stored,     \* history: the tasks whose file has reached the drive
    emptied,    \* history: the tasks that deleted a document to replace it
    cancelled,  \* history: the tasks cancelled
    renamed     \* history: whether a document of a task was renamed

drives == <<dir, born>>
index == <<known, listing, loaded>>
queue == <<uploads, nextTask>>
handles == <<writes, nextHandle>>
history == <<stored, emptied, cancelled, renamed>>
vars == <<drives, index, queue, handles, work, history>>

Policy == {"Fail", "UseSuggestedName", "Overwrite"}
TaskId == 1 .. MaxTasks
HandleId == 1 .. MaxHandles
DocId == 1 .. MaxDocs
NoTask == 0
NoDoc == 0

File == [name : Name, content : Content, by : TaskId \cup {NoTask}]
Upload == [status   : {"pending", "running", "succeeded", "failed", "cancelled"},
           attempts : 0 .. MaxAttempts,
           name     : Name, policy : Policy, content : Content]
PendingWrite == [name : Name, policy : Policy, bytes : Content, task : TaskId \cup {NoTask}]
Idle == [pc |-> "idle", task |-> NoTask, old |-> NoDoc]
Work == [pc : {"list", "delete", "send"}, task : TaskId, old : DocId \cup {NoDoc}] \cup {Idle}

PartialFunction(f, S, T) == f \in [DOMAIN f -> T] /\ \A x \in DOMAIN f : x \in S

TypeOK ==
    /\ PartialFunction(dir, DocId, File) /\ born \in 0 .. MaxDocs
    /\ known \in BOOLEAN /\ PartialFunction(listing, DocId, Name) /\ loaded \in BOOLEAN
    /\ PartialFunction(uploads, TaskId, Upload) /\ nextTask \in 1 .. MaxTasks + 1
    /\ PartialFunction(writes, HandleId, PendingWrite) /\ nextHandle \in 1 .. MaxHandles + 1
    /\ work \in Work
    /\ stored \in SUBSET TaskId /\ emptied \in SUBSET TaskId /\ cancelled \in SUBSET TaskId
    /\ renamed \in BOOLEAN

Without(f, x) == Restrict(f, DOMAIN f \ {x})
With(f, x, y) == [z \in DOMAIN f \cup {x} |-> IF z = x THEN y ELSE f[z]]
NoFunction == [x \in {} |-> x]

-----------------------------------------------------------------------------
(* The drive. *)

Free(n) == \A d \in DOMAIN dir : dir[d].name # n
Listing == [d \in DOMAIN dir |-> dir[d].name]

\* Mutant: ondup = 3, a document with the name is no obstacle.
Accepts_Renames(n, content, by) ==
    /\ born < MaxDocs
    /\ born' = born + 1
    /\ dir' = With(dir, born + 1, [name |-> n, content |-> content, by |-> by])

\* The drive accepts a document: ondup = 1 refuses a name that is taken.
Accepts(n, content, by) ==
    /\ born < MaxDocs
    /\ Free(n)
    /\ born' = born + 1
    /\ dir' = With(dir, born + 1, [name |-> n, content |-> content, by |-> by])

Init ==
    /\ dir = NoFunction /\ born = 0
    /\ known = TRUE /\ listing = NoFunction /\ loaded = FALSE
    /\ uploads = NoFunction /\ nextTask = 1
    /\ writes = NoFunction /\ nextHandle = 1
    /\ work = Idle
    /\ stored = {} /\ emptied = {} /\ cancelled = {} /\ renamed = FALSE

OtherCreates(n, c) == Accepts(n, c, NoTask) /\ UNCHANGED renamed
OtherDeletes(d) == dir' = Without(dir, d) /\ UNCHANGED <<born, renamed>>
OtherRenames(d, n) ==
    /\ Free(n)
    /\ dir' = [dir EXCEPT ![d].name = n]
    /\ renamed' = (renamed \/ dir[d].by # NoTask)
    /\ UNCHANGED born

OtherClient ==
    /\ \/ \E n \in Name, c \in Content : OtherCreates(n, c)
       \/ \E d \in DOMAIN dir : OtherDeletes(d)
       \/ \E d \in DOMAIN dir, n \in Name : OtherRenames(d, n)
    /\ UNCHANGED <<index, queue, handles, work, stored, emptied, cancelled>>

\* The directory leaves the index, or is listed in it again, with the listing
\* of the directory above.
ParentForgotten ==
    /\ work = Idle
    /\ known' = FALSE /\ loaded' = FALSE /\ listing' = NoFunction
    /\ UNCHANGED <<drives, queue, handles, work, history>>

ParentListed ==
    /\ work = Idle
    /\ known' = TRUE /\ loaded' = FALSE /\ listing' = NoFunction
    /\ UNCHANGED <<drives, queue, handles, work, history>>

-----------------------------------------------------------------------------
(* Handles and tasks. *)

\* list() of the directory: the cached listing, or the one of the drive.
Lists(names) ==
    \/ loaded /\ names = listing /\ UNCHANGED <<listing, loaded>>
    \/ names = Listing /\ listing' = names /\ loaded' = TRUE

ListDirectory ==
    /\ work = Idle /\ known
    /\ \E names \in {listing, Listing} : Lists(names)
    /\ UNCHANGED <<drives, known, queue, handles, work, history>>

\* resolve_upload_name: the name that results from n.
Resolves(n, policy, final) ==
    /\ known
    /\ \E names \in {listing, Listing} :
        /\ Lists(names)
        /\ IF policy # "Overwrite" /\ n \in Range(names)
           THEN policy = "UseSuggestedName" /\ Free(final)
           ELSE final = n
    /\ UNCHANGED known

NewUpload(n, policy, content) ==
    [status |-> "pending", attempts |-> 0, name |-> n, policy |-> policy, content |-> content]

Enqueue(n, policy, content) ==
    /\ work = Idle /\ nextTask <= MaxTasks
    /\ \E final \in Name :
        /\ Resolves(n, policy, final)
        /\ uploads' = With(uploads, nextTask, NewUpload(final, policy, content))
    /\ nextTask' = nextTask + 1
    /\ UNCHANGED <<drives, handles, work, history>>

OpenTempWrite(n, policy) ==
    /\ work = Idle /\ nextHandle <= MaxHandles
    /\ \E final \in Name :
        /\ Resolves(n, policy, final)
        /\ writes' = With(writes, nextHandle,
              [name |-> final, policy |-> policy, bytes |-> Empty, task |-> NoTask])
    /\ nextHandle' = nextHandle + 1
    /\ UNCHANGED <<drives, queue, work, history>>

\* Mutant: a flushed handle can still be written to.
Write_AfterFlush(h, bytes) ==
    /\ work = Idle
    /\ writes' = [writes EXCEPT ![h].bytes = bytes]
    /\ UNCHANGED <<drives, index, queue, nextHandle, work, history>>

Write(h, bytes) ==
    /\ work = Idle
    /\ writes[h].task = NoTask
    /\ writes' = [writes EXCEPT ![h].bytes = bytes]
    /\ UNCHANGED <<drives, index, queue, nextHandle, work, history>>

\* flush of a handle not flushed before; close does so as well.
FlushTo(h, after) ==
    /\ writes[h].task = NoTask /\ nextTask <= MaxTasks
    /\ uploads' = With(uploads, nextTask,
          NewUpload(writes[h].name, writes[h].policy, writes[h].bytes))
    /\ nextTask' = nextTask + 1
    /\ writes' = after

Flush(h) ==
    /\ work = Idle
    /\ FlushTo(h, [writes EXCEPT ![h].task = nextTask])
    /\ UNCHANGED <<drives, index, nextHandle, work, history>>

\* Closing a flushed handle fails when its task has been cleaned up.
Close(h) ==
    /\ work = Idle
    /\ \/ FlushTo(h, Without(writes, h))
       \/ /\ writes[h].task \in DOMAIN uploads
          /\ writes' = Without(writes, h)
          /\ UNCHANGED queue
    /\ UNCHANGED <<drives, index, nextHandle, work, history>>

Discard(h) ==
    /\ work = Idle
    /\ writes[h].task = NoTask
    /\ writes' = Without(writes, h)
    /\ UNCHANGED <<drives, index, queue, nextHandle, work, history>>

SetStatus(t, s) == uploads' = [uploads EXCEPT ![t] = [uploads[t] EXCEPT !.status = s]]

RetryUpload(t) ==
    /\ work = Idle
    /\ uploads[t].status = "failed" /\ uploads[t].attempts < MaxAttempts
    /\ SetStatus(t, "pending")
    /\ UNCHANGED <<drives, index, nextTask, handles, work, history>>

CancelUpload(t) ==
    /\ work = Idle
    /\ uploads[t].status \in {"pending", "failed"}
    /\ SetStatus(t, "cancelled")
    /\ cancelled' = cancelled \cup {t}
    /\ UNCHANGED <<drives, index, nextTask, handles, work, stored, emptied, renamed>>

Finished(t) == uploads[t].status \in {"succeeded", "cancelled"}

CleanupTasks ==
    /\ work = Idle
    /\ uploads' = Restrict(uploads, {t \in DOMAIN uploads : ~Finished(t)})
    /\ UNCHANGED <<drives, index, nextTask, handles, work, history>>

-----------------------------------------------------------------------------
(* process_next_upload. *)

Ends(status) ==
    /\ SetStatus(work.task, status)
    /\ work' = Idle

Goes(pc, old) ==
    /\ work' = [work EXCEPT !.pc = pc, !.old = old]
    /\ UNCHANGED uploads

IsNext(t) ==
    /\ uploads[t].status = "pending"
    /\ \A u \in DOMAIN uploads : uploads[u].status = "pending" => t <= u

Start(t) ==
    /\ work = Idle /\ IsNext(t)
    /\ uploads' = [uploads EXCEPT
          ![t] = [uploads[t] EXCEPT !.status = IF known THEN "running" ELSE "failed",
                                     !.attempts = uploads[t].attempts + 1]]
    /\ work' = IF ~known THEN Idle
               ELSE [pc   |-> IF uploads[t].policy = "Overwrite" THEN "list" ELSE "send",
                     task |-> t, old |-> NoDoc]
    /\ UNCHANGED <<drives, index, nextTask, handles, history>>

\* Mutant: a request that failed counts as success.
RequestFails_Succeeds ==
    /\ work # Idle
    /\ Ends("succeeded")
    /\ UNCHANGED <<drives, index, nextTask, handles, history>>

\* A request is refused or fails before the drive acts on it.
RequestFails ==
    /\ work # Idle
    /\ Ends("failed")
    /\ UNCHANGED <<drives, index, nextTask, handles, history>>

\* apply_overwrite_conflict: refresh the listing and look for the name.
ListTarget ==
    /\ work.pc = "list"
    /\ listing' = Listing /\ loaded' = TRUE
    /\ IF Free(uploads[work.task].name)
       THEN Goes("send", NoDoc)
       ELSE \E d \in DOMAIN dir : dir[d].name = uploads[work.task].name /\ Goes("delete", d)
    /\ UNCHANGED <<drives, known, nextTask, handles, history>>

\* Delete what has the name, by its docid; the answer may be lost.
DeleteOld ==
    /\ work.pc = "delete" /\ work.old \in DOMAIN dir
    /\ dir' = Without(dir, work.old) /\ UNCHANGED born
    /\ emptied' = emptied \cup {work.task}
    /\ \/ /\ listing' = Without(listing, work.old) /\ loaded' = FALSE
          /\ Goes("send", NoDoc)
       \/ Ends("failed") /\ UNCHANGED <<listing, loaded>>
    /\ UNCHANGED <<known, nextTask, handles, stored, cancelled, renamed>>

\* upload_file, which refuses an empty file; the answer may be lost.
Send ==
    LET upload == uploads[work.task]
    IN  /\ work.pc = "send" /\ upload.content # Empty
        /\ Accepts(upload.name, upload.content, work.task)
        /\ stored' = stored \cup {work.task}
        /\ \/ Ends("succeeded") /\ loaded' = FALSE
           \/ Ends("failed") /\ UNCHANGED loaded
        /\ UNCHANGED <<known, listing, nextTask, handles, emptied, cancelled, renamed>>

Next ==
    \/ \E n \in Name, policy \in Policy, c \in Content : Enqueue(n, policy, c)
    \/ \E n \in Name, policy \in Policy : OpenTempWrite(n, policy)
    \/ \E h \in DOMAIN writes, c \in Content : Write(h, c)
    \/ \E h \in DOMAIN writes : Flush(h) \/ Close(h) \/ Discard(h)
    \/ \E t \in DOMAIN uploads : RetryUpload(t) \/ CancelUpload(t) \/ Start(t)
    \/ CleanupTasks \/ ListDirectory
    \/ RequestFails \/ ListTarget \/ DeleteOld \/ Send
    \/ ParentForgotten \/ ParentListed
    \/ OtherClient

Spec == Init /\ [][Next]_vars

-----------------------------------------------------------------------------
(* Properties. *)

\* Unless another client renames it, a task leaves at most one file, however
\* often it is retried after answers that were lost: the drive is asked not to
\* rename on conflict, and an overwriting task first removes what it left before.
AtMostOneCopy ==
    ~renamed =>
        \A d, e \in DOMAIN dir :
            dir[d].by = dir[e].by /\ dir[d].by # NoTask => d = e

\* A task that deleted a document to replace it is not dropped before its own
\* file was there, unless it is cancelled: it can still be retried.
ReplacedOrRetryable ==
    \A t \in emptied :
        \/ t \in stored \cup cancelled
        \/ t \in DOMAIN uploads /\ uploads[t].status \in {"pending", "running", "failed"}

\* A file that is to replace another gets there, or can be tried again, and is
\* there once.
ReplacedOnce == ReplacedOrRetryable /\ AtMostOneCopy

\* What a task uploads is what its handle held when it was flushed: the handle
\* takes no more bytes.
BufferIsQueued ==
    \A h \in DOMAIN writes :
        writes[h].task \in DOMAIN uploads =>
            writes[h].bytes = uploads[writes[h].task].content

\* The queue keeps the promise of UploadPromise.
StatusOf(t) ==
    IF t \in DOMAIN uploads THEN uploads[t].status
    ELSE IF t < nextTask THEN "removed" ELSE "none"

TaskStatus == [t \in TaskId |-> StatusOf(t)]

Promise == INSTANCE UploadPromise WITH Task <- TaskId, status <- TaskStatus

PromiseKept == Promise!Spec
=============================================================================
