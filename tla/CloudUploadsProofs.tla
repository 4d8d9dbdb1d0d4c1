------------------------- MODULE CloudUploadsProofs -------------------------
(***************************************************************************)
(* Proofs about CloudUploads for any number of names, contents, tasks,     *)
(* handles and documents: what the queue still owes the drive is not       *)
(* dropped, a handle's bytes are those of its task, and the queue          *)
(* implements UploadPromise, other clients and lost answers notwithstanding. *)
(***************************************************************************)
EXTENDS CloudUploads, TLAPS

\* Exactly the upload that is being worked on is running, an upload that waits
\* has attempts left, and ids are below the counter that gives them out.
QueueOK(q, next, w) ==
    /\ PartialFunction(q, TaskId, Upload)
    /\ next \in 1 .. MaxTasks + 1
    /\ w \in Work
    /\ \A t \in DOMAIN q : t < next
    /\ \A t \in DOMAIN q : q[t].status = "pending" => q[t].attempts < MaxAttempts
    /\ \A t \in DOMAIN q : q[t].status = "running" => w # Idle /\ w.task = t
    /\ w # Idle => w.task \in DOMAIN q /\ q[w.task].status = "running"

\* History agrees with the statuses.
HistoryOK(q, next, s, e, c) ==
    /\ s \in SUBSET TaskId /\ e \in SUBSET TaskId /\ c \in SUBSET TaskId
    /\ \A t \in s \cup e \cup c : t < next
    /\ \A t \in DOMAIN q : q[t].status = "succeeded" => t \in s
    /\ \A t \in DOMAIN q : q[t].status = "cancelled" => t \in c
    /\ \A t \in e \ (s \cup c) : t \in DOMAIN q

HandlesOK(ws, nh, q, next) ==
    /\ PartialFunction(ws, HandleId, PendingWrite)
    /\ nh \in 1 .. MaxHandles + 1
    /\ \A h \in DOMAIN ws : ws[h].task < next
    /\ \A h \in DOMAIN ws : ws[h].task \in DOMAIN q => ws[h].bytes = q[ws[h].task].content

DriveOK(ds, b) == PartialFunction(ds, DocId, File) /\ b \in 0 .. MaxDocs
IndexOK(k, ls, l) == k \in BOOLEAN /\ PartialFunction(ls, DocId, Name) /\ l \in BOOLEAN

Inductive ==
    /\ DriveOK(dir, born)
    /\ IndexOK(known, listing, loaded)
    /\ QueueOK(uploads, nextTask, work)
    /\ HistoryOK(uploads, nextTask, stored, emptied, cancelled)
    /\ HandlesOK(writes, nextHandle, uploads, nextTask)

-----------------------------------------------------------------------------
(* Partial functions. *)

LEMMA WithType ==
    ASSUME NEW S, NEW T, NEW f, PartialFunction(f, S, T), NEW x \in S, NEW y \in T
    PROVE  /\ PartialFunction(With(f, x, y), S, T)
           /\ DOMAIN With(f, x, y) = DOMAIN f \cup {x}
           /\ With(f, x, y)[x] = y
           /\ \A z \in DOMAIN f : z # x => With(f, x, y)[z] = f[z]
BY DEF PartialFunction, With

LEMMA RestrictType ==
    ASSUME NEW S, NEW T, NEW f, PartialFunction(f, S, T), NEW R \in SUBSET DOMAIN f
    PROVE  /\ PartialFunction(Restrict(f, R), S, T)
           /\ DOMAIN Restrict(f, R) = R
           /\ \A z \in R : Restrict(f, R)[z] = f[z]
BY DEF PartialFunction, Restrict

LEMMA WithoutType ==
    ASSUME NEW S, NEW T, NEW f, PartialFunction(f, S, T), NEW x
    PROVE  /\ PartialFunction(Without(f, x), S, T)
           /\ DOMAIN Without(f, x) = DOMAIN f \ {x}
           /\ \A z \in DOMAIN f \ {x} : Without(f, x)[z] = f[z]
<1>1. DOMAIN f \ {x} \in SUBSET DOMAIN f
    OBVIOUS
<1> QED
    BY <1>1, RestrictType DEF Without

LEMMA UpdateType ==
    ASSUME NEW S, NEW T, NEW f, PartialFunction(f, S, T), NEW x \in DOMAIN f, NEW y \in T
    PROVE  /\ PartialFunction([f EXCEPT ![x] = y], S, T)
           /\ DOMAIN [f EXCEPT ![x] = y] = DOMAIN f
           /\ [f EXCEPT ![x] = y][x] = y
           /\ \A z \in DOMAIN f : z # x => [f EXCEPT ![x] = y][z] = f[z]
BY DEF PartialFunction

-----------------------------------------------------------------------------
(* What a step may do to the queue. *)

\* One task gets another status.
StatusChange(q, p, t, u) ==
    /\ t \in DOMAIN q
    /\ u \in Upload
    /\ u.content = q[t].content /\ u.name = q[t].name
    /\ p = [q EXCEPT ![t] = u]

LEMMA StatusChangeEffect ==
    ASSUME NEW q, PartialFunction(q, TaskId, Upload), NEW p, NEW t, NEW u, StatusChange(q, p, t, u)
    PROVE  /\ PartialFunction(p, TaskId, Upload)
           /\ DOMAIN p = DOMAIN q
           /\ p[t] = u
           /\ \A z \in DOMAIN q : z # t => p[z] = q[z]
           /\ \A z \in DOMAIN q : p[z].content = q[z].content /\ p[z].name = q[z].name
BY UpdateType DEF StatusChange

LEMMA HandlesAfterStatusChange ==
    ASSUME Inductive, NEW t, NEW u, StatusChange(uploads, uploads', t, u), UNCHANGED <<nextTask, handles>>
    PROVE  HandlesOK(writes, nextHandle, uploads, nextTask)'
<1>1. PartialFunction(uploads, TaskId, Upload)
    BY DEF Inductive, QueueOK
<1>2. DOMAIN uploads' = DOMAIN uploads /\ \A z \in DOMAIN uploads : uploads'[z].content = uploads[z].content
    BY <1>1, StatusChangeEffect
<1> QED
    BY <1>2 DEF Inductive, HandlesOK, handles

-----------------------------------------------------------------------------
(* Steps. *)

LEMMA NoFunctionType ==
    ASSUME NEW S, NEW T
    PROVE  PartialFunction(NoFunction, S, T) /\ DOMAIN NoFunction = {}
BY DEF NoFunction, PartialFunction

LEMMA Initially == Init => Inductive
<1> SUFFICES ASSUME Init PROVE Inductive
    OBVIOUS
<1>1. 0 \in 0 .. MaxDocs /\ 1 \in 1 .. MaxTasks + 1 /\ 1 \in 1 .. MaxHandles + 1
    BY UploadAssumption
<1>2. DriveOK(dir, born) /\ IndexOK(known, listing, loaded)
    BY <1>1, NoFunctionType DEF Init, DriveOK, IndexOK
<1>3. QueueOK(uploads, nextTask, work)
    BY <1>1, NoFunctionType DEF Init, QueueOK, Work
<1>4. HistoryOK(uploads, nextTask, stored, emptied, cancelled)
    BY NoFunctionType DEF Init, HistoryOK
<1>5. HandlesOK(writes, nextHandle, uploads, nextTask)
    BY <1>1, NoFunctionType DEF Init, HandlesOK
<1> QED
    BY <1>2, <1>3, <1>4, <1>5 DEF Inductive

LEMMA ListsType ==
    ASSUME Inductive, NEW names \in {listing, Listing}, Lists(names)
    PROVE  PartialFunction(listing, DocId, Name)' /\ loaded' \in BOOLEAN
<1>1. PartialFunction(Listing, DocId, Name)
    BY DEF Inductive, DriveOK, PartialFunction, Listing, File
<1> QED
    BY <1>1 DEF Inductive, IndexOK, Lists

LEMMA ResolvesType ==
    ASSUME Inductive, NEW n \in Name, NEW policy, NEW final \in Name, Resolves(n, policy, final)
    PROVE  IndexOK(known, listing, loaded)'
BY ListsType DEF Resolves, Inductive, IndexOK

\* A task is queued.
LEMMA QueuedTask ==
    ASSUME Inductive, NEW upload \in Upload, nextTask <= MaxTasks,
           upload.status = "pending", upload.attempts = 0,
           uploads' = With(uploads, nextTask, upload), nextTask' = nextTask + 1,
           UNCHANGED <<work, history>>
    PROVE  /\ QueueOK(uploads, nextTask, work)'
           /\ HistoryOK(uploads, nextTask, stored, emptied, cancelled)'
           /\ \A h \in DOMAIN writes : writes[h].task < nextTask
           /\ nextTask \in TaskId
           /\ nextTask \notin DOMAIN uploads
           /\ DOMAIN uploads' = DOMAIN uploads \cup {nextTask}
           /\ uploads'[nextTask] = upload
           /\ \A t \in DOMAIN uploads : uploads'[t] = uploads[t]
<1>1. nextTask \in TaskId /\ nextTask' \in 1 .. MaxTasks + 1 /\ MaxAttempts \in Nat \ {0}
    BY UploadAssumption DEF Inductive, QueueOK, TaskId
<1>2. /\ PartialFunction(uploads, TaskId, Upload)
      /\ nextTask \notin DOMAIN uploads
    BY <1>1 DEF Inductive, QueueOK, TaskId
<1>3. /\ PartialFunction(uploads', TaskId, Upload)
      /\ DOMAIN uploads' = DOMAIN uploads \cup {nextTask}
      /\ uploads'[nextTask] = upload
      /\ \A t \in DOMAIN uploads : uploads'[t] = uploads[t]
    <2> DEFINE q == With(uploads, nextTask, upload)
    <2>1. /\ PartialFunction(q, TaskId, Upload)
          /\ DOMAIN q = DOMAIN uploads \cup {nextTask}
          /\ q[nextTask] = upload
          /\ \A z \in DOMAIN uploads : z # nextTask => q[z] = uploads[z]
        BY <1>1, <1>2 DEF PartialFunction, With
    <2> HIDE DEF q
    <2>2. uploads' = q
        BY DEF q
    <2> QED
        BY <1>2, <2>1, <2>2
<1>7. nextTask < nextTask' /\ \A t \in TaskId : t < nextTask => t < nextTask'
    BY <1>1 DEF TaskId
<1>4. QueueOK(uploads, nextTask, work)'
    <2>1. \A t \in DOMAIN uploads' : t < nextTask'
        <3>1. \A t \in DOMAIN uploads : t \in TaskId /\ t < nextTask
            BY DEF Inductive, QueueOK, PartialFunction
        <3> QED
            BY <1>3, <1>7, <3>1
    <2>2. \A t \in DOMAIN uploads' : uploads'[t].status = "pending" => uploads'[t].attempts < MaxAttempts
        BY <1>1, <1>3 DEF Inductive, QueueOK
    <2>3. \A t \in DOMAIN uploads' : uploads'[t].status = "running" => work # Idle /\ work.task = t
        BY <1>3 DEF Inductive, QueueOK
    <2>4. work # Idle => work.task \in DOMAIN uploads' /\ uploads'[work.task].status = "running"
        BY <1>3 DEF Inductive, QueueOK
    <2>5. work' = work /\ work \in Work
        BY DEF Inductive, QueueOK
    <2> QED
        BY <1>1, <1>3, <2>1, <2>2, <2>3, <2>4, <2>5 DEF QueueOK
<1>5. HistoryOK(uploads, nextTask, stored, emptied, cancelled)'
    <2>1. UNCHANGED <<stored, emptied, cancelled>>
        BY DEF history
    <2>2. \A t \in stored \cup emptied \cup cancelled : t < nextTask'
        <3>1. \A t \in stored \cup emptied \cup cancelled : t \in TaskId /\ t < nextTask
            BY DEF Inductive, HistoryOK
        <3> QED
            BY <1>7, <3>1
    <2>3. \A t \in DOMAIN uploads' :
              /\ uploads'[t].status = "succeeded" => t \in stored
              /\ uploads'[t].status = "cancelled" => t \in cancelled
        BY <1>3 DEF Inductive, HistoryOK
    <2> QED
        BY <1>3, <2>1, <2>2, <2>3 DEF Inductive, HistoryOK
<1>6. \A h \in DOMAIN writes : writes[h].task < nextTask
    BY DEF Inductive, HandlesOK
<1> QED
    BY <1>1, <1>2, <1>3, <1>4, <1>5, <1>6

LEMMA EnqueueStep ==
    ASSUME Inductive, NEW n \in Name, NEW policy \in Policy, NEW c \in Content, Enqueue(n, policy, c)
    PROVE  Inductive'
<1>1. PICK final \in Name :
          /\ Resolves(n, policy, final)
          /\ uploads' = With(uploads, nextTask, NewUpload(final, policy, c))
    BY DEF Enqueue
<1>2. IndexOK(known, listing, loaded)'
    BY <1>1, ResolvesType
<1> DEFINE upload == NewUpload(final, policy, c)
<1>3. upload \in Upload /\ upload.status = "pending" /\ upload.attempts = 0
    BY UploadAssumption DEF NewUpload, Upload
<1> HIDE DEF upload
<1>4. nextTask <= MaxTasks /\ nextTask' = nextTask + 1 /\ UNCHANGED <<drives, handles, work, history>>
    BY DEF Enqueue
<1>5. uploads' = With(uploads, nextTask, upload)
    BY <1>1 DEF upload
<1>6. /\ QueueOK(uploads, nextTask, work)'
      /\ HistoryOK(uploads, nextTask, stored, emptied, cancelled)'
      /\ \A h \in DOMAIN writes : writes[h].task < nextTask
      /\ nextTask \in TaskId
      /\ DOMAIN uploads' = DOMAIN uploads \cup {nextTask}
      /\ \A t \in DOMAIN uploads : uploads'[t] = uploads[t]
    BY <1>3, <1>4, <1>5, QueuedTask
<1>7. HandlesOK(writes, nextHandle, uploads, nextTask)'
    <2>1. UNCHANGED <<writes, nextHandle>>
        BY <1>4 DEF handles
    <2>2. \A h \in DOMAIN writes : writes[h].task \in TaskId \cup {NoTask}
        BY DEF Inductive, HandlesOK, PartialFunction, PendingWrite
    <2>3. \A h \in DOMAIN writes : writes[h].task < nextTask'
        BY <1>4, <1>6, <2>2 DEF TaskId, NoTask
    <2>4. \A h \in DOMAIN writes :
              writes[h].task \in DOMAIN uploads' => writes[h].bytes = uploads'[writes[h].task].content
        BY <1>6, <2>2 DEF Inductive, HandlesOK, TaskId
    <2> QED
        BY <2>1, <2>3, <2>4 DEF Inductive, HandlesOK
<1> QED
    BY <1>2, <1>4, <1>6, <1>7 DEF Inductive, DriveOK, drives

\* A task of the queue gets another status, and is the one worked on or not.
LEMMA ChangedTask ==
    ASSUME Inductive, NEW t, NEW u, StatusChange(uploads, uploads', t, u),
           UNCHANGED nextTask, work' \in Work,
           u.status = "pending" => u.attempts < MaxAttempts,
           u.status = "running" => work' # Idle,
           work' # Idle => u.status = "running" /\ work'.task = t,
           work # Idle => work.task = t
    PROVE  QueueOK(uploads, nextTask, work)'
<1>1. PartialFunction(uploads, TaskId, Upload) /\ t \in DOMAIN uploads
    BY DEF Inductive, QueueOK, StatusChange
<1>2. /\ PartialFunction(uploads', TaskId, Upload)
      /\ DOMAIN uploads' = DOMAIN uploads
      /\ uploads'[t] = u
      /\ \A z \in DOMAIN uploads : z # t => uploads'[z] = uploads[z]
    BY <1>1, StatusChangeEffect
<1>3. \A z \in DOMAIN uploads' : z < nextTask'
    BY <1>2 DEF Inductive, QueueOK
<1>4. \A z \in DOMAIN uploads' : uploads'[z].status = "pending" => uploads'[z].attempts < MaxAttempts
    BY <1>2 DEF Inductive, QueueOK
<1>5. \A z \in DOMAIN uploads' : uploads'[z].status = "running" => work' # Idle /\ work'.task = z
    BY <1>2 DEF Inductive, QueueOK
<1>6. work' # Idle => work'.task \in DOMAIN uploads' /\ uploads'[work'.task].status = "running"
    BY <1>1, <1>2
<1>7. nextTask' \in 1 .. MaxTasks + 1
    BY DEF Inductive, QueueOK
<1> QED
    BY <1>2, <1>3, <1>4, <1>5, <1>6, <1>7 DEF QueueOK

LEMMA ChangedHistory ==
    ASSUME Inductive, NEW t, NEW u, StatusChange(uploads, uploads', t, u),
           UNCHANGED nextTask,
           stored' \in {stored, stored \cup {t}},
           emptied' \in {emptied, emptied \cup {t}},
           cancelled' \in {cancelled, cancelled \cup {t}},
           u.status = "succeeded" => t \in stored',
           u.status = "cancelled" => t \in cancelled'
    PROVE  HistoryOK(uploads, nextTask, stored, emptied, cancelled)'
<1>1. /\ PartialFunction(uploads, TaskId, Upload) /\ t \in DOMAIN uploads
      /\ t \in TaskId /\ t < nextTask
    BY DEF Inductive, QueueOK, StatusChange, PartialFunction
<1>2. /\ DOMAIN uploads' = DOMAIN uploads
      /\ uploads'[t] = u
      /\ \A z \in DOMAIN uploads : z # t => uploads'[z] = uploads[z]
    BY <1>1, StatusChangeEffect
<1>3. /\ stored' \in SUBSET TaskId /\ emptied' \in SUBSET TaskId /\ cancelled' \in SUBSET TaskId
      /\ \A z \in stored' \cup emptied' \cup cancelled' : z < nextTask'
    BY <1>1 DEF Inductive, HistoryOK
<1>4. \A z \in DOMAIN uploads' : uploads'[z].status = "succeeded" => z \in stored'
    BY <1>2 DEF Inductive, HistoryOK
<1>5. \A z \in DOMAIN uploads' : uploads'[z].status = "cancelled" => z \in cancelled'
    BY <1>2 DEF Inductive, HistoryOK
<1>6. \A z \in emptied' \ (stored' \cup cancelled') : z \in DOMAIN uploads'
    BY <1>1, <1>2 DEF Inductive, HistoryOK
<1> QED
    BY <1>3, <1>4, <1>5, <1>6 DEF HistoryOK

\* The same upload with another status.
LEMMA SetStatusChange ==
    ASSUME Inductive, NEW t \in DOMAIN uploads,
           NEW s \in {"pending", "running", "succeeded", "failed", "cancelled"}, SetStatus(t, s)
    PROVE  \E u : /\ StatusChange(uploads, uploads', t, u)
                  /\ u.status = s /\ u.attempts = uploads[t].attempts
<1>1. uploads[t] \in Upload
    BY DEF Inductive, QueueOK, PartialFunction
<1> DEFINE u == [uploads[t] EXCEPT !.status = s]
<1>2. /\ u \in Upload /\ u.content = uploads[t].content /\ u.name = uploads[t].name
      /\ u.status = s /\ u.attempts = uploads[t].attempts
    BY <1>1 DEF Upload
<1> HIDE DEF u
<1>3. uploads' = [uploads EXCEPT ![t] = u]
    BY DEF SetStatus, u
<1>4. StatusChange(uploads, uploads', t, u)
    BY <1>2, <1>3 DEF StatusChange
<1> QED
    BY <1>2, <1>4

LEMMA RetryStep ==
    ASSUME Inductive, NEW t \in DOMAIN uploads, RetryUpload(t)
    PROVE  Inductive'
<1>1. PICK u : /\ StatusChange(uploads, uploads', t, u)
               /\ u.status = "pending" /\ u.attempts = uploads[t].attempts
    BY SetStatusChange DEF RetryUpload
<1>2. /\ work = Idle /\ uploads[t].attempts < MaxAttempts
      /\ UNCHANGED <<drives, index, nextTask, handles, work, history>>
    BY DEF RetryUpload
<1>3. QueueOK(uploads, nextTask, work)'
    <2>1. Idle \in Work
        BY DEF Work
    <2> QED
        BY <1>1, <1>2, <2>1, ChangedTask
<1>4. HistoryOK(uploads, nextTask, stored, emptied, cancelled)'
    BY <1>1, <1>2, ChangedHistory DEF history
<1>5. HandlesOK(writes, nextHandle, uploads, nextTask)'
    BY <1>1, <1>2, HandlesAfterStatusChange
<1> QED
    BY <1>2, <1>3, <1>4, <1>5 DEF Inductive, drives, index

LEMMA CancelStep ==
    ASSUME Inductive, NEW t \in DOMAIN uploads, CancelUpload(t)
    PROVE  Inductive'
<1>1. PICK u : StatusChange(uploads, uploads', t, u) /\ u.status = "cancelled"
    BY SetStatusChange DEF CancelUpload
<1>2. /\ work = Idle /\ cancelled' = cancelled \cup {t}
      /\ UNCHANGED <<drives, index, nextTask, handles, work, stored, emptied>>
    BY DEF CancelUpload
<1>3. QueueOK(uploads, nextTask, work)'
    <2>1. Idle \in Work
        BY DEF Work
    <2> QED
        BY <1>1, <1>2, <2>1, ChangedTask
<1>4. HistoryOK(uploads, nextTask, stored, emptied, cancelled)'
    BY <1>1, <1>2, ChangedHistory
<1>5. HandlesOK(writes, nextHandle, uploads, nextTask)'
    BY <1>1, <1>2, HandlesAfterStatusChange
<1> QED
    BY <1>2, <1>3, <1>4, <1>5 DEF Inductive, drives, index

\* The end of an upload, whatever else its last request changed.
LEMMA EndStep ==
    ASSUME Inductive, work # Idle, NEW s \in {"succeeded", "failed"}, Ends(s),
           UNCHANGED <<nextTask, handles, cancelled>>,
           stored' \in {stored, stored \cup {work.task}},
           emptied' \in {emptied, emptied \cup {work.task}},
           s = "succeeded" => work.task \in stored',
           DriveOK(dir', born'), IndexOK(known', listing', loaded')
    PROVE  Inductive'
<1>1. work.task \in DOMAIN uploads
    BY DEF Inductive, QueueOK
<1>2. PICK u : StatusChange(uploads, uploads', work.task, u) /\ u.status = s
    BY <1>1, SetStatusChange DEF Ends
<1>3. work' = Idle /\ Idle \in Work
    BY DEF Ends, Work
<1>4. QueueOK(uploads, nextTask, work)'
    BY <1>2, <1>3, ChangedTask
<1>5. HistoryOK(uploads, nextTask, stored, emptied, cancelled)'
    BY <1>2, ChangedHistory
<1>6. HandlesOK(writes, nextHandle, uploads, nextTask)'
    BY <1>2, HandlesAfterStatusChange
<1> QED
    BY <1>4, <1>5, <1>6 DEF Inductive

LEMMA StartStep ==
    ASSUME Inductive, NEW t \in DOMAIN uploads, Start(t)
    PROVE  Inductive'
<1> DEFINE u == [uploads[t] EXCEPT !.status = IF known THEN "running" ELSE "failed",
                                   !.attempts = uploads[t].attempts + 1]
<1>1. /\ uploads[t] \in Upload /\ uploads[t].attempts < MaxAttempts
      /\ work = Idle /\ known \in BOOLEAN
    BY DEF Inductive, QueueOK, PartialFunction, IndexOK, Start, IsNext
<1>2. uploads[t].attempts + 1 \in 0 .. MaxAttempts
    BY <1>1, UploadAssumption DEF Upload
<1>3. /\ u \in Upload /\ u.content = uploads[t].content /\ u.name = uploads[t].name
      /\ u.status = IF known THEN "running" ELSE "failed"
    BY <1>1, <1>2 DEF Upload
<1>4. uploads' = [uploads EXCEPT ![t] = u]
    BY DEF Start
<1> HIDE DEF u
<1>5. StatusChange(uploads, uploads', t, u)
    BY <1>3, <1>4 DEF StatusChange
<1>6. UNCHANGED <<drives, index, nextTask, handles, history>>
    BY DEF Start
<1>7. /\ work' \in Work
      /\ work' # Idle => known /\ work'.task = t
      /\ known => work' # Idle
    <2>1. t \in TaskId
        BY DEF Inductive, QueueOK, PartialFunction
    <2>2. CASE known
        BY <1>1, <2>1, <2>2 DEF Start, Work, Idle
    <2>3. CASE ~known
        BY <1>1, <2>3 DEF Start, Work
    <2> QED
        BY <1>1, <2>2, <2>3
<1>8. QueueOK(uploads, nextTask, work)'
    <2>1. u.status # "pending"
        BY <1>3
    <2>2. u.status = "running" => work' # Idle
        BY <1>3, <1>7
    <2>3. work' # Idle => u.status = "running" /\ work'.task = t
        BY <1>3, <1>7
    <2> QED
        BY <1>1, <1>5, <1>6, <1>7, <2>1, <2>2, <2>3, ChangedTask
<1>9. HistoryOK(uploads, nextTask, stored, emptied, cancelled)'
    <2>1. u.status \in {"running", "failed"} /\ UNCHANGED <<nextTask, stored, emptied, cancelled>>
        BY <1>1, <1>3, <1>6 DEF history
    <2> QED
        BY <1>5, <2>1, ChangedHistory
<1>10. HandlesOK(writes, nextHandle, uploads, nextTask)'
    BY <1>5, <1>6, HandlesAfterStatusChange
<1> QED
    BY <1>6, <1>8, <1>9, <1>10 DEF Inductive, drives, index

LEMMA RequestFailsStep ==
    ASSUME Inductive, RequestFails
    PROVE  Inductive'
<1>1. /\ work # Idle /\ Ends("failed")
      /\ UNCHANGED <<drives, index, nextTask, handles, history>>
    BY DEF RequestFails
<1>2. DriveOK(dir', born') /\ IndexOK(known', listing', loaded')
    BY <1>1 DEF drives, index, Inductive
<1>3. UNCHANGED <<nextTask, handles, cancelled, stored, emptied>>
    BY <1>1 DEF history
<1> QED
    BY <1>1, <1>2, <1>3, EndStep

\* The next request of the same upload.
LEMMA GoesOn ==
    ASSUME Inductive, work # Idle, NEW pc \in {"delete", "send"}, NEW old \in DocId \cup {NoDoc},
           Goes(pc, old), UNCHANGED <<nextTask, handles, stored, cancelled>>,
           emptied' \in {emptied, emptied \cup {work.task}},
           DriveOK(dir', born'), IndexOK(known', listing', loaded')
    PROVE  Inductive'
<1>1. /\ work \in Work /\ work.task \in TaskId /\ work.task < nextTask
      /\ work.task \in DOMAIN uploads
    BY DEF Inductive, QueueOK, PartialFunction
<1>2. work' = [pc |-> pc, task |-> work.task, old |-> old] /\ uploads' = uploads
    BY <1>1 DEF Goes, Work
<1>3. work' \in Work /\ work' # Idle /\ work'.task = work.task
    BY <1>1, <1>2 DEF Work, Idle
<1>4. QueueOK(uploads, nextTask, work)'
    BY <1>2, <1>3 DEF Inductive, QueueOK
<1>5. HistoryOK(uploads, nextTask, stored, emptied, cancelled)'
    <2>1. emptied' \in SUBSET TaskId /\ \A t \in emptied' : t < nextTask
        BY <1>1 DEF Inductive, HistoryOK
    <2> QED
        BY <1>1, <1>2, <2>1 DEF Inductive, HistoryOK
<1>6. HandlesOK(writes, nextHandle, uploads, nextTask)'
    BY <1>2 DEF Inductive, HandlesOK, handles
<1> QED
    BY <1>4, <1>5, <1>6 DEF Inductive

LEMMA ListTargetStep ==
    ASSUME Inductive, ListTarget
    PROVE  Inductive'
<1>1. /\ work.pc = "list" /\ listing' = Listing /\ loaded' = TRUE
      /\ UNCHANGED <<drives, known, nextTask, handles, history>>
    BY DEF ListTarget
<1>2. work # Idle
    BY <1>1 DEF Idle
<1>3. DriveOK(dir', born') /\ IndexOK(known', listing', loaded')
    <2>1. PartialFunction(Listing, DocId, Name)
        BY DEF Inductive, DriveOK, PartialFunction, Listing, File
    <2> QED
        BY <1>1, <2>1 DEF drives, Inductive, IndexOK
<1>4. UNCHANGED <<nextTask, handles, stored, cancelled, emptied>>
    BY <1>1 DEF history
<1>5. \A d \in DOMAIN dir : d \in DocId
    BY DEF Inductive, DriveOK, PartialFunction
<1>6. Goes("send", NoDoc) \/ \E d \in DOMAIN dir : Goes("delete", d)
    BY DEF ListTarget
<1> QED
    BY <1>2, <1>3, <1>4, <1>5, <1>6, GoesOn

LEMMA DeleteOldStep ==
    ASSUME Inductive, DeleteOld
    PROVE  Inductive'
<1>1. /\ work.pc = "delete" /\ dir' = Without(dir, work.old) /\ UNCHANGED born
      /\ emptied' = emptied \cup {work.task}
      /\ UNCHANGED <<known, nextTask, handles, stored, cancelled>>
    BY DEF DeleteOld
<1>2. work # Idle
    BY <1>1 DEF Idle
<1>3. DriveOK(dir', born')
    BY <1>1, WithoutType DEF Inductive, DriveOK
<1>4. CASE listing' = Without(listing, work.old) /\ loaded' = FALSE /\ Goes("send", NoDoc)
    <2>1. IndexOK(known', listing', loaded')
        BY <1>1, <1>4, WithoutType DEF Inductive, IndexOK
    <2> QED
        BY <1>1, <1>2, <1>3, <1>4, <2>1, GoesOn
<1>5. CASE Ends("failed") /\ UNCHANGED <<listing, loaded>>
    <2>1. IndexOK(known', listing', loaded')
        BY <1>1, <1>5 DEF Inductive, IndexOK
    <2> QED
        BY <1>1, <1>2, <1>3, <1>5, <2>1, EndStep
<1> QED
    BY <1>4, <1>5 DEF DeleteOld

LEMMA AcceptsType ==
    ASSUME DriveOK(dir, born), NEW n \in Name, NEW c \in Content,
           NEW by \in TaskId \cup {NoTask}, Accepts(n, c, by)
    PROVE  DriveOK(dir', born')
<1> DEFINE f == [name |-> n, content |-> c, by |-> by]
<1>1. f \in File
    BY DEF File
<1>2. born + 1 \in DocId /\ born + 1 \in 0 .. MaxDocs
    BY UploadAssumption DEF Accepts, DriveOK, DocId
<1>3. born' = born + 1 /\ dir' = With(dir, born + 1, f)
    BY DEF Accepts
<1> HIDE DEF f
<1>4. PartialFunction(dir, DocId, File)
    BY DEF DriveOK
<1>5. PartialFunction(With(dir, born + 1, f), DocId, File)
    BY <1>1, <1>2, <1>4 DEF PartialFunction, With
<1> QED
    BY <1>2, <1>3, <1>5 DEF DriveOK

LEMMA SendStep ==
    ASSUME Inductive, Send
    PROVE  Inductive'
<1> DEFINE upload == uploads[work.task]
<1>1. /\ work.pc = "send" /\ Accepts(upload.name, upload.content, work.task)
      /\ stored' = stored \cup {work.task}
      /\ UNCHANGED <<known, listing, nextTask, handles, emptied, cancelled>>
    BY DEF Send
<1>2. work # Idle
    BY <1>1 DEF Idle
<1>3. upload \in Upload /\ work.task \in TaskId
    BY <1>2 DEF Inductive, QueueOK, PartialFunction
<1>4. upload.name \in Name /\ upload.content \in Content
    BY <1>3 DEF Upload
<1> HIDE DEF upload
<1>5. DriveOK(dir', born')
    BY <1>1, <1>3, <1>4, AcceptsType DEF Inductive
<1>6. PICK s \in {"succeeded", "failed"} : Ends(s) /\ loaded' \in {FALSE, loaded}
    BY DEF Send
<1>7. IndexOK(known', listing', loaded')
    BY <1>1, <1>6 DEF Inductive, IndexOK
<1> QED
    BY <1>1, <1>2, <1>5, <1>6, <1>7, EndStep

LEMMA OpenStep ==
    ASSUME Inductive, NEW n \in Name, NEW policy \in Policy, OpenTempWrite(n, policy)
    PROVE  Inductive'
<1>1. PICK final \in Name :
          /\ Resolves(n, policy, final)
          /\ writes' = With(writes, nextHandle,
                [name |-> final, policy |-> policy, bytes |-> Empty, task |-> NoTask])
    BY DEF OpenTempWrite
<1> DEFINE w == [name |-> final, policy |-> policy, bytes |-> Empty, task |-> NoTask]
<1>2. w \in PendingWrite /\ w.task = NoTask
    BY UploadAssumption DEF PendingWrite
<1> HIDE DEF w
<1>3. /\ nextHandle <= MaxHandles /\ nextHandle' = nextHandle + 1
      /\ UNCHANGED <<drives, queue, work, history>>
    BY DEF OpenTempWrite
<1>4. nextHandle \in HandleId /\ nextHandle' \in 1 .. MaxHandles + 1
    BY <1>3, UploadAssumption DEF Inductive, HandlesOK, HandleId
<1>5. writes' = With(writes, nextHandle, w)
    BY <1>1 DEF w
<1>6. PartialFunction(writes, HandleId, PendingWrite)
    BY DEF Inductive, HandlesOK
<1>7. /\ PartialFunction(writes', HandleId, PendingWrite)
      /\ DOMAIN writes' = DOMAIN writes \cup {nextHandle}
      /\ writes'[nextHandle] = w
      /\ \A h \in DOMAIN writes : h # nextHandle => writes'[h] = writes[h]
    BY <1>2, <1>4, <1>5, <1>6 DEF PartialFunction, With
<1>8. NoTask < nextTask /\ NoTask \notin DOMAIN uploads
    BY UploadAssumption DEF Inductive, QueueOK, PartialFunction, NoTask, TaskId
<1>9. HandlesOK(writes, nextHandle, uploads, nextTask)'
    <2>1. \A h \in DOMAIN writes' : writes'[h].task < nextTask
        BY <1>2, <1>7, <1>8 DEF Inductive, HandlesOK
    <2>2. \A h \in DOMAIN writes' :
              writes'[h].task \in DOMAIN uploads => writes'[h].bytes = uploads[writes'[h].task].content
        BY <1>2, <1>7, <1>8 DEF Inductive, HandlesOK
    <2> QED
        BY <1>3, <1>4, <1>7, <2>1, <2>2 DEF HandlesOK, queue
<1>10. IndexOK(known, listing, loaded)'
    BY <1>1, ResolvesType
<1> QED
    BY <1>3, <1>9, <1>10 DEF Inductive, drives, queue, history

LEMMA WriteStep ==
    ASSUME Inductive, NEW h \in DOMAIN writes, NEW c \in Content, Write(h, c)
    PROVE  Inductive'
<1> DEFINE w == [writes[h] EXCEPT !.bytes = c]
<1>1. writes[h] \in PendingWrite /\ writes[h].task = NoTask
    BY DEF Inductive, HandlesOK, PartialFunction, Write
<1>2. w \in PendingWrite /\ w.task = NoTask
    BY <1>1 DEF PendingWrite
<1>3. writes' = [writes EXCEPT ![h] = w]
    BY DEF Write
<1> HIDE DEF w
<1>4. PartialFunction(writes, HandleId, PendingWrite)
    BY DEF Inductive, HandlesOK
<1>5. /\ PartialFunction(writes', HandleId, PendingWrite)
      /\ DOMAIN writes' = DOMAIN writes
      /\ writes'[h] = w
      /\ \A k \in DOMAIN writes : k # h => writes'[k] = writes[k]
    BY <1>2, <1>3, <1>4, UpdateType
<1>6. NoTask < nextTask /\ NoTask \notin DOMAIN uploads
    BY UploadAssumption DEF Inductive, QueueOK, PartialFunction, NoTask, TaskId
<1>7. UNCHANGED <<drives, index, queue, nextHandle, work, history>>
    BY DEF Write
<1>8. HandlesOK(writes, nextHandle, uploads, nextTask)'
    <2>1. \A k \in DOMAIN writes' : writes'[k].task < nextTask
        BY <1>2, <1>5, <1>6 DEF Inductive, HandlesOK
    <2>2. \A k \in DOMAIN writes' :
              writes'[k].task \in DOMAIN uploads => writes'[k].bytes = uploads[writes'[k].task].content
        BY <1>2, <1>5, <1>6 DEF Inductive, HandlesOK
    <2>3. nextHandle' \in 1 .. MaxHandles + 1
        BY <1>7 DEF Inductive, HandlesOK
    <2> QED
        BY <1>5, <1>7, <2>1, <2>2, <2>3 DEF HandlesOK, queue
<1> QED
    BY <1>7, <1>8 DEF Inductive, drives, index, queue, history

\* flush queues the bytes of the handle, which stays open or not.
LEMMA FlushToStep ==
    ASSUME Inductive, NEW h \in DOMAIN writes, NEW after, FlushTo(h, after),
           UNCHANGED <<drives, index, nextHandle, work, history>>,
           \/ after = Without(writes, h)
           \/ after = [writes EXCEPT ![h].task = nextTask]
    PROVE  Inductive'
<1> DEFINE upload == NewUpload(writes[h].name, writes[h].policy, writes[h].bytes)
<1>1. writes[h] \in PendingWrite
    BY DEF Inductive, HandlesOK, PartialFunction
<1>2. /\ upload \in Upload /\ upload.status = "pending" /\ upload.attempts = 0
      /\ upload.content = writes[h].bytes
    BY <1>1, UploadAssumption DEF NewUpload, Upload, PendingWrite
<1>3. uploads' = With(uploads, nextTask, upload)
    BY DEF FlushTo
<1> HIDE DEF upload
<1>4. nextTask <= MaxTasks /\ nextTask' = nextTask + 1 /\ writes' = after
    BY DEF FlushTo
<1>5. /\ QueueOK(uploads, nextTask, work)'
      /\ HistoryOK(uploads, nextTask, stored, emptied, cancelled)'
      /\ \A k \in DOMAIN writes : writes[k].task < nextTask
      /\ nextTask \in TaskId
      /\ DOMAIN uploads' = DOMAIN uploads \cup {nextTask}
      /\ uploads'[nextTask] = upload
      /\ \A t \in DOMAIN uploads : uploads'[t] = uploads[t]
    <2>1. UNCHANGED <<work, history>>
        OBVIOUS
    <2> QED
        BY <1>2, <1>3, <1>4, <2>1, QueuedTask
<1>6. PartialFunction(writes, HandleId, PendingWrite)
    BY DEF Inductive, HandlesOK
<1>7. \A k \in DOMAIN writes : writes[k].task \in TaskId \cup {NoTask}
    BY <1>6 DEF PartialFunction, PendingWrite
<1>8. \A k \in DOMAIN writes :
          /\ writes[k].task < nextTask'
          /\ writes[k].task \in DOMAIN uploads' => writes[k].bytes = uploads'[writes[k].task].content
    <2>1. \A k \in DOMAIN writes : writes[k].task < nextTask'
        BY <1>4, <1>5, <1>7 DEF TaskId, NoTask
    <2>2. \A k \in DOMAIN writes : writes[k].task # nextTask
        BY <1>5, <1>7 DEF TaskId, NoTask
    <2> QED
        BY <1>5, <2>1, <2>2 DEF Inductive, HandlesOK
<1>9. nextHandle' \in 1 .. MaxHandles + 1
    BY DEF Inductive, HandlesOK
<1>10. CASE after = Without(writes, h)
    <2>1. /\ PartialFunction(writes', HandleId, PendingWrite)
          /\ DOMAIN writes' = DOMAIN writes \ {h}
          /\ \A k \in DOMAIN writes \ {h} : writes'[k] = writes[k]
        BY <1>4, <1>6, <1>10 DEF PartialFunction, Without, Restrict
    <2>2. HandlesOK(writes, nextHandle, uploads, nextTask)'
        BY <1>8, <1>9, <2>1 DEF HandlesOK
    <2> QED
        BY <1>5, <2>2 DEF Inductive, drives, index
<1>11. CASE after = [writes EXCEPT ![h].task = nextTask]
    <2> DEFINE w == [writes[h] EXCEPT !.task = nextTask]
    <2>1. w \in PendingWrite /\ w.task = nextTask /\ w.bytes = upload.content
        BY <1>1, <1>2, <1>5 DEF PendingWrite
    <2>2. writes' = [writes EXCEPT ![h] = w]
        BY <1>4, <1>11
    <2> HIDE DEF w
    <2>3. /\ PartialFunction(writes', HandleId, PendingWrite)
          /\ DOMAIN writes' = DOMAIN writes
          /\ writes'[h] = w
          /\ \A k \in DOMAIN writes : k # h => writes'[k] = writes[k]
        BY <1>6, <2>1, <2>2, UpdateType
    <2>4. nextTask < nextTask'
        BY <1>4, <1>5 DEF TaskId
    <2>5. HandlesOK(writes, nextHandle, uploads, nextTask)'
        <3>1. \A k \in DOMAIN writes' : writes'[k].task < nextTask'
            BY <1>8, <2>1, <2>3, <2>4
        <3>2. \A k \in DOMAIN writes' :
                  writes'[k].task \in DOMAIN uploads' => writes'[k].bytes = uploads'[writes'[k].task].content
            BY <1>5, <1>8, <2>1, <2>3
        <3> QED
            BY <1>9, <2>3, <3>1, <3>2 DEF HandlesOK
    <2> QED
        BY <1>5, <2>5 DEF Inductive, drives, index
<1> QED
    BY <1>10, <1>11

\* A handle goes away and leaves the queue as it is.
LEMMA EndHandle ==
    ASSUME Inductive, NEW h, writes' = Without(writes, h),
           UNCHANGED <<drives, index, queue, nextHandle, work, history>>
    PROVE  Inductive'
<1>1. PartialFunction(writes, HandleId, PendingWrite)
    BY DEF Inductive, HandlesOK
<1>2. /\ PartialFunction(writes', HandleId, PendingWrite)
      /\ DOMAIN writes' = DOMAIN writes \ {h}
      /\ \A k \in DOMAIN writes \ {h} : writes'[k] = writes[k]
    BY <1>1 DEF PartialFunction, Without, Restrict
<1>3. HandlesOK(writes, nextHandle, uploads, nextTask)'
    BY <1>2 DEF Inductive, HandlesOK, queue
<1> QED
    BY <1>3 DEF Inductive, drives, index, queue, history

LEMMA CleanupStep ==
    ASSUME Inductive, CleanupTasks
    PROVE  Inductive'
<1> DEFINE R == {t \in DOMAIN uploads : ~Finished(t)}
<1>1. PartialFunction(uploads, TaskId, Upload)
    BY DEF Inductive, QueueOK
<1>2. uploads' = Restrict(uploads, R) /\ UNCHANGED <<drives, index, nextTask, handles, work, history>>
    BY DEF CleanupTasks
<1>3. /\ PartialFunction(uploads', TaskId, Upload)
      /\ DOMAIN uploads' = R
      /\ \A t \in R : uploads'[t] = uploads[t]
    BY <1>1, <1>2, RestrictType
<1>4. /\ R \subseteq DOMAIN uploads
      /\ \A t \in DOMAIN uploads \ R : uploads[t].status \in {"succeeded", "cancelled"}
    BY DEF Finished
<1> HIDE DEF R
<1>5. work = Idle
    BY DEF CleanupTasks
<1>6. QueueOK(uploads, nextTask, work)'
    BY <1>2, <1>3, <1>4, <1>5 DEF Inductive, QueueOK
<1>7. HistoryOK(uploads, nextTask, stored, emptied, cancelled)'
    <2>1. UNCHANGED <<nextTask, stored, emptied, cancelled>>
        BY <1>2 DEF history
    <2>2. \A t \in emptied \ (stored \cup cancelled) : t \in R
        BY <1>4 DEF Inductive, HistoryOK
    <2> QED
        BY <1>3, <1>4, <2>1, <2>2 DEF Inductive, HistoryOK
<1>8. HandlesOK(writes, nextHandle, uploads, nextTask)'
    BY <1>2, <1>3, <1>4 DEF Inductive, HandlesOK, handles
<1> QED
    BY <1>2, <1>6, <1>7, <1>8 DEF Inductive, drives, index

LEMMA OtherClientStep ==
    ASSUME Inductive, OtherClient
    PROVE  Inductive'
<1>1. UNCHANGED <<index, queue, handles, work, stored, emptied, cancelled>>
    BY DEF OtherClient
<1>2. PartialFunction(dir, DocId, File) /\ born \in 0 .. MaxDocs
    BY DEF Inductive, DriveOK
<1>3. DriveOK(dir', born')
    <2>1. ASSUME NEW n \in Name, NEW c \in Content, OtherCreates(n, c)
          PROVE  DriveOK(dir', born')
        BY <2>1, AcceptsType DEF OtherCreates, Inductive
    <2>2. ASSUME NEW d \in DOMAIN dir, OtherDeletes(d)
          PROVE  DriveOK(dir', born')
        BY <1>2, <2>2, WithoutType DEF OtherDeletes, DriveOK
    <2>3. ASSUME NEW d \in DOMAIN dir, NEW n \in Name, OtherRenames(d, n)
          PROVE  DriveOK(dir', born')
        <3> DEFINE f == [dir[d] EXCEPT !.name = n]
        <3>1. f \in File
            BY <1>2 DEF PartialFunction, File
        <3>2. dir' = [dir EXCEPT ![d] = f] /\ UNCHANGED born
            BY <2>3 DEF OtherRenames
        <3> HIDE DEF f
        <3> QED
            BY <1>2, <3>1, <3>2, UpdateType DEF DriveOK
    <2> QED
        BY <2>1, <2>2, <2>3 DEF OtherClient
<1> QED
    BY <1>1, <1>3 DEF Inductive, index, queue, handles

LEMMA ListingStep ==
    ASSUME Inductive, ListDirectory \/ ParentForgotten \/ ParentListed
    PROVE  Inductive'
<1>1. UNCHANGED <<drives, queue, handles, work, history>>
    BY DEF ListDirectory, ParentForgotten, ParentListed
<1>2. IndexOK(known, listing, loaded)'
    <2>1. CASE ListDirectory
        BY <2>1, ListsType DEF ListDirectory, Inductive, IndexOK
    <2>2. CASE ParentForgotten \/ ParentListed
        BY <2>2, NoFunctionType DEF ParentForgotten, ParentListed, IndexOK
    <2> QED
        BY <2>1, <2>2
<1> QED
    BY <1>1, <1>2 DEF Inductive, drives, queue, handles, history

-----------------------------------------------------------------------------
(* The invariant, and what it is for. *)

LEMMA Stepwise ==
    ASSUME Inductive, [Next]_vars
    PROVE  Inductive'
<1>1. ASSUME NEW n \in Name, NEW policy \in Policy, NEW c \in Content, Enqueue(n, policy, c)
      PROVE  Inductive'
    BY <1>1, EnqueueStep
<1>2. ASSUME NEW n \in Name, NEW policy \in Policy, OpenTempWrite(n, policy)
      PROVE  Inductive'
    BY <1>2, OpenStep
<1>3. ASSUME NEW h \in DOMAIN writes, NEW c \in Content, Write(h, c)
      PROVE  Inductive'
    BY <1>3, WriteStep
<1>4. ASSUME NEW h \in DOMAIN writes, Flush(h)
      PROVE  Inductive'
    <2>1. /\ FlushTo(h, [writes EXCEPT ![h].task = nextTask])
          /\ UNCHANGED <<drives, index, nextHandle, work, history>>
        BY <1>4 DEF Flush
    <2> QED
        BY <2>1, FlushToStep
<1>5. ASSUME NEW h \in DOMAIN writes, Close(h)
      PROVE  Inductive'
    <2>1. UNCHANGED <<drives, index, nextHandle, work, history>>
        BY <1>5 DEF Close
    <2>2. CASE FlushTo(h, Without(writes, h))
        BY <2>1, <2>2, FlushToStep
    <2>3. CASE writes' = Without(writes, h) /\ UNCHANGED queue
        BY <2>1, <2>3, EndHandle
    <2> QED
        BY <1>5, <2>2, <2>3 DEF Close
<1>6. ASSUME NEW h \in DOMAIN writes, Discard(h)
      PROVE  Inductive'
    BY <1>6, EndHandle DEF Discard
<1>7. ASSUME NEW t \in DOMAIN uploads, RetryUpload(t) \/ CancelUpload(t) \/ Start(t)
      PROVE  Inductive'
    BY <1>7, RetryStep, CancelStep, StartStep
<1>8. ASSUME CleanupTasks \/ RequestFails \/ ListTarget \/ DeleteOld \/ Send \/ OtherClient
      PROVE  Inductive'
    BY <1>8, CleanupStep, RequestFailsStep, ListTargetStep, DeleteOldStep, SendStep, OtherClientStep
<1>9. ASSUME ListDirectory \/ ParentForgotten \/ ParentListed
      PROVE  Inductive'
    BY <1>9, ListingStep
<1>10. ASSUME UNCHANGED vars
       PROVE  Inductive'
    BY <1>10 DEF vars, drives, index, queue, handles, history, Inductive
<1> QED
    BY <1>1, <1>2, <1>3, <1>4, <1>5, <1>6, <1>7, <1>8, <1>9, <1>10 DEF Next

LEMMA Invariant == Spec => []Inductive
<1>1. Init => Inductive
    BY Initially
<1>2. Inductive /\ [Next]_vars => Inductive'
    BY Stepwise
<1> QED
    BY <1>1, <1>2, PTL DEF Spec

\* Every variable of the queue and its handles keeps its type.
THEOREM Typed == Spec => []TypeOK
<1> DEFINE Noted == renamed \in BOOLEAN
<1>1. Init => Noted
    BY DEF Init
<1>2. Noted /\ [Next]_vars => Noted'
  <2>1. ASSUME Noted, \/ ParentForgotten \/ ParentListed \/ ListDirectory \/ CleanupTasks
                      \/ RequestFails \/ ListTarget \/ DeleteOld \/ Send \/ UNCHANGED vars
        PROVE  Noted'
      BY <2>1 DEF ParentForgotten, ParentListed, ListDirectory, CleanupTasks, RequestFails,
                  ListTarget, DeleteOld, Send, vars, history
  <2>2. ASSUME Noted, NEW n, NEW policy, NEW c,
               Enqueue(n, policy, c) \/ OpenTempWrite(n, policy)
        PROVE  Noted'
      BY <2>2 DEF Enqueue, OpenTempWrite, history
  <2>3. ASSUME Noted, NEW h, NEW c, Write(h, c) \/ Flush(h) \/ Close(h) \/ Discard(h)
        PROVE  Noted'
      BY <2>3 DEF Write, Flush, Close, Discard, history
  <2>4. ASSUME Noted, NEW t, RetryUpload(t) \/ CancelUpload(t) \/ Start(t)
        PROVE  Noted'
      BY <2>4 DEF RetryUpload, CancelUpload, Start, history
  <2>5. ASSUME Noted, OtherClient
        PROVE  Noted'
      BY <2>5 DEF OtherClient, OtherCreates, OtherDeletes, OtherRenames
  <2> QED
      BY <2>1, <2>2, <2>3, <2>4, <2>5 DEF Next
<1>3. Inductive /\ Noted => TypeOK
    BY DEF Inductive, TypeOK, DriveOK, IndexOK, QueueOK, HistoryOK, HandlesOK
<1> HIDE DEF Noted
<1> QED
    BY <1>1, <1>2, <1>3, Invariant, PTL DEF Spec

\* A task that deleted a document to replace it, and has neither stored its own
\* file nor been cancelled, stays in the queue where it can be retried.
THEOREM ReplacedStaysRetryable == Spec => []ReplacedOrRetryable
<1>1. Inductive => ReplacedOrRetryable
    <2> SUFFICES ASSUME Inductive, NEW t \in emptied, t \notin stored \cup cancelled
                 PROVE  t \in DOMAIN uploads /\ uploads[t].status \in {"pending", "running", "failed"}
        BY DEF ReplacedOrRetryable
    <2>1. t \in DOMAIN uploads /\ uploads[t] \in Upload
        BY DEF Inductive, HistoryOK, QueueOK, PartialFunction
    <2>2. uploads[t].status \notin {"succeeded", "cancelled"}
        BY <2>1 DEF Inductive, HistoryOK
    <2> QED
        BY <2>1, <2>2 DEF Upload
<1> QED
    BY <1>1, Invariant, PTL

\* While a flushed handle is open, its bytes are those its task uploads.
THEOREM BufferStaysQueued == Spec => []BufferIsQueued
<1>1. Inductive => BufferIsQueued
    BY DEF Inductive, HandlesOK, BufferIsQueued
<1> QED
    BY <1>1, Invariant, PTL

-----------------------------------------------------------------------------
(* Refinement: every step is one of UploadPromise, or none. *)

LEMMA QueuedStatus ==
    ASSUME Inductive, NEW upload \in Upload, nextTask <= MaxTasks,
           upload.status = "pending", upload.attempts = 0,
           uploads' = With(uploads, nextTask, upload), nextTask' = nextTask + 1,
           UNCHANGED <<work, history>>
    PROVE  Promise!Next
<1>1. /\ nextTask \in TaskId /\ nextTask \notin DOMAIN uploads
      /\ DOMAIN uploads' = DOMAIN uploads \cup {nextTask}
      /\ uploads'[nextTask] = upload
      /\ \A t \in DOMAIN uploads : uploads'[t] = uploads[t]
    BY QueuedTask
<1>2. TaskStatus[nextTask] = "none"
    BY <1>1 DEF TaskStatus, StatusOf, TaskId
<1>3. \A t \in TaskId : StatusOf(t)' = IF t = nextTask THEN "pending" ELSE StatusOf(t)
    <2> SUFFICES ASSUME NEW t \in TaskId
                 PROVE  StatusOf(t)' = IF t = nextTask THEN "pending" ELSE StatusOf(t)
        OBVIOUS
    <2>1. t # nextTask => (t < nextTask' <=> t < nextTask)
        BY <1>1 DEF TaskId
    <2> QED
        BY <1>1, <2>1 DEF StatusOf
<1>4. TaskStatus' = [TaskStatus EXCEPT ![nextTask] = "pending"]
    BY <1>3 DEF TaskStatus
<1>5. UNCHANGED stored
    BY DEF history
<1>6. Promise!Queue(nextTask)
    BY <1>2, <1>4, <1>5 DEF Promise!Queue, Promise!Becomes
<1> QED
    BY <1>1, <1>6 DEF Promise!Next

LEMMA ChangedStatus ==
    ASSUME Inductive, NEW t, NEW u, StatusChange(uploads, uploads', t, u), UNCHANGED nextTask
    PROVE  /\ t \in TaskId
           /\ TaskStatus[t] = uploads[t].status
           /\ TaskStatus' = [TaskStatus EXCEPT ![t] = u.status]
<1>1. PartialFunction(uploads, TaskId, Upload) /\ t \in DOMAIN uploads /\ t \in TaskId
    BY DEF Inductive, QueueOK, StatusChange, PartialFunction
<1>2. /\ DOMAIN uploads' = DOMAIN uploads
      /\ uploads'[t] = u
      /\ \A z \in DOMAIN uploads : z # t => uploads'[z] = uploads[z]
    BY <1>1, StatusChangeEffect
<1>3. \A z \in TaskId : StatusOf(z)' = IF z = t THEN u.status ELSE StatusOf(z)
    BY <1>1, <1>2 DEF StatusOf
<1>4. TaskStatus' = [TaskStatus EXCEPT ![t] = u.status]
    BY <1>3 DEF TaskStatus
<1> QED
    BY <1>1, <1>4 DEF TaskStatus, StatusOf

LEMMA EndedStatus ==
    ASSUME Inductive, work # Idle, NEW s \in {"succeeded", "failed"}, Ends(s), UNCHANGED nextTask,
           \/ stored' = stored /\ s = "failed"
           \/ stored' = stored \cup {work.task}
    PROVE  Promise!Next
<1>1. work.task \in DOMAIN uploads /\ uploads[work.task].status = "running"
    BY DEF Inductive, QueueOK
<1>2. PICK u : StatusChange(uploads, uploads', work.task, u) /\ u.status = s
    BY <1>1, SetStatusChange DEF Ends
<1>3. /\ work.task \in TaskId
      /\ TaskStatus[work.task] = "running"
      /\ TaskStatus' = [TaskStatus EXCEPT ![work.task] = s]
    BY <1>1, <1>2, ChangedStatus
<1>4. Promise!Becomes(work.task, {"running"}, s)
    BY <1>3 DEF Promise!Becomes
<1>5. Promise!Fail(work.task) \/ Promise!Store(work.task)
    BY <1>4 DEF Promise!Fail, Promise!Store
<1> QED
    BY <1>3, <1>5 DEF Promise!Next

LEMMA SameStatus ==
    ASSUME UNCHANGED <<uploads, nextTask, stored>>
    PROVE  UNCHANGED <<TaskStatus, stored>>
BY DEF TaskStatus, StatusOf

LEMMA Refines ==
    ASSUME Inductive, [Next]_vars
    PROVE  Promise!Next \/ UNCHANGED <<TaskStatus, stored>>
<1>1. ASSUME NEW n \in Name, NEW policy \in Policy, NEW c \in Content, Enqueue(n, policy, c)
      PROVE  Promise!Next
    <2>1. PICK final \in Name : uploads' = With(uploads, nextTask, NewUpload(final, policy, c))
        BY <1>1 DEF Enqueue
    <2> DEFINE upload == NewUpload(final, policy, c)
    <2>2. upload \in Upload /\ upload.status = "pending" /\ upload.attempts = 0
        BY UploadAssumption DEF NewUpload, Upload
    <2>3. uploads' = With(uploads, nextTask, upload)
        BY <2>1
    <2> HIDE DEF upload
    <2>4. nextTask <= MaxTasks /\ nextTask' = nextTask + 1 /\ UNCHANGED <<work, history>>
        BY <1>1 DEF Enqueue
    <2> QED
        BY <2>2, <2>3, <2>4, QueuedStatus
<1>2. ASSUME NEW h \in DOMAIN writes, NEW after, FlushTo(h, after), UNCHANGED <<work, history>>
      PROVE  Promise!Next
    <2> DEFINE upload == NewUpload(writes[h].name, writes[h].policy, writes[h].bytes)
    <2>1. writes[h] \in PendingWrite
        BY DEF Inductive, HandlesOK, PartialFunction
    <2>2. upload \in Upload /\ upload.status = "pending" /\ upload.attempts = 0
        BY <2>1, UploadAssumption DEF NewUpload, Upload, PendingWrite
    <2>3. /\ uploads' = With(uploads, nextTask, upload)
          /\ nextTask <= MaxTasks /\ nextTask' = nextTask + 1
        BY <1>2 DEF FlushTo
    <2> HIDE DEF upload
    <2> QED
        BY <1>2, <2>2, <2>3, QueuedStatus
<1>3. ASSUME NEW h \in DOMAIN writes, Flush(h) \/ Close(h) \/ Discard(h)
      PROVE  Promise!Next \/ UNCHANGED <<TaskStatus, stored>>
    <2>1. UNCHANGED <<work, history>>
        BY <1>3 DEF Flush, Close, Discard
    <2>2. (\E after : FlushTo(h, after)) \/ UNCHANGED queue
        BY <1>3 DEF Flush, Close, Discard
    <2>3. CASE \E after : FlushTo(h, after)
        BY <1>2, <2>1, <2>3
    <2>4. CASE UNCHANGED queue
        BY <2>1, <2>4, SameStatus DEF queue, history
    <2> QED
        BY <2>2, <2>3, <2>4
<1>4. ASSUME NEW t \in DOMAIN uploads, RetryUpload(t)
      PROVE  Promise!Next
    <2>1. PICK u : StatusChange(uploads, uploads', t, u) /\ u.status = "pending"
        BY <1>4, SetStatusChange DEF RetryUpload
    <2>2. uploads[t].status = "failed" /\ UNCHANGED <<nextTask, stored>>
        BY <1>4 DEF RetryUpload, history
    <2>3. t \in TaskId /\ Promise!Retry(t)
        BY <2>1, <2>2, ChangedStatus DEF Promise!Retry, Promise!Becomes
    <2> QED
        BY <2>3 DEF Promise!Next
<1>5. ASSUME NEW t \in DOMAIN uploads, CancelUpload(t)
      PROVE  Promise!Next
    <2>1. PICK u : StatusChange(uploads, uploads', t, u) /\ u.status = "cancelled"
        BY <1>5, SetStatusChange DEF CancelUpload
    <2>2. uploads[t].status \in {"pending", "failed"} /\ UNCHANGED <<nextTask, stored>>
        BY <1>5 DEF CancelUpload
    <2>3. t \in TaskId /\ Promise!Cancel(t)
        BY <2>1, <2>2, ChangedStatus DEF Promise!Cancel, Promise!Becomes
    <2> QED
        BY <2>3 DEF Promise!Next
<1>6. ASSUME NEW t \in DOMAIN uploads, Start(t)
      PROVE  Promise!Next
    <2> DEFINE u == [uploads[t] EXCEPT !.status = IF known THEN "running" ELSE "failed",
                                       !.attempts = uploads[t].attempts + 1]
    <2>1. /\ uploads[t] \in Upload /\ uploads[t].status = "pending"
          /\ uploads[t].attempts < MaxAttempts /\ work = Idle
        BY <1>6 DEF Inductive, QueueOK, PartialFunction, Start, IsNext
    <2>2. uploads[t].attempts + 1 \in 0 .. MaxAttempts
        BY <2>1, UploadAssumption DEF Upload
    <2>3. /\ u \in Upload /\ u.content = uploads[t].content /\ u.name = uploads[t].name
          /\ u.status \in {"running", "failed"}
        BY <2>1, <2>2 DEF Upload
    <2>4. uploads' = [uploads EXCEPT ![t] = u] /\ UNCHANGED <<nextTask, stored>>
        BY <1>6 DEF Start, history
    <2> HIDE DEF u
    <2>5. StatusChange(uploads, uploads', t, u)
        BY <2>3, <2>4 DEF StatusChange
    <2>6. /\ t \in TaskId /\ TaskStatus[t] = "pending"
          /\ TaskStatus' = [TaskStatus EXCEPT ![t] = u.status]
        BY <2>1, <2>4, <2>5, ChangedStatus
    <2>7. \A z \in TaskId : TaskStatus[z] # "running"
        BY <2>1 DEF Inductive, QueueOK, TaskStatus, StatusOf
    <2>8. Promise!Start(t)
        BY <2>3, <2>4, <2>6, <2>7 DEF Promise!Start, Promise!Becomes
    <2> QED
        BY <2>6, <2>8 DEF Promise!Next
<1>7. ASSUME CleanupTasks
      PROVE  Promise!Next
    <2> DEFINE R == {t \in DOMAIN uploads : ~Finished(t)}
    <2>1. uploads' = Restrict(uploads, R) /\ UNCHANGED <<nextTask, stored>>
        BY <1>7 DEF CleanupTasks, history
    <2>2. DOMAIN uploads' = R /\ \A t \in R : uploads'[t] = uploads[t]
        BY <2>1 DEF Restrict
    <2>3. \A t \in DOMAIN uploads : t < nextTask
        BY DEF Inductive, QueueOK
    <2>4. \A t \in TaskId : StatusOf(t)' =
              IF StatusOf(t) \in {"succeeded", "cancelled"} THEN "removed" ELSE StatusOf(t)
        BY <2>1, <2>2, <2>3 DEF StatusOf, Finished
    <2>5. TaskStatus' = [t \in TaskId |->
              IF TaskStatus[t] \in {"succeeded", "cancelled"} THEN "removed" ELSE TaskStatus[t]]
        BY <2>4 DEF TaskStatus
    <2> QED
        BY <2>1, <2>5 DEF Promise!Next, Promise!Cleanup
<1>8. ASSUME RequestFails
      PROVE  Promise!Next
    <2>1. work # Idle /\ Ends("failed") /\ UNCHANGED <<nextTask, stored>>
        BY <1>8 DEF RequestFails, history
    <2> QED
        BY <2>1, EndedStatus
<1>9. ASSUME ListTarget
      PROVE  UNCHANGED <<TaskStatus, stored>>
    BY <1>9, SameStatus DEF ListTarget, Goes, history
<1>10. ASSUME DeleteOld
       PROVE  Promise!Next \/ UNCHANGED <<TaskStatus, stored>>
    <2>1. work # Idle /\ UNCHANGED <<nextTask, stored>>
        BY <1>10 DEF DeleteOld, Idle
    <2>2. CASE Ends("failed")
        BY <2>1, <2>2, EndedStatus
    <2>3. CASE Goes("send", NoDoc)
        BY <2>1, <2>3, SameStatus DEF Goes
    <2> QED
        BY <1>10, <2>2, <2>3 DEF DeleteOld
<1>11. ASSUME Send
       PROVE  Promise!Next
    <2>1. work # Idle /\ stored' = stored \cup {work.task} /\ UNCHANGED nextTask
        BY <1>11 DEF Send, Idle
    <2>2. Ends("succeeded") \/ Ends("failed")
        BY <1>11 DEF Send
    <2> QED
        BY <2>1, <2>2, EndedStatus
<1>12. ASSUME \/ \E n \in Name, policy \in Policy : OpenTempWrite(n, policy)
              \/ \E h \in DOMAIN writes, c \in Content : Write(h, c)
              \/ ListDirectory \/ ParentForgotten \/ ParentListed \/ OtherClient
              \/ UNCHANGED vars
       PROVE  UNCHANGED <<TaskStatus, stored>>
    <2>1. UNCHANGED <<queue, stored>>
        BY <1>12 DEF OpenTempWrite, Write, ListDirectory, ParentForgotten, ParentListed, OtherClient,
                     vars, history
    <2> QED
        BY <2>1, SameStatus DEF queue
<1> QED
    BY <1>1, <1>3, <1>4, <1>5, <1>6, <1>7, <1>8, <1>9, <1>10, <1>11, <1>12 DEF Next

LEMMA RefinesInit == Init => Promise!Init
<1> SUFFICES ASSUME Init PROVE Promise!Init
    OBVIOUS
<1>1. DOMAIN uploads = {} /\ nextTask = 1 /\ stored = {}
    BY DEF Init, NoFunction
<1>2. \A t \in TaskId : StatusOf(t) = "none"
    BY <1>1, UploadAssumption DEF StatusOf, TaskId
<1> QED
    BY <1>1, <1>2 DEF Promise!Init, TaskStatus

\* The queue of CloudVfs implements UploadPromise: one upload at a time, no
\* success without the file on the drive, and nothing runs twice that succeeded
\* or was cancelled.
THEOREM KeepsPromise == Spec => PromiseKept
<1>1. Init => Promise!Init
    BY RefinesInit
<1>2. Inductive /\ [Next]_vars => [Promise!Next]_<<TaskStatus, stored>>
    BY Refines
<1> QED
    BY <1>1, <1>2, Invariant, PTL DEF Spec, PromiseKept, Promise!Spec

-----------------------------------------------------------------------------
(* One copy of each task's file, until somebody else renames it. *)

\* What a task has stored has the name the task has, and is there once.
OneCopy ==
    /\ \A d, e \in DOMAIN dir : dir[d].by = dir[e].by /\ dir[d].by # NoTask => d = e
    /\ \A d \in DOMAIN dir :
          dir[d].by # NoTask =>
              /\ dir[d].by < nextTask
              /\ dir[d].by \in DOMAIN uploads => dir[d].name = uploads[dir[d].by].name

\* Tasks keep their names, and new ones have new ids.
NamesKept ==
    /\ nextTask' \in Nat /\ nextTask <= nextTask'
    /\ \A t \in DOMAIN uploads' :
          \/ t = nextTask
          \/ t \in DOMAIN uploads /\ uploads'[t].name = uploads[t].name

LEMMA NamesAreKept ==
    ASSUME Inductive, Inductive', [Next]_vars
    PROVE  NamesKept
<1>1. /\ nextTask \in Nat /\ nextTask' \in Nat
      /\ PartialFunction(uploads, TaskId, Upload)
    BY UploadAssumption DEF Inductive, QueueOK
<1>2. ASSUME UNCHANGED <<uploads, nextTask>>
      PROVE  NamesKept
    BY <1>1, <1>2 DEF NamesKept
<1>3. ASSUME NEW upload, uploads' = With(uploads, nextTask, upload), nextTask' = nextTask + 1
      PROVE  NamesKept
    <2>1. \A t \in DOMAIN uploads' : t = nextTask \/ (t \in DOMAIN uploads /\ uploads'[t] = uploads[t])
        BY <1>3 DEF With
    <2> QED
        BY <1>1, <1>3, <2>1 DEF NamesKept
<1>4. ASSUME NEW t, NEW u, StatusChange(uploads, uploads', t, u), UNCHANGED nextTask
      PROVE  NamesKept
    <2>1. DOMAIN uploads' = DOMAIN uploads /\ \A z \in DOMAIN uploads : uploads'[z].name = uploads[z].name
        BY <1>1, <1>4, StatusChangeEffect
    <2> QED
        BY <1>1, <1>4, <2>1 DEF NamesKept
<1>5. ASSUME NEW n \in Name, NEW policy \in Policy, NEW c \in Content, Enqueue(n, policy, c)
      PROVE  NamesKept
    BY <1>3, <1>5 DEF Enqueue
<1>6. ASSUME NEW h, Flush(h) \/ Close(h) \/ Discard(h)
      PROVE  NamesKept
    <2>1. (\E after : FlushTo(h, after)) \/ UNCHANGED <<uploads, nextTask>>
        BY <1>6 DEF Flush, Close, Discard, queue
    <2> QED
        BY <1>2, <1>3, <2>1 DEF FlushTo
<1>7. ASSUME NEW t \in DOMAIN uploads, RetryUpload(t) \/ CancelUpload(t)
      PROVE  NamesKept
    <2>1. PICK s \in {"pending", "cancelled"} : SetStatus(t, s) /\ UNCHANGED nextTask
        BY <1>7 DEF RetryUpload, CancelUpload
    <2>2. PICK u : StatusChange(uploads, uploads', t, u)
        BY <2>1, SetStatusChange
    <2> QED
        BY <1>4, <2>1, <2>2
<1>8. ASSUME NEW t \in DOMAIN uploads, Start(t)
      PROVE  NamesKept
    <2>1. /\ uploads[t] \in Upload /\ UNCHANGED nextTask
          /\ uploads' = [uploads EXCEPT ![t] = [uploads[t] EXCEPT
                !.status = IF known THEN "running" ELSE "failed",
                !.attempts = uploads[t].attempts + 1]]
        BY <1>1, <1>8 DEF PartialFunction, Start
    <2>2. DOMAIN uploads' = DOMAIN uploads /\ \A z \in DOMAIN uploads : uploads'[z].name = uploads[z].name
        BY <1>1, <2>1 DEF PartialFunction, Upload
    <2> QED
        BY <1>1, <2>1, <2>2 DEF NamesKept
<1>9. ASSUME NEW s \in {"succeeded", "failed"}, work # Idle, Ends(s), UNCHANGED nextTask
      PROVE  NamesKept
    <2>1. work.task \in DOMAIN uploads
        BY <1>9 DEF Inductive, QueueOK
    <2>2. PICK u : StatusChange(uploads, uploads', work.task, u)
        BY <1>9, <2>1, SetStatusChange DEF Ends
    <2> QED
        BY <1>4, <1>9, <2>2
<1>10. ASSUME RequestFails \/ ListTarget \/ DeleteOld \/ Send
       PROVE  NamesKept
    <2>1. work # Idle /\ UNCHANGED nextTask
        BY <1>10 DEF RequestFails, ListTarget, DeleteOld, Send, Idle
    <2>2. (\E s \in {"succeeded", "failed"} : Ends(s)) \/ UNCHANGED uploads
        BY <1>10 DEF RequestFails, ListTarget, DeleteOld, Send, Goes
    <2> QED
        BY <1>2, <1>9, <2>1, <2>2
<1>11. ASSUME CleanupTasks
       PROVE  NamesKept
    <2>1. /\ UNCHANGED nextTask
          /\ \A t \in DOMAIN uploads' : t \in DOMAIN uploads /\ uploads'[t] = uploads[t]
        BY <1>11 DEF CleanupTasks, Restrict
    <2> QED
        BY <1>1, <2>1 DEF NamesKept
<1>12. ASSUME \/ \E n \in Name, policy \in Policy : OpenTempWrite(n, policy)
              \/ \E h \in DOMAIN writes, c \in Content : Write(h, c)
              \/ ListDirectory \/ ParentForgotten \/ ParentListed \/ OtherClient
              \/ UNCHANGED vars
       PROVE  NamesKept
    <2>1. UNCHANGED <<uploads, nextTask>>
        BY <1>12 DEF OpenTempWrite, Write, ListDirectory, ParentForgotten, ParentListed, OtherClient,
                     vars, queue
    <2> QED
        BY <1>2, <2>1
<1> QED
    BY <1>5, <1>6, <1>7, <1>8, <1>10, <1>11, <1>12 DEF Next

\* No document of a task appears or changes.
Shrinks ==
    \A d \in DOMAIN dir' : dir'[d].by # NoTask => d \in DOMAIN dir /\ dir'[d] = dir[d]

LEMMA CopiesAfterShrinking ==
    ASSUME Inductive, OneCopy, NamesKept, Shrinks
    PROVE  OneCopy'
<1>1. \A d \in DOMAIN dir' :
          dir'[d].by # NoTask =>
              /\ dir'[d].by < nextTask'
              /\ dir'[d].by \in DOMAIN uploads' => dir'[d].name = uploads'[dir'[d].by].name
    <2> SUFFICES ASSUME NEW d \in DOMAIN dir', dir'[d].by # NoTask
                 PROVE  /\ dir'[d].by < nextTask'
                        /\ dir'[d].by \in DOMAIN uploads' =>
                               dir'[d].name = uploads'[dir'[d].by].name
        OBVIOUS
    <2>1. d \in DOMAIN dir /\ dir'[d] = dir[d] /\ dir[d].by \in TaskId
        BY DEF Shrinks, Inductive, DriveOK, PartialFunction, File
    <2>2. /\ dir[d].by < nextTask
          /\ dir[d].by \in DOMAIN uploads => dir[d].name = uploads[dir[d].by].name
        BY <2>1 DEF OneCopy
    <2>3. nextTask \in Nat /\ nextTask' \in Nat /\ nextTask <= nextTask'
        BY UploadAssumption DEF Inductive, QueueOK, NamesKept
    <2>4. dir[d].by < nextTask' /\ dir[d].by # nextTask
        BY <2>1, <2>2, <2>3 DEF TaskId
    <2> QED
        BY <2>1, <2>2, <2>4 DEF NamesKept
<1>2. \A d, e \in DOMAIN dir' : dir'[d].by = dir'[e].by /\ dir'[d].by # NoTask => d = e
    BY DEF Shrinks, OneCopy
<1> QED
    BY <1>1, <1>2 DEF OneCopy

\* A document appears under a name no other has.
LEMMA CopiesAfterAccepting ==
    ASSUME Inductive, OneCopy, NamesKept,
           NEW n \in Name, NEW c \in Content, NEW by \in TaskId \cup {NoTask}, Accepts(n, c, by),
           by # NoTask => by \in DOMAIN uploads /\ uploads[by].name = n
    PROVE  OneCopy'
<1> DEFINE f == [name |-> n, content |-> c, by |-> by]
           new == born + 1
<1>1. /\ PartialFunction(dir, DocId, File) /\ f \in File
      /\ f.by = by /\ f.name = n
    BY DEF Inductive, DriveOK, File
<1>2. dir' = With(dir, new, f)
    BY DEF Accepts
<1> HIDE DEF f, new
<1>3. \A d \in DOMAIN dir' : (d = new /\ dir'[d] = f) \/ (d # new /\ d \in DOMAIN dir /\ dir'[d] = dir[d])
    BY <1>2 DEF With
<1>4. by # NoTask => \A d \in DOMAIN dir : dir[d].by # by
    BY DEF Accepts, Free, OneCopy
<1>5. nextTask \in Nat /\ nextTask' \in Nat /\ nextTask <= nextTask'
    BY UploadAssumption DEF Inductive, QueueOK, NamesKept
<1>6. \A d \in DOMAIN dir' :
          dir'[d].by # NoTask =>
              /\ dir'[d].by < nextTask'
              /\ dir'[d].by \in DOMAIN uploads' => dir'[d].name = uploads'[dir'[d].by].name
    <2> SUFFICES ASSUME NEW d \in DOMAIN dir', dir'[d].by # NoTask
                 PROVE  /\ dir'[d].by < nextTask'
                        /\ dir'[d].by \in DOMAIN uploads' =>
                               dir'[d].name = uploads'[dir'[d].by].name
        OBVIOUS
    <2>1. CASE d = new /\ dir'[d] = f
        <3>1. by # NoTask /\ by \in TaskId /\ by \in DOMAIN uploads /\ uploads[by].name = n
            BY <1>1, <2>1
        <3>2. by < nextTask
            BY <3>1 DEF Inductive, QueueOK
        <3>3. by < nextTask' /\ by # nextTask
            BY <1>5, <3>1, <3>2 DEF TaskId
        <3> QED
            BY <1>1, <2>1, <3>1, <3>3 DEF NamesKept
    <2>2. CASE d # new /\ d \in DOMAIN dir /\ dir'[d] = dir[d]
        <3>1. /\ dir[d].by \in TaskId /\ dir[d].by < nextTask
              /\ dir[d].by \in DOMAIN uploads => dir[d].name = uploads[dir[d].by].name
            BY <1>1, <2>2 DEF OneCopy, PartialFunction, File
        <3>2. dir[d].by < nextTask' /\ dir[d].by # nextTask
            BY <1>5, <3>1 DEF TaskId
        <3> QED
            BY <2>2, <3>1, <3>2 DEF NamesKept
    <2> QED
        BY <1>3, <2>1, <2>2
<1>7. \A d, e \in DOMAIN dir' : dir'[d].by = dir'[e].by /\ dir'[d].by # NoTask => d = e
    <2> SUFFICES ASSUME NEW d \in DOMAIN dir', NEW e \in DOMAIN dir',
                        dir'[d].by = dir'[e].by, dir'[d].by # NoTask
                 PROVE  d = e
        OBVIOUS
    <2>1. CASE d = new \/ e = new
        BY <1>1, <1>3, <1>4, <2>1
    <2>2. CASE d # new /\ e # new
        BY <1>3, <2>2 DEF OneCopy
    <2> QED
        BY <2>1, <2>2
<1> QED
    BY <1>6, <1>7 DEF OneCopy

LEMMA OneCopyStep ==
    ASSUME ~renamed', Inductive, Inductive', OneCopy, [Next]_vars
    PROVE  OneCopy'
<1>1. NamesKept
    BY NamesAreKept
<1>2. CASE Send
    <2> DEFINE upload == uploads[work.task]
    <2>1. work # Idle /\ Accepts(upload.name, upload.content, work.task)
        BY <1>2 DEF Send, Idle
    <2>2. work.task \in DOMAIN uploads /\ work.task \in TaskId /\ upload \in Upload
        BY <2>1 DEF Inductive, QueueOK, PartialFunction
    <2>3. upload.name \in Name /\ upload.content \in Content
        BY <2>2 DEF Upload
    <2> QED
        BY <1>1, <2>1, <2>2, <2>3, CopiesAfterAccepting
<1>3. ASSUME NEW n \in Name, NEW c \in Content, OtherCreates(n, c)
      PROVE  OneCopy'
    BY <1>1, <1>3, CopiesAfterAccepting DEF OtherCreates
<1>4. CASE Shrinks
    BY <1>1, <1>4, CopiesAfterShrinking
<1>5. ASSUME ~Send, \A n \in Name, c \in Content : ~OtherCreates(n, c)
      PROVE  Shrinks
    <2>1. CASE OtherClient
        <3>1. ASSUME NEW d \in DOMAIN dir, NEW n \in Name, OtherRenames(d, n)
              PROVE  Shrinks
            <4> DEFINE f == [dir[d] EXCEPT !.name = n]
            <4>1. dir[d] \in File
                BY DEF Inductive, DriveOK, PartialFunction
            <4>2. f.by = dir[d].by /\ dir' = [dir EXCEPT ![d] = f]
                BY <3>1, <4>1 DEF OtherRenames, File
            <4>3. dir[d].by = NoTask
                BY <3>1 DEF OtherRenames
            <4> HIDE DEF f
            <4> QED
                BY <4>2, <4>3 DEF Shrinks
        <3>2. ASSUME NEW d \in DOMAIN dir, OtherDeletes(d)
              PROVE  Shrinks
            BY <3>2 DEF OtherDeletes, Without, Restrict, Shrinks
        <3> QED
            BY <1>5, <2>1, <3>1, <3>2 DEF OtherClient
    <2>2. CASE DeleteOld
        BY <2>2 DEF DeleteOld, Without, Restrict, Shrinks
    <2>3. CASE UNCHANGED dir
        BY <2>3 DEF Shrinks
    <2>4. OtherClient \/ DeleteOld \/ UNCHANGED dir
        <3>1. CASE UNCHANGED vars
            BY <3>1 DEF vars, drives
        <3>2. CASE Next
            BY <1>5, <3>2 DEF Next, drives, Enqueue, OpenTempWrite, Write, Flush, Close, Discard,
                RetryUpload, CancelUpload, Start, CleanupTasks, ListDirectory, RequestFails,
                ListTarget, ParentForgotten, ParentListed
        <3> QED
            BY <3>1, <3>2
    <2> QED
        BY <2>1, <2>2, <2>3, <2>4
<1> QED
    BY <1>2, <1>3, <1>4, <1>5

\* Nothing makes CloudUploads forget a rename.
LEMMA RenamedStays ==
    ASSUME [Next]_vars, renamed
    PROVE  renamed'
<1>1. CASE OtherClient
    BY <1>1 DEF OtherClient, OtherCreates, OtherDeletes, OtherRenames
<1>2. ASSUME ~OtherClient
      PROVE  UNCHANGED renamed
    BY <1>2 DEF Next, vars, history, Enqueue, OpenTempWrite, Write, Flush, Close, Discard,
       RetryUpload, CancelUpload, Start, CleanupTasks, ListDirectory, RequestFails,
       ListTarget, DeleteOld, Send, ParentForgotten, ParentListed
<1> QED
    BY <1>1, <1>2

\* However often a task is retried after answers that were lost, it leaves one
\* file at most, until another client renames what a task has stored.
THEOREM OneCopyUntilRenamed == Spec => []AtMostOneCopy
<1> DEFINE Single == renamed \/ OneCopy
<1>1. Init => Single
    BY DEF Init, OneCopy, NoFunction
<1>2. Inductive /\ Inductive' /\ Single /\ [Next]_vars => Single'
    BY OneCopyStep, RenamedStays
<1>3. Single => AtMostOneCopy
    BY DEF OneCopy, AtMostOneCopy
<1> HIDE DEF Single
<1> QED
    BY <1>1, <1>2, <1>3, Invariant, PTL DEF Spec

\* The file that replaces another gets there once, or can still be sent.
THEOREM ReplacedAtMostOnce == Spec => []ReplacedOnce
<1>1. ReplacedOrRetryable /\ AtMostOneCopy => ReplacedOnce
    BY DEF ReplacedOnce
<1> QED
    BY <1>1, ReplacedStaysRetryable, OneCopyUntilRenamed, PTL

=============================================================================
