---------------------------- MODULE UploadPromise ----------------------------
(***************************************************************************)
(* What the upload queue of CloudVfs promises of its tasks, without drive, *)
(* names, handles or policies: one upload runs at a time, a file reaches   *)
(* the drive only while its task runs, "succeeded" is never claimed of a   *)
(* file that did not, and neither a succeeded nor a cancelled task ever    *)
(* runs again.                                                             *)
(***************************************************************************)
CONSTANT Task

VARIABLES
    status,     \* of each task, "none" before it is queued
    stored      \* the tasks whose file has reached the drive

Status == {"none", "pending", "running", "succeeded", "failed", "cancelled", "removed"}

Init ==
    /\ status = [t \in Task |-> "none"]
    /\ stored = {}

Becomes(t, from, to) ==
    /\ status[t] \in from
    /\ status' = [status EXCEPT ![t] = to]

Queue(t) == Becomes(t, {"none"}, "pending") /\ UNCHANGED stored

Start(t) ==
    /\ \A u \in Task : status[u] # "running"
    /\ Becomes(t, {"pending"}, "running") \/ Becomes(t, {"pending"}, "failed")
    /\ UNCHANGED stored

\* The file reaches the drive; the answer may be lost.
Store(t) ==
    /\ stored' = stored \cup {t}
    /\ Becomes(t, {"running"}, "succeeded") \/ Becomes(t, {"running"}, "failed")

Fail(t) == Becomes(t, {"running"}, "failed") /\ UNCHANGED stored
Retry(t) == Becomes(t, {"failed"}, "pending") /\ UNCHANGED stored
Cancel(t) == Becomes(t, {"pending", "failed"}, "cancelled") /\ UNCHANGED stored

Cleanup ==
    /\ status' = [t \in Task |->
                    IF status[t] \in {"succeeded", "cancelled"} THEN "removed" ELSE status[t]]
    /\ UNCHANGED stored

Next ==
    \/ \E t \in Task : Queue(t) \/ Start(t) \/ Store(t) \/ Fail(t) \/ Retry(t) \/ Cancel(t)
    \/ Cleanup

Spec == Init /\ [][Next]_<<status, stored>>
=============================================================================
