------------------------------ MODULE CloudMounts ------------------------------
(***************************************************************************)
(* CloudMountManager and the sessions of its three frontends: which are    *)
(* mounted, over which cloud VFS, and where the thread that answers the    *)
(* kernel is in the request it serves.  Stopping a session waits for that  *)
(* thread.  The module has no specification of its own: Desktop composes   *)
(* its steps with the program that calls the manager and owns the VFS.     *)
(***************************************************************************)
EXTENDS Naturals, FiniteSets

CONSTANTS
    Platforms,      \* the frontends each platform's build has, for instance {"fuse"}
    Writers,        \* the frontends whose adapter accepts a writable mount
    MaxVfs          \* bound: cloud VFS objects ever built

Frontends == {"winfsp", "cloudfiles", "fuse"}

ASSUME MountAssumption ==
    /\ Platforms \subseteq SUBSET Frontends
    /\ Writers \subseteq Frontends
    /\ MaxVfs \in Nat \ {0}

VARIABLES
    available,  \* the frontends of this build; the adapters of the others refuse
    vfs,        \* the number of the cloud VFS in use, one per rebuild
    service,    \* the number of the cloud service in use
    mounted,    \* m_sessions: the VFS a frontend's session was started on, 0 for none
    writable,   \* the frontends whose session is writable
    status,     \* m_statuses: "stopped", "ro" or "rw"
    ending,     \* the frontend whose session's stop() is running, or "none"
    serving     \* where the thread of a frontend is, see Serving

sessions == <<mounted, writable, status, ending>>
mountVars == <<available, vfs, service, mounted, writable, status, ending, serving>>

(***************************************************************************)
(* Between requests a thread waits in the kernel; in one it is looking up  *)
(* nodes and listings in the VFS, or reading a file through it; "off" is   *)
(* that there is no thread.                                                *)
(***************************************************************************)
Serving == {"off", "wait", "looking", "reading"}
Inside(f) == serving[f] \notin {"off", "wait"}

\* What each handler asks of the VFS first; "own" are answered without it.
FuseHandlers ==
    [lookup |-> "looking", getattr |-> "looking", open |-> "looking", opendir |-> "looking",
     read |-> "reading", readdir |-> "own", flush |-> "own", refused |-> "own"]
WinFspHandlers ==
    [get_security_by_name |-> "looking", open |-> "looking", read_directory |-> "looking",
     read |-> "reading", get_file_info |-> "own", refused |-> "own"]
CloudFilesHandlers ==
    [fetch_placeholders |-> "looking", fetch_data |-> "reading", open_completed |-> "own"]

Asks(f) ==
    CASE f = "fuse"       -> {FuseHandlers[h] : h \in DOMAIN FuseHandlers}
      [] f = "winfsp"     -> {WinFspHandlers[h] : h \in DOMAIN WinFspHandlers}
      [] f = "cloudfiles" -> {CloudFilesHandlers[h] : h \in DOMAIN CloudFilesHandlers}

-----------------------------------------------------------------------------
MountInit ==
    /\ available \in Platforms
    /\ vfs = 1
    /\ service = 1
    /\ mounted = [f \in Frontends |-> 0]
    /\ writable = {}
    /\ status = [f \in Frontends |-> "stopped"]
    /\ ending = "none"
    /\ serving = [f \in Frontends |-> "off"]

\* statuses_locked: a session's own status hides the one kept.
Shown(f) ==
    IF mounted[f] # 0
      THEN IF f \in writable THEN "rw" ELSE "ro"
      ELSE status[f]

\* One account and one cache directory, as the desktop program has.
HasWritableFrontend == \E f \in Frontends : Shown(f) = "rw"

\* start() answers before it has touched a session.
Refused(f, w) == f \notin available \/ (w /\ HasWritableFrontend)

RefuseStart(f, w) ==
    /\ Refused(f, w)
    /\ status' = [status EXCEPT ![f] = "stopped"]
    /\ UNCHANGED <<available, vfs, service, mounted, writable, ending, serving>>

\* create_session and start of a frontend that has no session now.  A new
\* session that fails to start is dropped; the status kept is not renewed.
SessionStarted(f, w) ==
    /\ mounted[f] = 0
    /\ w => f \in Writers
    /\ mounted' = [mounted EXCEPT ![f] = vfs]
    /\ writable' = IF w THEN writable \cup {f} ELSE writable
    /\ status' = [status EXCEPT ![f] = IF w THEN "rw" ELSE "ro"]
    /\ serving' = [serving EXCEPT ![f] = "wait"]
    /\ UNCHANGED <<available, vfs, service, ending>>

\* session->stop(): the thread is told to end, and waited for.
Ask(f) ==
    /\ ending = "none"
    /\ mounted[f] # 0
    /\ ending' = f
    /\ UNCHANGED <<available, vfs, service, mounted, writable, status, serving>>

\* Mutant: the thread is told, and not joined.
Joined_Told(f) == serving[f] \in Serving
Joined(f) == serving[f] = "off"

\* Mutant: the status is taken before the session has stopped.
KeptStatus_Before(f) == Shown(f)
KeptStatus(f) == "stopped"

Stopped(f) ==
    /\ ending = f
    /\ Joined(f)
    /\ ending' = "none"
    /\ mounted' = [mounted EXCEPT ![f] = 0]
    /\ writable' = writable \ {f}
    /\ status' = [status EXCEPT ![f] = KeptStatus(f)]
    /\ UNCHANGED <<available, vfs, service, serving>>

-----------------------------------------------------------------------------
(* The thread of a frontend, which the kernel feeds.                       *)

\* Mutant: the loop does not look at the request to end.
After_Deaf(f) == "wait"
After(f) == IF ending = f THEN "off" ELSE "wait"

Request(f) ==
    /\ serving[f] = "wait"
    /\ \E ask \in Asks(f) :
         serving' = [serving EXCEPT ![f] = IF ask = "own" THEN After(f) ELSE ask]
    /\ UNCHANGED <<available, vfs, service, sessions>>

\* Answered from the index, from what is cached, or with an error.
Answer(f) ==
    /\ Inside(f)
    /\ serving' = [serving EXCEPT ![f] = After(f)]
    /\ UNCHANGED <<available, vfs, service, sessions>>

\* fuse_session_exit is noticed only with the next request, the dispatchers of
\* the other two are woken; an unmount by somebody else ends the FUSE loop.
Leave(f) ==
    /\ serving[f] = "wait"
    /\ f = "fuse" \/ ending = f
    /\ serving' = [serving EXCEPT ![f] = "off"]
    /\ UNCHANGED <<available, vfs, service, sessions>>

=============================================================================
