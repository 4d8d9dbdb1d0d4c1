------------------------------- MODULE Desktop -------------------------------
(***************************************************************************)
(* The desktop program: one RuntimeContext, which owns the account, the    *)
(* cookies, the cloud VFS with its cache and the mounts.  The window's     *)
(* thread runs the callbacks, one at a time and step by step; a campus     *)
(* query runs on a thread of its own, and the mounts answer the kernel on  *)
(* theirs.                                                                 *)
(* Of cookies and cached bytes only whose they are is kept.                *)
(***************************************************************************)
EXTENDS CloudMounts

CONSTANTS Account, Nobody

ASSUME AccountAssumption == Nobody \notin Account

VARIABLES
    ui,         \* the window's thread: "idle", or where it is in a callback
    todo,       \* the frontends that callback has still to stop
    want,       \* the mount it starts: a frontend and whether writable
    account,    \* the account of the session, or Nobody
    jar,        \* whose cookies the jar in memory holds
    knows,      \* whose password or token the cloud service has or has had
    cache,      \* whose bytes the content cache has
    asking,     \* as whom a mount's thread has asked the drive
    querying,   \* a campus query runs
    asker,      \* whose cookies its request was sent with, Nobody between requests
    halfway,    \* history: the last login failed after the account had changed
    crossed     \* history: that login came over another account's cookies, or
                \* while a query or mounts of another account ran

who == <<account, jar>>
bytes == <<cache, asking>>
others == <<querying, asker>>
flow == <<ui, todo, want>>
past == <<halfway, crossed>>
vars == <<mountVars, flow, who, knows, bytes, others, past>>

NoMount == <<"none", FALSE>>

\* The password saved survives a logout, and may be of a login that failed.
Init ==
    /\ MountInit
    /\ ui = "idle" /\ todo = {} /\ want = NoMount
    /\ account \in Account \cup {Nobody} /\ jar = {account} \ {Nobody}
    /\ knows \in {{a} : a \in Account} \cup {{}}
    /\ cache = {}
    /\ asking = [f \in Frontends |-> Nobody]
    /\ querying = FALSE /\ asker = Nobody
    /\ halfway = ~(jar \subseteq knows) /\ crossed = FALSE

Running == {f \in Frontends : Shown(f) \in {"ro", "rw"}}
NothingMounted == \A f \in Frontends : mounted[f] = 0

\* As whom the mounts may be asking, now or later, whatever the jar has.
Served == knows \cup {asking[f] : f \in Frontends}

(***************************************************************************)
(* CloudService::token: the token the service has, one that is in the jar, *)
(* or a new one, for the cookies or with the password it was built with; a *)
(* request that is turned away gets a new one.  The answers put cookies of *)
(* the account into the jar, which may by then be another's.               *)
(***************************************************************************)
AsksAs(a) ==
    /\ a \in jar \cup knows
    /\ knows' = knows \cup {a}

Brings(a) == jar' \in {jar, jar \cup ({a} \ {Nobody})}

-----------------------------------------------------------------------------
(* Login: the session, the cookies, the credentials, then a new cloud VFS. *)

LogIn(a) ==
    /\ ui = "idle"
    /\ vfs < MaxVfs
    /\ ui' = "login"
    /\ account' = a
    /\ jar' = jar \cup {a}
    /\ halfway' = TRUE
    /\ crossed' = \/ querying \/ ~(jar \subseteq {a})
                  \/ ~NothingMounted /\ ~(Served \subseteq {a, Nobody})
    /\ UNCHANGED <<mountVars, todo, want, knows, bytes, others>>

SaveLogin ==
    /\ ui = "login"
    /\ \/ ui' = "rebuild" /\ todo' = {f \in Frontends : mounted[f] # 0}
       \/ ui' = "idle" /\ UNCHANGED todo       \* the flush failed
    /\ UNCHANGED <<mountVars, want, who, knows, bytes, others, past>>

\* Mutant: the sessions are left to the new VFS to stop.
AllStopped_Later == TRUE
AllStopped == todo = {} /\ ending = "none"

\* rebuild_cloud_vfs after stop_all: the cache is emptied and the old service
\* is replaced, then the VFS that refers to it.
NewService ==
    /\ ui = "rebuild"
    /\ AllStopped
    /\ ui' = "rebuild vfs"
    /\ service' = service + 1
    /\ knows' = {account} \ {Nobody}
    /\ cache' = {}
    /\ UNCHANGED <<available, vfs, sessions, serving, todo, want, who,
                   asking, others, past>>

NewVfs ==
    /\ ui = "rebuild vfs"
    /\ ui' = "idle"
    /\ vfs' = service
    /\ halfway' = FALSE
    /\ UNCHANGED <<available, service, sessions, serving, todo, want, who, knows,
                   bytes, others, crossed>>

-----------------------------------------------------------------------------
(* Mounting and unmounting.                                                *)

\* Starting a frontend that has a session stops that one first.
StartMount(f, w) ==
    /\ ui = "idle"
    /\ IF Refused(f, w)
         THEN RefuseStart(f, w) /\ UNCHANGED flow
         ELSE /\ ui' = "mount"
              /\ want' = <<f, w>>
              /\ todo' = IF mounted[f] # 0 THEN {f} ELSE {}
              /\ UNCHANGED mountVars
    /\ UNCHANGED <<who, knows, bytes, others, past>>

Mount ==
    /\ ui = "mount"
    /\ todo = {}
    /\ ui' = "idle"
    /\ want' = NoMount
    /\ SessionStarted(want[1], want[2]) \/ UNCHANGED mountVars
    /\ UNCHANGED <<todo, who, knows, bytes, others, past>>

StopMounts ==
    /\ ui = "idle"
    /\ Running # {}
    /\ ui' = "unmount"
    /\ todo' = Running
    /\ UNCHANGED <<mountVars, want, who, knows, bytes, others, past>>

StopsDone ==
    /\ ui = "unmount"
    /\ todo = {}
    /\ ui' = "idle"
    /\ UNCHANGED <<mountVars, todo, want, who, knows, bytes, others, past>>

StopSession(f) ==
    /\ f \in todo
    /\ Ask(f)
    /\ UNCHANGED <<flow, who, knows, bytes, others, past>>

SessionStopped(f) ==
    /\ Stopped(f)
    /\ todo' = todo \ {f}
    /\ UNCHANGED <<ui, want, who, knows, bytes, others, past>>

-----------------------------------------------------------------------------
(* Logging out, and the content cache.                                     *)

JarAfterLogout == {}

LogOut ==
    /\ ui = "idle"
    /\ account' = Nobody
    /\ jar' = JarAfterLogout
    /\ UNCHANGED <<mountVars, flow, knows, bytes, others, past>>

ClearCache ==
    /\ ui = "idle"
    /\ cache # {}
    /\ cache' = {}
    /\ UNCHANGED <<mountVars, flow, who, knows, asking, others, past>>

-----------------------------------------------------------------------------
(* The cloud browser lists and changes; a download reads through the cache. *)

Browse ==
    /\ ui = "idle"
    /\ \E a \in Account :
         /\ AsksAs(a) /\ Brings(a)
         /\ cache' \in {cache, cache \cup {a}}
    /\ UNCHANGED <<mountVars, flow, account, asking, others, past>>

-----------------------------------------------------------------------------
(* A campus query, one at a time, on a thread that shares the cookies.     *)

Query ==
    /\ ~querying
    /\ ui = "idle"
    /\ querying' = TRUE
    /\ UNCHANGED <<mountVars, flow, who, knows, bytes, asker, past>>

SendQuery ==
    /\ querying
    /\ asker = Nobody
    /\ asker' \in jar
    /\ UNCHANGED <<mountVars, flow, who, knows, bytes, querying, past>>

\* The answer may set cookies; further requests may follow.  What is sent
\* without cookies brings none.
QueryAnswered ==
    /\ querying
    /\ Brings(asker)
    /\ asker' = Nobody
    /\ querying' \in {asker # Nobody, FALSE}
    /\ UNCHANGED <<mountVars, flow, account, knows, bytes, past>>

-----------------------------------------------------------------------------
(* The threads of the mounts.                                              *)

\* What is kept already, or finds no token, is served as Nobody; a read of that
\* kind does as a look does.
ServeRequest(f) ==
    /\ Request(f)
    /\ \/ serving'[f] # "reading" /\ UNCHANGED <<knows, asking>>
       \/ /\ serving'[f] \in {"looking", "reading"}
          /\ \E a \in Account : AsksAs(a) /\ asking' = [asking EXCEPT ![f] = a]
    /\ UNCHANGED <<flow, who, cache, others, past>>

LeaveLoop(f) ==
    /\ Leave(f)
    /\ UNCHANGED <<flow, who, knows, bytes, others, past>>

FinishRequest(f) ==
    /\ Answer(f)
    /\ Brings(asking[f])
    /\ \/ UNCHANGED cache
       \/ serving[f] = "reading" /\ cache' = cache \cup ({asking[f]} \ {Nobody})
    /\ asking' = [asking EXCEPT ![f] = Nobody]
    /\ UNCHANGED <<flow, account, knows, others, past>>

-----------------------------------------------------------------------------
Window ==
    \/ \E a \in Account : LogIn(a)
    \/ \E f \in Frontends, w \in BOOLEAN : StartMount(f, w)
    \/ StopMounts \/ LogOut \/ ClearCache \/ Browse

\* What a callback does once it has begun.
Callback ==
    \/ SaveLogin \/ NewService \/ NewVfs \/ Mount \/ StopsDone
    \/ \E f \in Frontends : StopSession(f) \/ SessionStopped(f)

Thread(f) == ServeRequest(f) \/ FinishRequest(f) \/ LeaveLoop(f)

Next ==
    \/ Window \/ Callback
    \/ Query \/ SendQuery \/ QueryAnswered
    \/ \E f \in Frontends : Thread(f)

\* What brings the thread of a session that is being stopped to its end: a FUSE
\* loop that waits is not woken.
Ending(f) ==
    /\ ending = f
    /\ FinishRequest(f) \/ (f # "fuse" /\ LeaveLoop(f))

(***************************************************************************)
(* A callback that has begun goes on, a request that is served is answered *)
(* and a dispatcher that was told to end does.  Nothing makes the kernel   *)
(* send a request.                                                         *)
(***************************************************************************)
Spec ==
    /\ Init
    /\ [][Next]_vars
    /\ WF_vars(Callback)
    /\ WF_vars(\E f \in Frontends : Ending(f))

-----------------------------------------------------------------------------
TypeOK ==
    /\ available \in Platforms
    /\ {vfs, service} \subseteq 1 .. MaxVfs
    /\ mounted \in [Frontends -> 0 .. MaxVfs]
    /\ writable \subseteq Frontends
    /\ status \in [Frontends -> {"stopped", "ro", "rw"}]
    /\ ending \in Frontends \cup {"none"}
    /\ serving \in [Frontends -> Serving]
    /\ ui \in {"idle", "login", "rebuild", "rebuild vfs", "mount", "unmount"}
    /\ todo \subseteq Frontends
    /\ want \in (Frontends \X BOOLEAN) \cup {NoMount}
    /\ account \in Account \cup {Nobody}
    /\ {jar, knows, cache} \subseteq SUBSET Account
    /\ asker \in Account \cup {Nobody}
    /\ asking \in [Frontends -> Account \cup {Nobody}]
    /\ {querying, halfway, crossed} \subseteq BOOLEAN

\* No mount's thread is inside a cloud VFS that has been replaced, or whose
\* cloud service has (rebuild_cloud_vfs stops the mounts first).
NoDangling ==
    \A f \in Frontends :
        Inside(f) => /\ mounted[f] = vfs
                     /\ vfs = service

\* A frontend shown as running has a session, and no status that was kept says
\* otherwise once the session is gone: such a one would refuse every writable
\* mount from then on (CloudMountManager::statuses, has_writable_frontend).
StatusesTrue ==
    \A f \in Frontends :
        /\ Shown(f) \in {"ro", "rw"} <=> mounted[f] # 0
        /\ mounted[f] = 0 => status[f] = "stopped"

\* At most one frontend is writable (CloudMountManager::start).
OneWriter == \A f, g \in writable : f = g

\* The table of the mounts is true of their sessions, and with it the rule of the
\* one writable frontend, which is judged by it.
WritersKnown == StatusesTrue /\ OneWriter

\* The account and the cookies in memory, which every operation saves, are of one
\* account, the one that logged in last: a mount, a query or the browser, which go
\* on with the old service, may bring its cookies back after a logout, but never
\* those of an earlier one, unless the last login came over its cookies, or while
\* a query or its mounts ran, or failed halfway.
CookiesAreOwn ==
    ~crossed /\ ~halfway =>
        \A a, b \in jar \cup ({account} \ {Nobody}) : a = b

\* After a whole login the cached bytes, which outlive the VFS they were read
\* through, are all of its account, whatever the mounts were reading for another
\* one while it went on, as long as the other has left no cookies.
CacheIsOwn ==
    (ui = "idle" /\ account # Nobody /\ ~halfway /\ jar \subseteq {account}) =>
        cache \subseteq {account}

\* Nothing of one account is left in use under another.
AccountsApart == CookiesAreOwn /\ CacheIsOwn

\* A stop comes to an end, a FUSE mount's only if its users go on using it.
StopsEnd == []<>(serving["fuse"] # "wait") => (ending # "none" ~> ending = "none")

=============================================================================
