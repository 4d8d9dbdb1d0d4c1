---------------------------- MODULE DesktopProofs ----------------------------
(***************************************************************************)
(* No mount outlives its cloud VFS, statuses tell the truth, one frontend  *)
(* at most is writable and nothing of one account is in use under another, *)
(* for every set of platforms and accounts and any number of rebuilds.     *)
(***************************************************************************)
EXTENDS Desktop, TLAPS

MountTypes ==
    /\ vfs \in 1 .. MaxVfs
    /\ service \in 1 .. MaxVfs
    /\ mounted \in [Frontends -> 0 .. MaxVfs]
    /\ writable \in SUBSET Frontends
    /\ status \in [Frontends -> {"stopped", "ro", "rw"}]
    /\ ending \in Frontends \cup {"none"}
    /\ serving \in [Frontends -> Serving]
    /\ ui \in {"idle", "login", "rebuild", "rebuild vfs", "mount", "unmount"}
    /\ todo \in SUBSET Frontends
    /\ want \in (Frontends \X BOOLEAN) \cup {NoMount}

\* Sessions are on the VFS in use, and a thread has a session.
OnCurrent ==
    \A f \in Frontends :
        /\ mounted[f] # 0 => mounted[f] = vfs
        /\ serving[f] # "off" => mounted[f] # 0

\* What is left over of a session that is gone.
Leftovers ==
    /\ \A f \in Frontends : mounted[f] = 0 => status[f] = "stopped"
    /\ \A f \in writable : mounted[f] # 0

\* The service is ahead of the VFS only while nothing is mounted.
Rebuilding ==
    /\ ui \in {"login", "rebuild"} => vfs < MaxVfs
    /\ ui # "rebuild vfs" => service = vfs
    /\ ui = "rebuild vfs" => \A f \in Frontends : mounted[f] = 0
    /\ ui = "rebuild" => \A f \in Frontends : mounted[f] # 0 => f \in todo

\* Sessions are stopped only where a callback has still to stop them.
Stopping ==
    /\ ending # "none" => ending \in todo
    /\ ui \in {"idle", "login", "rebuild vfs"} => todo = {}

\* A mount that is about to start finds its place free.
Mounting ==
    ui = "mount" =>
        /\ want \in Frontends \X BOOLEAN
        /\ mounted[want[1]] # 0 => want[1] \in todo
        /\ want[2] => writable = {}

IInv ==
    /\ MountTypes
    /\ OnCurrent
    /\ Leftovers
    /\ Rebuilding
    /\ Stopping
    /\ Mounting
    /\ OneWriter

-----------------------------------------------------------------------------
\* The numbers of VFS objects are numbers.
LEMMA VfsNumber ==
    ASSUME MountTypes
    PROVE  /\ MaxVfs \in Nat
           /\ vfs \in 0 .. MaxVfs
           /\ vfs >= 1
           /\ vfs < MaxVfs => vfs + 1 \in 1 .. MaxVfs
<1>1. MaxVfs \in Nat
  BY MountAssumption
<1>2. vfs \in 1 .. MaxVfs
  BY DEF MountTypes
<1> QED
  BY <1>1, <1>2

LEMMA InitIInv == Init => IInv
<1> SUFFICES ASSUME Init PROVE IInv
  OBVIOUS
<1> USE MountAssumption DEF Init, MountInit, Frontends, NoMount
<1>1. MountTypes
  BY DEF MountTypes, Serving
<1>2. OnCurrent /\ Leftovers /\ Rebuilding /\ Stopping /\ Mounting /\ OneWriter
  BY DEF OnCurrent, Leftovers, Rebuilding, Stopping, Mounting, OneWriter
<1> QED
  BY <1>1, <1>2 DEF IInv

-----------------------------------------------------------------------------
LEMMA LoginKeepsIInv == IInv /\ (\E a \in Account : LogIn(a)) => IInv'
<1> SUFFICES ASSUME IInv, (\E a \in Account : LogIn(a)) PROVE IInv'
  OBVIOUS
<1> USE DEF IInv, Frontends, mountVars, sessions, flow, LogIn
<1>1. MountTypes'
  BY DEF MountTypes, Stopping, Rebuilding, Mounting, Serving, NoMount
<1>2. OnCurrent' /\ Leftovers'
  BY DEF MountTypes, OnCurrent, Leftovers, Stopping, Mounting, Rebuilding
<1>3. Rebuilding' /\ Stopping'
  BY DEF MountTypes, OnCurrent, Leftovers, Rebuilding, Stopping, Mounting
<1>4. Mounting' /\ OneWriter'
  BY DEF MountTypes, OnCurrent, Leftovers, Mounting, OneWriter, Stopping
<1> QED
  BY <1>1, <1>2, <1>3, <1>4

LEMMA SaveLoginKeepsIInv == IInv /\ SaveLogin => IInv'
<1> SUFFICES ASSUME IInv, SaveLogin PROVE IInv'
  OBVIOUS
<1> USE DEF IInv, Frontends, mountVars, sessions, flow, SaveLogin
<1>1. MountTypes'
  BY DEF MountTypes, Stopping, Rebuilding, Mounting, Serving, NoMount
<1>2. OnCurrent' /\ Leftovers'
  BY DEF MountTypes, OnCurrent, Leftovers, Stopping, Mounting, Rebuilding
<1>3. Rebuilding' /\ Stopping'
  BY DEF MountTypes, OnCurrent, Leftovers, Rebuilding, Stopping, Mounting
<1>4. Mounting' /\ OneWriter'
  BY DEF MountTypes, OnCurrent, Leftovers, Mounting, OneWriter, Stopping
<1> QED
  BY <1>1, <1>2, <1>3, <1>4

LEMMA NewServiceKeepsIInv == IInv /\ NewService => IInv'
<1> SUFFICES ASSUME IInv, NewService PROVE IInv'
  OBVIOUS
<1> USE DEF IInv, Frontends, mountVars, sessions, flow, NewService, AllStopped
<1>1. MountTypes'
  <2>1. service = vfs /\ vfs < MaxVfs
    BY DEF Rebuilding
  <2>2. service' \in 1 .. MaxVfs
    BY <2>1, VfsNumber
  <2> QED
    BY <2>2 DEF MountTypes
<1>2. OnCurrent' /\ Leftovers'
  BY DEF MountTypes, OnCurrent, Leftovers, Stopping, Mounting, Rebuilding
<1>3. Rebuilding' /\ Stopping'
  BY DEF MountTypes, OnCurrent, Leftovers, Rebuilding, Stopping, Mounting
<1>4. Mounting' /\ OneWriter'
  BY DEF MountTypes, OnCurrent, Leftovers, Mounting, OneWriter, Stopping
<1> QED
  BY <1>1, <1>2, <1>3, <1>4

LEMMA NewVfsKeepsIInv == IInv /\ NewVfs => IInv'
<1> SUFFICES ASSUME IInv, NewVfs PROVE IInv'
  OBVIOUS
<1> USE DEF IInv, Frontends, mountVars, sessions, flow, NewVfs
<1>1. MountTypes'
  BY DEF MountTypes, Stopping, Rebuilding, Mounting, Serving, NoMount
<1>2. OnCurrent' /\ Leftovers'
  BY DEF MountTypes, OnCurrent, Leftovers, Stopping, Mounting, Rebuilding
<1>3. Rebuilding' /\ Stopping'
  BY DEF MountTypes, OnCurrent, Leftovers, Rebuilding, Stopping, Mounting
<1>4. Mounting' /\ OneWriter'
  BY DEF MountTypes, OnCurrent, Leftovers, Mounting, OneWriter, Stopping
<1> QED
  BY <1>1, <1>2, <1>3, <1>4

LEMMA StartMountKeepsIInv ==
    IInv /\ (\E f \in Frontends, w \in BOOLEAN : StartMount(f, w)) => IInv'
<1> SUFFICES ASSUME IInv, NEW f \in Frontends, NEW w \in BOOLEAN, StartMount(f, w)
             PROVE  IInv'
  OBVIOUS
<1> USE DEF IInv, mountVars, sessions, flow, StartMount, MountTypes
<1>1. CASE Refused(f, w)
  <2> USE <1>1 DEF RefuseStart
  <2>1. MountTypes'
    OBVIOUS
  <2>2. OnCurrent' /\ Leftovers' /\ Rebuilding' /\ Stopping' /\ Mounting' /\ OneWriter'
    BY DEF OnCurrent, Leftovers, Rebuilding, Stopping, Mounting, OneWriter
  <2> QED
    BY <2>1, <2>2
<1>2. CASE ~Refused(f, w)
  <2> USE <1>2
  <2>1. w => writable = {}
    BY DEF Refused, HasWritableFrontend, Shown, Leftovers
  <2>2. MountTypes'
    OBVIOUS
  <2>3. Mounting'
    BY <2>1 DEF Mounting
  <2>4. OnCurrent' /\ Leftovers' /\ Rebuilding' /\ Stopping' /\ OneWriter'
    BY DEF OnCurrent, Leftovers, Rebuilding, Stopping, OneWriter
  <2> QED
    BY <2>2, <2>3, <2>4
<1> QED
  BY <1>1, <1>2

LEMMA MountKeepsIInv == IInv /\ Mount => IInv'
<1> SUFFICES ASSUME IInv, Mount PROVE IInv'
  OBVIOUS
<1> USE DEF IInv, mountVars, sessions, Mount
<1>1. CASE UNCHANGED mountVars
  BY <1>1 DEF MountTypes, NoMount, OnCurrent, Leftovers, Rebuilding, Stopping, Mounting, OneWriter
<1>2. CASE SessionStarted(want[1], want[2])
  <2> DEFINE f == want[1]
             w == want[2]
  <2>1. f \in Frontends /\ w \in BOOLEAN /\ mounted[f] = 0 /\ (w => writable = {})
    BY <1>2 DEF Mounting, MountTypes, SessionStarted
  <2>2. /\ mounted' = [mounted EXCEPT ![f] = vfs]
        /\ writable' = IF w THEN writable \cup {f} ELSE writable
        /\ status' = [status EXCEPT ![f] = IF w THEN "rw" ELSE "ro"]
        /\ serving' = [serving EXCEPT ![f] = "wait"]
        /\ UNCHANGED <<available, vfs, service, ending, todo>>
        /\ ui' = "idle" /\ want' = NoMount /\ ui = "mount" /\ todo = {}
    BY <1>2 DEF SessionStarted
  <2>3. vfs \in 0 .. MaxVfs /\ vfs # 0
    BY VfsNumber
  <2> HIDE DEF f, w
  <2>4. MountTypes'
    BY <2>1, <2>2, <2>3 DEF MountTypes, NoMount, Serving
  <2>5. OnCurrent' /\ Leftovers'
    BY <2>1, <2>2, <2>3 DEF OnCurrent, Leftovers, MountTypes
  <2>6. Rebuilding' /\ Stopping' /\ Mounting'
    BY <2>2 DEF Rebuilding, Stopping, Mounting
  <2>7. OneWriter'
    BY <2>1, <2>2 DEF OneWriter
  <2> QED
    BY <2>4, <2>5, <2>6, <2>7
<1> QED
  BY <1>1, <1>2

LEMMA StopMountsKeepsIInv == IInv /\ StopMounts => IInv'
<1> SUFFICES ASSUME IInv, StopMounts PROVE IInv'
  OBVIOUS
<1> USE DEF IInv, Frontends, mountVars, sessions, flow, StopMounts, Running
<1>1. MountTypes'
  BY DEF MountTypes, Stopping, Rebuilding, Mounting, Serving, NoMount
<1>2. OnCurrent' /\ Leftovers'
  BY DEF MountTypes, OnCurrent, Leftovers, Stopping, Mounting, Rebuilding
<1>3. Rebuilding' /\ Stopping'
  BY DEF MountTypes, OnCurrent, Leftovers, Rebuilding, Stopping, Mounting
<1>4. Mounting' /\ OneWriter'
  BY DEF MountTypes, OnCurrent, Leftovers, Mounting, OneWriter, Stopping
<1> QED
  BY <1>1, <1>2, <1>3, <1>4

LEMMA StopsDoneKeepsIInv == IInv /\ StopsDone => IInv'
<1> SUFFICES ASSUME IInv, StopsDone PROVE IInv'
  OBVIOUS
<1> USE DEF IInv, Frontends, mountVars, sessions, flow, StopsDone
<1>1. MountTypes'
  BY DEF MountTypes, Stopping, Rebuilding, Mounting, Serving, NoMount
<1>2. OnCurrent' /\ Leftovers'
  BY DEF MountTypes, OnCurrent, Leftovers, Stopping, Mounting, Rebuilding
<1>3. Rebuilding' /\ Stopping'
  BY DEF MountTypes, OnCurrent, Leftovers, Rebuilding, Stopping, Mounting
<1>4. Mounting' /\ OneWriter'
  BY DEF MountTypes, OnCurrent, Leftovers, Mounting, OneWriter, Stopping
<1> QED
  BY <1>1, <1>2, <1>3, <1>4

LEMMA StopSessionKeepsIInv == IInv /\ (\E f \in Frontends : StopSession(f)) => IInv'
<1> SUFFICES ASSUME IInv, (\E f \in Frontends : StopSession(f)) PROVE IInv'
  OBVIOUS
<1> USE DEF IInv, Frontends, mountVars, sessions, flow, StopSession, Ask
<1>1. MountTypes'
  BY DEF MountTypes, Stopping, Rebuilding, Mounting, Serving, NoMount
<1>2. OnCurrent' /\ Leftovers'
  BY DEF MountTypes, OnCurrent, Leftovers, Stopping, Mounting, Rebuilding
<1>3. Rebuilding' /\ Stopping'
  BY DEF MountTypes, OnCurrent, Leftovers, Rebuilding, Stopping, Mounting
<1>4. Mounting' /\ OneWriter'
  BY DEF MountTypes, OnCurrent, Leftovers, Mounting, OneWriter, Stopping
<1> QED
  BY <1>1, <1>2, <1>3, <1>4

LEMMA SessionStoppedKeepsIInv == IInv /\ (\E f \in Frontends : SessionStopped(f)) => IInv'
<1> SUFFICES ASSUME IInv, NEW f \in Frontends, SessionStopped(f) PROVE IInv'
  OBVIOUS
<1>1. /\ serving[f] = "off" /\ ending = f /\ ending' = "none"
      /\ mounted' = [mounted EXCEPT ![f] = 0]
      /\ writable' = writable \ {f}
      /\ status' = [status EXCEPT ![f] = "stopped"]
      /\ todo' = todo \ {f}
      /\ UNCHANGED <<available, vfs, service, serving, ui, want>>
  BY DEF SessionStopped, Stopped, Joined, KeptStatus
<1>2. MountTypes /\ OnCurrent /\ Leftovers /\ Rebuilding /\ Stopping /\ Mounting /\ OneWriter
  BY DEF IInv
<1>3. 0 \in 0 .. MaxVfs /\ vfs # 0
  BY <1>2, VfsNumber
<1>4. MountTypes'
  BY <1>1, <1>2, <1>3 DEF MountTypes
<1>5. OnCurrent'
  BY <1>1, <1>2, <1>3 DEF OnCurrent, MountTypes
<1>6. Leftovers'
  BY <1>1, <1>2, <1>3 DEF Leftovers, MountTypes
<1>7. Rebuilding' /\ Stopping'
  BY <1>1, <1>2, <1>3 DEF Rebuilding, Stopping, MountTypes
<1>8. Mounting'
  <2> SUFFICES ASSUME ui = "mount" PROVE Mounting'
    BY <1>1 DEF Mounting
  <2>1. want \in Frontends \X BOOLEAN /\ want[1] \in Frontends
    BY <1>2 DEF Mounting
  <2>2. mounted'[want[1]] # 0 => want[1] # f /\ mounted[want[1]] # 0
    BY <1>1, <1>2, <2>1 DEF MountTypes
  <2> QED
    BY <1>1, <1>2, <2>1, <2>2 DEF Mounting
<1>9. OneWriter'
  BY <1>1, <1>2 DEF OneWriter
<1> QED
  BY <1>4, <1>5, <1>6, <1>7, <1>8, <1>9 DEF IInv

\* A thread's steps move nothing but the thread, which never leaves "off".
LEMMA ThreadMoves ==
    ASSUME NEW f \in Frontends, Thread(f), MountTypes
    PROVE  /\ serving[f] # "off"
           /\ \E s \in Serving : serving' = [serving EXCEPT ![f] = s]
           /\ UNCHANGED <<available, vfs, service, sessions, flow>>
<1>1. CASE ServeRequest(f)
  <2>1. Asks(f) \subseteq {"own", "looking", "reading"}
    BY DEF Asks, FuseHandlers, WinFspHandlers, CloudFilesHandlers, Frontends
  <2>2. PICK ask \in Asks(f) :
          serving' = [serving EXCEPT ![f] = IF ask = "own" THEN After(f) ELSE ask]
    BY <1>1 DEF ServeRequest, Request
  <2>3. (IF ask = "own" THEN After(f) ELSE ask) \in Serving
    BY <2>1 DEF After, Serving
  <2>4. serving[f] = "wait" /\ UNCHANGED <<available, vfs, service, sessions, flow>>
    BY <1>1 DEF ServeRequest, Request
  <2> QED
    BY <2>2, <2>3, <2>4
<1>2. CASE FinishRequest(f)
  BY <1>2 DEF FinishRequest, Answer, Inside, After, Serving
<1>3. CASE LeaveLoop(f)
  BY <1>3 DEF LeaveLoop, Leave, Serving
<1> QED
  BY <1>1, <1>2, <1>3 DEF Thread

LEMMA ThreadKeepsIInv == IInv /\ (\E f \in Frontends : Thread(f)) => IInv'
<1> SUFFICES ASSUME IInv, NEW f \in Frontends, Thread(f) PROVE IInv'
  OBVIOUS
<1>1. /\ serving[f] # "off"
      /\ UNCHANGED <<available, vfs, service, sessions, flow>>
  BY ThreadMoves DEF IInv
<1>2. PICK s \in Serving : serving' = [serving EXCEPT ![f] = s]
  BY ThreadMoves DEF IInv
<1> USE DEF IInv, sessions, flow
<1>3. MountTypes'
  BY <1>1, <1>2 DEF MountTypes
<1>4. OnCurrent'
  BY <1>1, <1>2 DEF OnCurrent, MountTypes
<1>5. Leftovers' /\ Rebuilding' /\ Stopping' /\ Mounting' /\ OneWriter'
  BY <1>1 DEF Leftovers, Rebuilding, Stopping, Mounting, OneWriter
<1> QED
  BY <1>3, <1>4, <1>5

LEMMA OthersKeepIInv == IInv /\ UNCHANGED <<mountVars, flow>> => IInv'
<1> SUFFICES ASSUME IInv, UNCHANGED <<mountVars, flow>> PROVE IInv'
  OBVIOUS
<1> USE DEF IInv, Frontends, mountVars, sessions, flow
<1>1. MountTypes'
  BY DEF MountTypes, Stopping, Rebuilding, Mounting, Serving, NoMount
<1>2. OnCurrent' /\ Leftovers'
  BY DEF MountTypes, OnCurrent, Leftovers, Stopping, Mounting, Rebuilding
<1>3. Rebuilding' /\ Stopping'
  BY DEF MountTypes, OnCurrent, Leftovers, Rebuilding, Stopping, Mounting
<1>4. Mounting' /\ OneWriter'
  BY DEF MountTypes, OnCurrent, Leftovers, Mounting, OneWriter, Stopping
<1> QED
  BY <1>1, <1>2, <1>3, <1>4

LEMMA NextKeepsIInv == IInv /\ [Next]_vars => IInv'
<1> SUFFICES ASSUME IInv, [Next]_vars PROVE IInv'
  OBVIOUS
<1>1. CASE Window
  <2>1. CASE StopMounts
    BY <2>1, StopMountsKeepsIInv
  <2>2. CASE LogOut \/ ClearCache \/ Browse
    BY <2>2, OthersKeepIInv DEF LogOut, ClearCache, Browse
  <2> QED
    BY <1>1, <2>1, <2>2, LoginKeepsIInv, StartMountKeepsIInv DEF Window
<1>2. CASE Callback
  BY <1>2, SaveLoginKeepsIInv, NewServiceKeepsIInv, NewVfsKeepsIInv, MountKeepsIInv,
     StopsDoneKeepsIInv, StopSessionKeepsIInv, SessionStoppedKeepsIInv DEF Callback
<1>3. CASE Query \/ SendQuery \/ QueryAnswered
  BY <1>3, OthersKeepIInv DEF Query, SendQuery, QueryAnswered
<1>4. CASE \E f \in Frontends : Thread(f)
  BY <1>4, ThreadKeepsIInv
<1>5. CASE UNCHANGED vars
  BY <1>5, OthersKeepIInv DEF vars
<1> QED
  BY <1>1, <1>2, <1>3, <1>4, <1>5 DEF Next

THEOREM Invariance == Spec => []IInv
<1>1. Init => IInv
  BY InitIInv
<1>2. IInv /\ [Next]_vars => IInv'
  BY NextKeepsIInv
<1> QED
  BY <1>1, <1>2, PTL DEF Spec

\* No mount's thread is ever inside a VFS that has been replaced, or whose cloud
\* service has: rebuild_cloud_vfs may free both.
THEOREM NeverDangling == Spec => []NoDangling
<1>1. IInv => NoDangling
  BY DEF IInv, OnCurrent, Rebuilding, NoDangling, Inside, Serving, MountTypes
<1> QED
  BY <1>1, Invariance, PTL

\* CloudMountManager::statuses and what it keeps of sessions that are gone are
\* true of the sessions there are.
THEOREM StatusesAreTrue == Spec => []StatusesTrue
<1>1. IInv => StatusesTrue
  BY DEF IInv, Leftovers, StatusesTrue, Shown, MountTypes
<1> QED
  BY <1>1, Invariance, PTL

\* Two frontends are never writable at once.
THEOREM OnlyOneWriter == Spec => []OneWriter
<1>1. IInv => OneWriter
  BY DEF IInv
<1> QED
  BY <1>1, Invariance, PTL

\* The table by which a second writable frontend is refused is true, and there
\* is no second one.
THEOREM WritersAreKnown == Spec => []WritersKnown
<1>1. StatusesTrue /\ OneWriter => WritersKnown
  BY DEF WritersKnown
<1> QED
  BY <1>1, StatusesAreTrue, OnlyOneWriter, PTL

-----------------------------------------------------------------------------
(* Accounts. *)

AccountTypes ==
    /\ account \in Account \cup {Nobody} /\ asker \in Account \cup {Nobody}
    /\ jar \in SUBSET Account /\ knows \in SUBSET Account /\ cache \in SUBSET Account
    /\ asking \in [Frontends -> Account \cup {Nobody}]
    /\ halfway \in BOOLEAN /\ crossed \in BOOLEAN

\* What a request asks with is remembered only while the request is under way.
Asked ==
    /\ \A f \in Frontends : asking[f] # Nobody => Inside(f)
    /\ ~querying => asker = Nobody

\* Whose anything is that is in use, or may come to be.
InUse ==
    jar \cup knows \cup cache
        \cup (({account, asker} \cup {asking[f] : f \in Frontends}) \ {Nobody})

OneInUse == ~crossed /\ ~halfway => \A a, b \in InUse : a = b

\* Where the login came over another's cookies, the cache is the account's own as
\* long as those are gone.
OwnCache ==
    ~halfway /\ account # Nobody /\ jar \subseteq {account} =>
        /\ cache \subseteq {account} /\ knows \subseteq {account}
        /\ \A f \in Frontends : asking[f] \in {account, Nobody}

\* From the login to the new VFS nothing of another account comes in.
Renewing ==
    /\ ui \in {"login", "rebuild", "rebuild vfs"} =>
          /\ account # Nobody
          /\ ~crossed =>
                /\ jar \subseteq {account} /\ asker \in {account, Nobody}
                /\ NothingMounted \/ Served \subseteq {account, Nobody}
    /\ ui = "rebuild vfs" => cache = {} /\ knows = {account}

Apart == AccountTypes /\ Asked /\ OneInUse /\ OwnCache /\ Renewing

LEMMA InitApart == Init => Apart
<1> SUFFICES ASSUME Init PROVE Apart
  OBVIOUS
<1> USE AccountAssumption DEF Init, MountInit
<1>1. AccountTypes /\ Asked /\ Renewing
  BY DEF AccountTypes, Asked, Inside, Renewing
<1>2. \A f \in Frontends : asking[f] = Nobody
  OBVIOUS
<1>3. OneInUse /\ OwnCache
  BY <1>2 DEF OneInUse, InUse, OwnCache
<1> QED  BY <1>1, <1>3 DEF Apart

\* What an answer brings was asked for as somebody who is in use already.
LEMMA BroughtApart ==
    ASSUME Apart, NEW a \in Account,
           account' = account, asker' = asker, halfway' = halfway, crossed' = crossed,
           knows' \in {knows, knows \cup {a}}, jar' \in {jar, jar \cup {a}},
           cache' \in {cache, cache \cup {a}}, AccountTypes',
           \A f \in Frontends : asking'[f] \in {asking[f], a, Nobody},
           a \in jar \cup knows \/ \E f \in Frontends : asking[f] = a
    PROVE  OneInUse' /\ OwnCache'
<1>1. a \in InUse
  BY AccountAssumption DEF InUse
<1>2. InUse' \subseteq InUse
  BY <1>1 DEF InUse
<1>3. OneInUse'
  BY <1>2 DEF Apart, OneInUse
<1>4. OwnCache'
  BY AccountAssumption DEF Apart, OwnCache, AccountTypes
<1> QED  BY <1>3, <1>4

\* What only ends requests, or forgets bytes, leaves less in use.
LEMMA LessApart ==
    ASSUME Apart, account' \in {account, Nobody},
           jar' = jar \/ (account' = Nobody /\ jar' = {}),
           asker' = asker \/ asker' = Nobody \/ asker' \in jar,
           halfway' = halfway, crossed' = crossed, knows' = knows,
           cache' \in {cache, {}}, \A f \in Frontends : asking'[f] \in {asking[f], Nobody}
    PROVE  OneInUse' /\ OwnCache'
<1>1. InUse' \subseteq InUse
  BY DEF InUse
<1>2. OneInUse'
  BY <1>1 DEF Apart, OneInUse
<1>3. OwnCache'
  BY DEF Apart, OwnCache
<1> QED  BY <1>2, <1>3

\* The window: accounts, the cache and the browser.
LEMMA LogInApart ==
    ASSUME IInv, Apart, NEW a \in Account, LogIn(a)
    PROVE  Apart'
<1>1. /\ ui' = "login" /\ account' = a /\ jar' = jar \cup {a} /\ halfway' = TRUE
      /\ crossed' = \/ querying \/ ~(jar \subseteq {a})
                    \/ ~NothingMounted /\ ~(Served \subseteq {a, Nobody})
      /\ UNCHANGED <<serving, mounted, knows, cache, asking, querying, asker>>
  BY DEF LogIn, mountVars, sessions, bytes, others
<1>2. AccountTypes'
  BY <1>1 DEF Apart, AccountTypes
<1>3. Asked' /\ OneInUse' /\ OwnCache'
  BY <1>1 DEF Apart, Asked, Inside, OneInUse, OwnCache
<1>4. Renewing'
  BY <1>1, AccountAssumption DEF Apart, Asked, Renewing, NothingMounted, Served
<1> QED  BY <1>2, <1>3, <1>4 DEF Apart

LEMMA BrowseApart == ASSUME IInv, Apart, Browse PROVE Apart'
<1>1. PICK a \in Account : /\ a \in jar \cup knows /\ knows' = knows \cup {a}
                           /\ jar' \in {jar, jar \cup {a}}
                           /\ cache' \in {cache, cache \cup {a}}
  BY AccountAssumption DEF Browse, AsksAs, Brings
<1>2. /\ UNCHANGED <<serving, account, asking, querying, asker, halfway, crossed>>
      /\ ui' = "idle"
  BY DEF Browse, mountVars, flow, others, past
<1>3. AccountTypes'
  BY <1>1, <1>2 DEF Apart, AccountTypes
<1>4. OneInUse' /\ OwnCache'
  BY <1>1, <1>2, <1>3, BroughtApart
<1>5. Asked' /\ Renewing'
  BY <1>2 DEF Apart, Asked, Inside, Renewing
<1> QED  BY <1>3, <1>4, <1>5 DEF Apart

LEMMA WindowApart ==
    ASSUME IInv, Apart, Window
    PROVE  Apart'
<1>1. CASE LogOut \/ ClearCache \/ StopMounts \/ \E f \in Frontends, w \in BOOLEAN : StartMount(f, w)
  <2>1. /\ UNCHANGED <<serving, knows, asking, querying, asker, halfway, crossed>>
        /\ ui' \in {"idle", "mount", "unmount"}
        /\ \/ account' = Nobody /\ jar' = {}
           \/ UNCHANGED <<account, jar>>
        /\ cache' \in {cache, {}}
    BY <1>1 DEF LogOut, JarAfterLogout, ClearCache, StopMounts, StartMount, RefuseStart,
                mountVars, flow, who, bytes, others, past
  <2>2. AccountTypes' /\ Asked' /\ Renewing'
    BY <2>1 DEF Apart, AccountTypes, Asked, Inside, Renewing
  <2>3. /\ \A f \in Frontends : asking'[f] \in {asking[f], Nobody}
        /\ jar' = jar \/ (account' = Nobody /\ jar' = {})
        /\ account' \in {account, Nobody}
    BY <2>1
  <2>4. OneInUse' /\ OwnCache'
    BY <2>1, <2>3, LessApart
  <2> QED  BY <2>2, <2>4 DEF Apart
<1> QED  BY <1>1, LogInApart, BrowseApart DEF Window

LEMMA NewServiceApart == ASSUME IInv, Apart, NewService PROVE Apart'
<1>1. /\ UNCHANGED <<serving, account, jar, asking, querying, asker, halfway, crossed>>
      /\ ui = "rebuild" /\ ui' = "rebuild vfs" /\ cache' = {}
      /\ knows' = {account} \ {Nobody} /\ mounted' = mounted /\ todo = {}
  BY DEF NewService, AllStopped, who, others, past, sessions
<1>2. account \in Account
  BY <1>1 DEF Apart, Renewing, AccountTypes
<1>3. \A f \in Frontends : mounted[f] = 0 /\ asking[f] = Nobody
  BY <1>1 DEF IInv, Rebuilding, OnCurrent, Apart, Asked, Inside
<1>4. AccountTypes' /\ Asked'
  BY <1>1, <1>2 DEF Apart, AccountTypes, Asked, Inside
<1>5. Renewing'
  BY <1>1, <1>2, <1>3, AccountAssumption DEF Apart, Renewing, NothingMounted
<1>6. OwnCache' /\ OneInUse'
  <2>1. ~crossed => jar \subseteq {account} /\ asker \in {account, Nobody}
    BY <1>1 DEF Apart, Renewing
  <2>2. ~crossed => InUse' \subseteq {account}
    BY <1>1, <1>3, <2>1 DEF InUse
  <2> QED  BY <1>1, <1>3, <2>2 DEF OwnCache, OneInUse
<1> QED  BY <1>4, <1>5, <1>6 DEF Apart

LEMMA NewVfsApart == ASSUME IInv, Apart, NewVfs PROVE Apart'
<1>1. /\ UNCHANGED <<serving, account, jar, knows, cache, asking, querying, asker, crossed>>
      /\ ui = "rebuild vfs" /\ ui' = "idle" /\ halfway' = FALSE
  BY DEF NewVfs, who, bytes, others
<1>2. /\ \A f \in Frontends : asking[f] = Nobody
      /\ cache = {} /\ knows = {account}
      /\ ~crossed => jar \subseteq {account} /\ asker \in {account, Nobody}
  BY <1>1 DEF IInv, Rebuilding, OnCurrent, Apart, Asked, Inside, Renewing
<1>3. AccountTypes' /\ Asked' /\ Renewing'
  BY <1>1 DEF Apart, AccountTypes, Asked, Inside, Renewing
<1>4. OwnCache'
  BY <1>1, <1>2 DEF OwnCache
<1>5. OneInUse'
  <2>1. ~crossed => InUse' \subseteq {account}
    BY <1>1, <1>2 DEF InUse
  <2> QED  BY <1>1, <2>1 DEF OneInUse
<1> QED  BY <1>3, <1>4, <1>5 DEF Apart

LEMMA CallbackApart ==
    ASSUME IInv, Apart, Callback
    PROVE  Apart'
<1>1. CASE Mount \/ SaveLogin \/ StopsDone
           \/ (\E f \in Frontends : StopSession(f) \/ SessionStopped(f))
  <2> DEFINE Mild ==
               /\ UNCHANGED <<account, jar, knows, cache, asking, querying, asker, halfway, crossed>>
               /\ ui' # "rebuild vfs"
               /\ ui' \in {"login", "rebuild"} => ui \in {"login", "rebuild"}
               /\ \/ UNCHANGED serving
                  \/ \E f \in Frontends : /\ mounted[f] = 0
                                          /\ serving' = [serving EXCEPT ![f] = "wait"]
  <2>1. Mild
    <3>1. CASE Mount
      BY <3>1 DEF Mount, SessionStarted, mountVars, who, bytes, others, past, IInv, Mounting
    <3>2. CASE SaveLogin \/ StopsDone
      BY <3>2 DEF SaveLogin, StopsDone, mountVars, flow, who, bytes, others, past
    <3>3. ASSUME NEW f \in Frontends, StopSession(f) \/ SessionStopped(f)
          PROVE  Mild
      <4>1. f \in todo /\ UNCHANGED <<ui, serving>>
        BY <3>3 DEF StopSession, SessionStopped, Ask, Stopped, flow, IInv, Stopping, Frontends
      <4> QED  BY <3>3, <4>1 DEF StopSession, SessionStopped, who, bytes, others, past,
                                 IInv, Stopping
    <3> QED  BY <1>1, <3>1, <3>2, <3>3
  <2>2. AccountTypes'
    BY <2>1 DEF Apart, AccountTypes
  <2>3. Asked'
    BY <2>1 DEF Apart, Asked, Inside, IInv, OnCurrent, MountTypes
  <2>4. OneInUse' /\ OwnCache'
    <3>1. \A f \in Frontends : asking'[f] \in {asking[f], Nobody}
      BY <2>1
    <3> QED  BY <2>1, <3>1, LessApart
  <2>5. ui' \in {"login", "rebuild"} => (NothingMounted => NothingMounted')
    BY <1>1 DEF Mount, SaveLogin, StopsDone, StopSession, SessionStopped, Ask, Stopped,
                mountVars, sessions, NothingMounted, IInv, MountTypes
  <2>6. Renewing'
    BY <2>1, <2>5 DEF Apart, Renewing, Served
  <2> QED  BY <2>2, <2>3, <2>4, <2>6 DEF Apart
<1> QED  BY <1>1, NewServiceApart, NewVfsApart DEF Callback

LEMMA QueryApart ==
    ASSUME Apart, Query \/ SendQuery \/ QueryAnswered
    PROVE  Apart'
<1>0. UNCHANGED <<serving, mounted, ui, account, knows, cache, asking, halfway, crossed>>
  BY DEF Query, SendQuery, QueryAnswered, mountVars, sessions, flow, who, bytes, past
<1>1. CASE Query \/ SendQuery
  <2>1. /\ UNCHANGED jar
        /\ \/ asker' = asker /\ querying' = TRUE
           \/ querying' = TRUE /\ asker' \in jar
    BY <1>1 DEF Query, SendQuery, who
  <2>2. AccountTypes' /\ Asked' /\ Renewing'
    BY <1>0, <2>1 DEF Apart, AccountTypes, Asked, Inside, Renewing, NothingMounted, Served
  <2>3. OneInUse' /\ OwnCache'
    <3>1. \A f \in Frontends : asking'[f] \in {asking[f], Nobody}
      BY <1>0
    <3> QED  BY <1>0, <2>1, <3>1, LessApart
  <2> QED  BY <2>2, <2>3 DEF Apart
<1>2. CASE QueryAnswered
  <2>1. asker' = Nobody /\ jar' \in {jar, jar \cup ({asker} \ {Nobody})}
    BY <1>2 DEF QueryAnswered, Brings
  <2>2. AccountTypes' /\ Asked' /\ Renewing'
    BY <1>0, <2>1 DEF Apart, AccountTypes, Asked, Inside, Renewing, NothingMounted, Served
  <2>3. InUse' \subseteq InUse
    BY <1>0, <2>1 DEF InUse
  <2>4. OneInUse'
    BY <1>0, <2>3 DEF Apart, OneInUse
  <2>5. OwnCache'
    BY <1>0, <2>1 DEF Apart, OwnCache
  <2> QED  BY <2>2, <2>4, <2>5 DEF Apart
<1> QED  BY <1>1, <1>2

\* A mount's thread asks as the service does at the moment; what comes is kept, and
\* its cookies go into the jar.
LEMMA ThreadApart ==
    ASSUME IInv, Apart, NEW f \in Frontends, Thread(f)
    PROVE  Apart'
<1>1. /\ UNCHANGED <<mounted, ui, account, querying, asker, halfway, crossed>>
      /\ \E s \in Serving : serving' = [serving EXCEPT ![f] = s]
      /\ serving[f] # "off"
  BY ThreadMoves DEF IInv, Thread, ServeRequest, FinishRequest, LeaveLoop, flow, who, others,
                     past, sessions
<1>2. \A g \in Frontends \ {f} : serving'[g] = serving[g]
  BY <1>1 DEF IInv, MountTypes
<1>3. mounted[f] # 0 /\ ui # "rebuild vfs"
  BY <1>1 DEF IInv, OnCurrent, Rebuilding
<1> DEFINE Nothing == UNCHANGED <<jar, knows, cache>> /\ asking' = [asking EXCEPT ![f] = Nobody]
           Asks1(a) == /\ a \in jar \cup knows /\ knows' = knows \cup {a}
                       /\ UNCHANGED <<jar, cache>> /\ Inside(f)'
                       /\ asking' = [asking EXCEPT ![f] = a]
           Gets(a) == /\ asking[f] = a /\ knows' = knows /\ jar' \in {jar, jar \cup {a}}
                      /\ cache' \in {cache, cache \cup {a}}
                      /\ asking' = [asking EXCEPT ![f] = Nobody]
<1>4. Nothing \/ \E a \in Account : Asks1(a) \/ Gets(a)
  <2>1. CASE ServeRequest(f)
    <3>1. serving[f] = "wait" /\ UNCHANGED <<jar, cache>>
      BY <2>1 DEF ServeRequest, Request, who
    <3>2. asking = [asking EXCEPT ![f] = Nobody]
      BY <3>1 DEF Apart, Asked, AccountTypes, Inside
    <3> QED  BY <2>1, <3>1, <3>2 DEF ServeRequest, AsksAs, Inside
  <2>2. CASE LeaveLoop(f)
    <3>1. serving[f] = "wait" /\ UNCHANGED <<jar, knows, cache, asking>>
      BY <2>2 DEF LeaveLoop, Leave, who, bytes
    <3>2. asking = [asking EXCEPT ![f] = Nobody]
      BY <3>1 DEF Apart, Asked, AccountTypes, Inside
    <3> QED  BY <3>1, <3>2
  <2>3. CASE FinishRequest(f)
    <3>1. /\ asking' = [asking EXCEPT ![f] = Nobody] /\ knows' = knows
          /\ jar' \in {jar, jar \cup ({asking[f]} \ {Nobody})}
          /\ cache' \in {cache, cache \cup ({asking[f]} \ {Nobody})}
      BY <2>3 DEF FinishRequest, Brings
    <3>2. asking[f] \in Account \cup {Nobody}
      BY DEF Apart, AccountTypes
    <3>3. CASE asking[f] = Nobody
      BY <3>1, <3>3
    <3>4. CASE asking[f] \in Account
      BY <3>1, <3>4, AccountAssumption
    <3> QED  BY <3>2, <3>3, <3>4
  <2> QED  BY <2>1, <2>2, <2>3 DEF Thread
<1>5. CASE Nothing
  <2>1. AccountTypes' /\ Asked'
    BY <1>1, <1>2, <1>5 DEF Apart, AccountTypes, Asked, Inside
  <2>2. \A g \in Frontends : asking'[g] \in {asking[g], Nobody}
    BY <1>5 DEF Apart, AccountTypes
  <2>3. OneInUse' /\ OwnCache'
    BY <1>1, <1>5, <2>2, LessApart
  <2>4. Renewing'
    BY <1>1, <1>3, <1>5, <2>2 DEF Apart, Renewing, NothingMounted, Served
  <2> QED  BY <2>1, <2>3, <2>4 DEF Apart
<1>6. ASSUME NEW a \in Account, Asks1(a) \/ Gets(a) PROVE Apart'
  <2>1. AccountTypes'
    BY <1>1, <1>6 DEF Apart, AccountTypes
  <2>2. Asked'
    BY <1>1, <1>2, <1>6 DEF Apart, AccountTypes, Asked, Inside
  <2>3. /\ \A g \in Frontends : asking'[g] \in {asking[g], a, Nobody}
        /\ knows' \in {knows, knows \cup {a}} /\ jar' \in {jar, jar \cup {a}}
        /\ cache' \in {cache, cache \cup {a}}
        /\ a \in jar \cup knows \/ \E g \in Frontends : asking[g] = a
    BY <1>6 DEF Apart, AccountTypes
  <2>4. OneInUse' /\ OwnCache'
    BY <1>1, <2>1, <2>3, BroughtApart
  <2>5. Renewing'
    <3> SUFFICES ASSUME ui \in {"login", "rebuild"}, ~crossed
                 PROVE  jar' \subseteq {account} /\ Served' \subseteq {account, Nobody}
      BY <1>1, <1>3 DEF Apart, Renewing
    <3>1. jar \subseteq {account} /\ Served \subseteq {account, Nobody}
      BY <1>3 DEF Apart, Renewing, NothingMounted
    <3>2. a = account
      BY <2>3, <3>1, AccountAssumption DEF Served
    <3> QED  BY <2>3, <3>1, <3>2 DEF Served
  <2> QED  BY <2>1, <2>2, <2>4, <2>5 DEF Apart
<1> QED  BY <1>4, <1>5, <1>6

LEMMA NextApart == IInv /\ Apart /\ [Next]_vars => Apart'
<1> SUFFICES ASSUME IInv, Apart, [Next]_vars PROVE Apart'
  OBVIOUS
<1>1. CASE UNCHANGED vars
  <2>1. UNCHANGED <<serving, mounted, ui, account, jar, knows, cache, asking, querying, asker,
                    halfway, crossed>>
    BY <1>1 DEF vars, mountVars, sessions, flow, who, bytes, others, past
  <2>2. AccountTypes' /\ Asked'
    BY <2>1 DEF Apart, AccountTypes, Asked, Inside
  <2>3. OneInUse' /\ OwnCache'
    BY <2>1 DEF Apart, OneInUse, InUse, OwnCache
  <2>4. Renewing'
    BY <2>1 DEF Apart, Renewing, NothingMounted, Served
  <2> QED  BY <2>2, <2>3, <2>4 DEF Apart
<1> QED
  BY <1>1, WindowApart, CallbackApart, QueryApart, ThreadApart DEF Next

\* After a whole login that did not come over another account's cookies, nor while
\* a query or mounts of another ran, the cookies in memory are of the one account,
\* through logouts and whatever a mount or a query brings back after them; and the
\* cached bytes are the account's as long as no other has left its cookies, for
\* every set of accounts and any number of logins.
THEOREM AlwaysApart == Spec => []AccountsApart
<1>1. Apart => AccountsApart
  BY DEF Apart, AccountsApart, CookiesAreOwn, CacheIsOwn, OneInUse, InUse, OwnCache
<1>2. Spec => []Apart
  BY Invariance, InitApart, NextApart, PTL DEF Spec
<1> QED  BY <1>1, <1>2, PTL
=============================================================================
