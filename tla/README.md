# UBAANext: a verification project

UBAANext is a C++ client for the systems of one university: a unified login, a dozen
campus services (courses, seats, venues, homework, evaluation, sports clock-ins, a cloud
disk), a cloud drive presented as a file system, and TD, an automatic check-in tool that
runs for days. This directory models its stateful parts in TLA+, checks the models with
TLC on small instances, and proves what matters most with TLAPS for all instances.

Paths below are relative to the repository. Contents: [the system](#1-the-system),
[the models](#2-the-models), [the runs](#3-the-runs), [fairness](#4-fairness),
[the proofs](#5-the-proofs), [where code and documents disagree](#6-where-code-and-documents-disagree),
[what else was seen](#7-what-else-the-modelling-showed), [what is left out](#8-what-is-not-modelled),
[the plan](#9-the-plan).

## 1. The system

The core library (`core/`) holds services, the login, protocols, parsers, TD and CloudVfs
and knows no operating system. The platform layer (`platform/`) supplies HTTP (curl),
cryptography (OpenSSL), TCP, secure stores, FUSE and WinFsp. Three programs use them: the
CLI (`apps/cli`), the desktop program and the runtime it shares with others
(`apps/desktop`, `apps/runtime`), and a C interface (`bindings/c`).

```
  CLI, desktop, C interface
        |          \
  runtime context   TD commands --- users.json, state.json --- TD server (TCP)
   |      |     \
 mounts   |      session file (one per user of the machine)
   |      |            |
  CloudVfs             login ---- unified login
   |                   |
   cloud service -- campus services ---- campus systems (HTTP)
```

### Parts that keep state

| Part | State | Operations | What makes it hard | What makes it correct |
|---|---|---|---|---|
| TD rules and scheduler<br>`TdSchedulerService.cpp`, `TdService.cpp`, `TdStore.cpp`, `cmd_td_*` of `apps/cli/src/main.cpp` | `users.json`, `state.json` (status, rounds, due time, next action, count, date per user); the server's record | `td scheduler watch`, `once`, `clear-errors`; `td run --once`; `td count --refresh`; adding and deleting users | processes share two files without a lock and work on copies during network calls; the server may record a check-in whose answer is lost; a kill between truncation and write; dates and windows | a record claims only what the server recorded; exits follow entrances; a user at the limit is left alone; errors stay until lifted; due actions are handled |
| Cloud VFS index<br>`CloudVfs.cpp` | nodes by docid, docid by path, cached listings by docid | lookup, list, refresh, mkdir, rename, remove, upload | other clients change the drive at any moment; an answer that never arrives; one deletion must clean three maps at every depth | the maps agree; cached listings lead somewhere; own changes are seen; every call returns |
| Upload queue and write handles<br>`CloudVfs.cpp` | tasks, open handles, the cached listing of the target | enqueue, open, write, flush, close, discard, process, retry, cancel, clean up | an overwriting upload is three requests; each may be lost; others act in between; a retry meets what the last attempt left | nothing deleted is forgotten; one copy; the file holds what was written; the queue's statuses are honest |
| Session file, login, logout<br>`AuthService.cpp`, `SessionManager.cpp`, the secure stores, `CurlCookieStore.cpp` | the file; in each context a copy of it and a cookie jar | login, relogin, logout, queries, exit | a desktop program and CLI runs overlap; whole-file writes from old copies; failed and torn writes; a login that fails half way | a logout lasts; a login lasts; session and cookies belong together |
| Downstream sessions<br>the services that change something; `AuthorizedDownstreamRequestExecutor.cpp`, `SessionGuards.cpp`, `WriteOperationGate.cpp` | a token per service, in the object or in the cookie jar | confirm, log in, send, retry after an expiry, report | a token may be withdrawn between any two requests; an expiry is recognised by words; a command of several requests | no write happens twice; a report is true; one expiry is survived; every command ends |
| Cloud mounts<br>`CloudMountManager.cpp`, `LinuxFuseMount.cpp`, `WinFspMount.cpp`, `CloudFilesMountAdapter.cpp` | sessions and statuses by frontend; a thread per session | start, stop, status, stop all | the thread of a frontend against the `stop()` that joins it; a start that replaces a session and fails | no thread uses a destroyed VFS; the status is true; one writer; `stop()` ends |
| Content cache<br>`CloudVfs.cpp` | byte ranges by docid and revision, by age, and a count of their bytes | read, trim, remove a document, clear | the revision of a range is that of a listing, its bytes are the drive's; entries go in four ways | what is served is what was listed; the count is exact and bounded |
| Cloud disk transfers<br>`CloudService.cpp`, `AppRuntime.cpp` | token, parts of an upload, offset of a download | sign in, renew, download in ranges, upload in parts | expiry, loss and short answers in every request; files change under a download | a file appears whole or not at all; a download reported as done is whole; a transfer ends |
| Runtime context and desktop program<br>`AppRuntime.cpp`, `apps/desktop` | account, cookies, VFS, content cache, mounts | login, logout, mount, clear, download, query | a query's thread, the mounts' threads and the window's on one context; parts that outlive a logout | nothing of one account is in use under another |
| Campus queries<br>sixteen services, `ByxtSession.cpp`, `AppBuaaSession.cpp`, `RedirectNavigator.cpp` and the parsers | a session or token per system; the judge's selected course | 47 query commands, the todo list, the batch of assignments | an expiry in any request, recognised differently by each service; refusals and other pages in the place of answers; loops over pages and courses | an empty list is what the system said; one ended session is overcome; rows stand where they belong; every command ends |
| Command line<br>`apps/cli/src/main.cpp`, `CommandHandlers.cpp`, `CliConfig.cpp` | the configuration file, the modes of the session and the credentials | 124 commands | a help table, a table of commands with a session and a check in each handler, all written by hand; a configuration rewritten as a whole | the help suffices; no false expiry; modes stay as set |
| Classroom recordings<br>`LiveService.cpp`, `cmd_live_download` | a token; up to three files per recording | list, detail, download | many requests and files per recording, each of which may fail | the status is what is on disk; nothing is overwritten unasked |
| TD protocol and transport<br>`TdClient.cpp`, `TdTcpTransport.cpp` | a connection | one exchange | timeouts in every call of the socket | the exchange ends |
| Memory cache, cookie jar, Secret Service, plain file | maps | get, put, expire | few | expired entries are never returned |

The rest converts: models, output, cryptography, addresses. `PROJECT.json` lists every part with its files, and every hazard at its line.

### How the parts act on each other

* Every CLI run builds a context: it loads the session file, works, and may write all of
  it back. The desktop program holds one for hours and starts CLI runs beside itself.
* Services take cookies of the login from the context's jar and obtain tokens of their
  own. Two of them, SRS and the cloud disk, put theirs into the jar, so it outlives them.
* CloudVfs calls the cloud service and nothing calls it back. It has no lock; one thread
  is expected. A mount calls it from the thread of FUSE, WinFsp or Cloud Files. Index, contents and
  uploads share the nodes: a listing replaces both the nodes and the contents kept of them.
* The runtime context owns account, cookies, cloud service, VFS and mounts and replaces
  service and VFS at each login, after it has stopped the mounts.
* The campus services are objects of one command. They share the cookie jar, and with
  it the sessions the systems keep by cookie.
* TD shares no state with the rest. Its processes meet in two files and at the server.

## 2. The models

| Module | Stands for | Extended or used by |
|---|---|---|
| `TdRules` | the record of a user and what each outcome does to it: pure operators | `TdScheduler` |
| `TdScheduler` | the commands as processes, files, server, clock | `MCTdScheduler`, `TdSchedulerProofs` |
| `CloudTree` | the three maps of CloudVfs and what each helper does to them | `CloudIndex` |
| `CloudIndex` | the operations, the drive, the other clients | `MCCloudIndex`, `CloudIndexProofs` |
| `CloudUploads` | the queue and the handles, one request a step | `MCCloudUploads`, `CloudUploadsProofs` |
| `UploadPromise` | what the queue promises: the abstract specification | `CloudUploads`, as an instance |
| `SessionStore` | the file and the contexts that share it | `MCSessionStore`, `SessionStoreProofs` |
| `Downstream` | one changing command from the gate to its report | `MCDownstream`, `CliProofs` |
| `CloudContent` | the content cache: pure operators on its entries | `CloudTransfers` |
| `CloudTransfers` | the files of a directory, their contents in the cache, downloads and uploads request by request | `MCCloudTransfers`, `CloudTransfersProofs` |
| `CloudMounts` | the mount table and the thread of each frontend | `Desktop` |
| `Desktop` | the desktop program: account, cookies, VFS, cache, mounts, query | `MCDesktop`, `DesktopProofs` |
| `Tables` | a table put together of smaller ones, for the next and for `CliCommands` | `CampusSystems`, `CliCommands` |
| `CampusSystems` | how each campus service enters its system and reads its answers, and the requests of each query: tables | `Campus` |
| `Campus` | one query command after the other | `MCCampus`, `CampusProofs` |
| `CliCommands` | what each command of `ubaa` needs, what its help requires, which look for a session: tables | `Cli` |
| `LiveDownload` | `live download` step by step | `Cli`, `CliProofs` |
| `Cli` | one run of `ubaa` after the other | `MCCli`, `CliProofs` |
| `MC*` | model values and symmetry, nothing else | the configurations |
| `*Proofs` | the theorems and their lemmas | |

`PROJECT.json` maps each definition to the lines it stands for.

### TdRules and TdScheduler

A record has `status`, `rounds`, `date`, `due`, `next` and `count`; the texts shown to
people are dropped. `TdRules` has one operator per rule of `TdSchedulerService.cpp`
(`TodayState`, `AwaitNext`, `ExitDone`, `ExpireDue`, ...), and `TdScheduler` one action per
step between which something else can happen. A process walks through

```
off/sleep -> users -> states -> decide -> check -> upload -> ... -> truncate -> write
```

`users` and `states` read the two files into the process' own copy `mem`; `decide` takes
the next user and either settles him locally or turns to the server;
`check` is the request that checks him in or out and may bring his term count, `upload` the photo
that makes it count; `merge` is
the second reading of `state.json` that `run --once` and `count --refresh` do and a tick
does not; `truncate` and `write` are the two halves of rewriting the file, so that a
process killed between them leaves a file that does not parse (`torn`). When two
processes write at once, `overlaid` remembers whose truncation another has filled.
Ghost variables `entered`, `left`, `told` and `term` are the server's side: what it
recorded per user and date, its count, and which users' answers carried a count at
the limit.

Time is a number of slots; a slot is one poll of the watch loop. Dates and minutes are
derived from it. `Faults` chooses what may go wrong: a lost answer (recorded or not), a
refusal, a missing photo, a log that cannot be written, a kill.

### CloudTree and CloudIndex

A document id is a model value; a path is a sequence of names. The index is a record of
three partial functions, `nodes`, `byPath` and `kids`, as in the class. Each public operation is
one action, as it makes one request (`Upload` here is only its effect on the
index; its requests are in `CloudUploads`). An overwriting upload appears as `Fetch`, `Delete`, `Upload`.
Other clients create, delete, rename and move; an answer of ours may be
lost after the drive has acted. The variable `disturbed` records the worst of this, because
what can be promised depends on it. Ages of cached listings are not kept: whether a listing
is fresh enough is left open, so both branches are always explored.

### CloudUploads and UploadPromise

One directory, tasks, handles. `process_next_upload` is four steps, `Start`,
`ListTarget`, `DeleteOld` and `Send`, each a request whose failure ends the attempt and
whose answer may be lost; other clients act between them. `uploads`, `writes`, `nextTask` and
`nextHandle` are the members of the class. Ghost variables record which tasks have
stored a file, deleted one, or were cancelled. `UploadPromise` knows only statuses and stored
files. The mapping takes a task's status from the queue, `removed` for one that was
cleaned up and `none` for one not yet queued.

### SessionStore

A context is built (it loads the file), works on `data` and `jar`, and writes back. A login
is a chain of steps, `sso`, `session`, `gateway`, `cookies`, `credentials`, each of which
may fail as in `AuthService.cpp`; three of them write. A logout is `erase`, `forget`. A write
is truncation, then filling, and its context may be killed between the two. Both
stores are modelled: the Linux store reports a failed write and skips a copy that has not
changed; the Windows store reports none and skips none. A session, a jar and saved
credentials are reduced to the account they belong to. `upsets` records what
went wrong so far, so that each property says under which circumstances it holds.

### Downstream

A command of one of nine services follows a script of reads and writes. Each
request is honoured, refused, turned away for lack of a valid token, redirected, or lost.
The client reads the answer as the code does, which includes mistaking a failure for an expiry
because of its words (`misread`). Tokens may be withdrawn between any two steps, without
bound. The object lives one command; the two token cookies survive it.

### CloudContent and CloudTransfers

One directory of files, as long as they have units. Bytes are not told apart one by one: a slice
says from which revision and from where in the file it was sent, and how long it is. `Entry`
adds what the cache was told the slice is, so that a difference between the two can be seen.
`CloudTransfers` has the nodes CloudVfs has listed, the cache, and the one transfer of the
desktop program: a download is a read per step (`ReadsChunk`, `ReadsNothing`, `DownloadFails`, `DownloadDone`), an
upload a request per step (`Check`, `Fast`; `Begin`, `Put`, `End`; `InitMulti`, `Authorise`,
`PutPart`, `PartsSent`, `Complete`, `Join`, `Finish`). A request is answered, fails undone, or fails after the
drive has acted. Opening the drive anew (`LoadRoot`) drops the nodes and not their contents, which the listing
after it does not find; `stray` remembers them. The drive may send less than a range, or, when it takes no ranges, the start of the
file. Mounts read, list and remove, and other clients write and delete, between any two steps. How a request is sent
again with a new token is in `Downstream`.

### CloudMounts and Desktop

`CloudMounts` has the sessions and kept statuses of `CloudMountManager`, and for each frontend where
its thread is: off, waiting in the kernel, looking something up in the VFS, or reading
through it. `Desktop` adds the owner. The window's thread runs one callback at a time, step by
step: a login is `LogIn`, `SaveLogin`, a stop per mount, `NewService`, `NewVfs`. VFS and service are numbered
by rebuild, so that a thread inside an old one is seen. Cookies and cached bytes are reduced to whose they are, and so is what
the cloud service signs in with (`knows`: the password it was built with and the tokens it got, `CloudService::token`). A look or a
read of a mount that goes to the drive, and a command of the browser (`Browse`), ask as an account of the jar or as one the
service knows (`AsksAs`), and their answers may put its cookies into the jar (`Brings`), whoever is logged in by then.
The campus query runs on a thread of its own, as in `apps/desktop/src/main.cpp:457`.

### CampusSystems and Campus

A system's answer is one of ten kinds: rows, none, three ways of being turned away, and five kinds of
trouble. For each service a table gives the outcomes and the answers that lead to each
(`CourseReading`, `JudgeReading`, ...), another how its session is entered (`ByxtEnter`, ...), and
`Scripts` the requests each command makes. `Campus` runs a command: for each request it
enters if it must, asks, may renew once, and goes on, ends, or passes over the failure as its
service does. The todo list and the batch are commands of several parts; the batch keeps one service object, and with it
what that believes of its session, for all of them (`OneService`). The systems end
sessions, the campus login may end, and another program may select a course at the judge.

### CliCommands, LiveDownload and Cli

`CliCommands` transcribes three tables the code keeps apart: what each handler demands, what
the help calls required, and for which commands and options a session is looked for. `Cli` is a run
of the program: parse, read configuration and session, choose the mode, refuse or
go on, ask or log in or save, exit code. `LiveDownload` is the one command that writes several files, step
by step; each file is absent, old, new or torn. While a run saves the configuration, another may read it and write it back, with its
mode or another key set (`OtherReads`, `OtherOpens`, `OtherWritten`, `OtherFails`); `outdated` marks a copy that was read before the
other set the mode. A run that is sent to log in keeps the reason (`why`, `MayRebuff`): its login, a system that turns it away in its
own right, the token of the recordings site, a password that is not saved. What the session file holds, and how a request is repeated, is in `SessionStore`
and `Downstream`; here a session is the mode it was opened in.

## 3. The runs

| Run | States | What it asks |
|---|---|---|
| `td_race` | 3.1 M | Two ticks side by side, or a tick beside one other command, with edits of users, lost answers and kills: is anything claimed or sent that the server's records do not bear out (`NothingInvented`: `CompletedIsEarned`, `NoPhantomRounds`, `ExitAfterEntrance`), and is a damaged file ever overwritten blindly (`DamageStands`)? |
| `td_alone` | 1.8 M | One command at a time with lost answers, refusals, missing photos and log failures: does each exit have its entrance (`RoundsPaired`), is a limit remembered (`NoCheckAfterLimit`), does an error stand (`ErrorHeld`)? |
| `td_day` | 266 k | A day with two windows: neither too many rounds nor too fast (`RoundsInTime`: `NoExtraRounds`, `DayHoldsItsRounds`), and each due action handled in the end (`DueIsHandled`, a liveness property). |
| `cloud_index_shared` | 140 k | Own operations, other clients and lost answers: `IndexSound` (`PathsPointToNodes` always; `IndexIsTree`, `ListingResolves` and `CallsReturn` until others move something), `OwnChangesShown` until anything happens behind the back. |
| `uploads` | 879 k | A task, a handle, other clients, lost answers, retries, cancels, cleanups: `BufferIsQueued`, `ReplacedOnce` (`ReplacedOrRetryable`, `AtMostOneCopy`), and that the queue implements `UploadPromise` (`PromiseKept`). |
| `cloud_transfers` | 1.3 M | Two files downloaded, uploaded, read by mounts and changed by others, the root reloaded between: `CacheSound` (types, an exact count, `KeptAreListed`: contents of unlisted files only where a reload left them), `ServedAsListed`, `NothingHalf`, `DownloadedIsWhole`, and `TransferEnds` (liveness). |
| `session_store` | 5.8 M | A desktop program and CLI runs, kills, failed writes: `LoggedOutStaysOut`, `LoginIsKept`, `OneAccount` (`CookiesMatchSession`, `SameAccount`). |
| `downstream` | 25 k | All nine services that change something: `ReportedTruly` (`HonestElsewhere`, `NothingUnsaid`), `DoneOnce`, `SurvivesOneExpiry`, and that a command whose requests are answered ends (`CommandEnds`). |
| `downstream_clockin` | violation | `HonestReport` for the sports clock-in. |
| `desktop` | 2.5 M | Logins, logouts, mounts, downloads and a query of two accounts, on a Linux and a Windows build: `NoDangling`, `WritersKnown` (`StatusesTrue`, `OneWriter`), `AccountsApart` (`CookiesAreOwn`, `CacheIsOwn`), and `StopsEnd` (liveness). |
| `campus` | 133 k | All query commands: `NothingMissing` (`HonestEmpty`, `AccountsForAll`), `SurvivesOneEnd`, `FiledUnderTheirCourse`, `CommandEnds` (liveness). |
| `cli` | 9.3 M | All command lines, beside another run that saves the configuration: `StatusIsTrue` (`CompletedIsThere`, `PartialIsSomething`) and `KeptUnlessAsked` of downloads, `HelpSuffices`, `NoFalseExpiry`, `ModesKept` (`ModeKept`, `SessionCanBeRenewed`). |

A property named with others in brackets is their conjunction; the parts are defined, explained and mostly
proved one by one. `TypeOK` is a theorem of each module; the runs `downstream` (`ChangeTypeOK`), `campus`, `cli` and, in
`CacheSound`, `cloud_transfers` check it as well.

Several properties name exceptions (`NoFalseExpiry`, `CompletedIsThere`, `SurvivesOneEnd`, `HelpSuffices`
and others). They are what the code does today, each found as a counterexample to the property without it and
told in section 7; beyond the exceptions the property must hold.

Deadlock is checked in the runs `uploads`, `downstream`, `desktop`, `campus` and `cli`, whose systems can
always go on. The other configurations disable it because their budgets (time, commands,
changes, revisions) run out.

### Bounds, and why they are enough

* `td_race`: one user (records are independent of each other but for the file they share,
  and any number is covered by the proofs), two processes, one round, three slots of one day, three commands, two
  at work at the same time. `Exclusive` keeps `run`, `refresh` and `clear` from
  running beside one another; each still runs beside a tick. Every hazard in
  question needs one stale copy and one newer write, so two processes; a third command
  lets a later tick act on what the race left.
* `td_alone`: two process slots of which one works, the watch loop included;
  four commands over five slots, a limit of two and
  a term count up to two, so that a limit is reached, told, lost in an error and met again;
  the fourth slot begins the next day.
* `td_day`: a day of 14 slots with windows 0-6 and 8-12, two rounds, waits of two
  slots: three exits would fit, so `NoExtraRounds` and `DayHoldsItsRounds` are not true for
  lack of time. The gap at 7 and the end at 13 are outside every window.
* `cloud_index_shared`: root, two directories, two files, two names, three changes: two directories are
  the least that nest and can be moved into each other, and two names let a rename collide.
* `uploads`: one task, one handle, three documents, two names, two attempts. A retry that meets its own
  earlier file needs two attempts; a document of another client that takes the name needs a second
  document; the third is the one that is replaced. All its properties are proved for any number of tasks and handles.
* `cloud_transfers`: two files of at most two units and two revisions, chunks of two, a cache of two
  units and two entries. A chunk that is answered short needs two units; a file that shrinks or
  is replaced under a download needs a second revision; a third unit makes the cache trim.
  Of the parts authorised only their number is kept.
* `session_store`: one desktop context, one that stands for any number of CLI runs in
  turn, two users, both stores, six commands and kills.
* `downstream`: no bound on commands or withdrawals; counters saturate at two, which is where
  the properties stop to tell values apart. The run is exhaustive.
* `desktop`: two accounts, one rebuild of the VFS (a second object is enough to be stale against the first),
  a build with FUSE and one with WinFsp and Cloud Files, of which both may be writable here although today's
  adapters refuse it. Logouts, mounts, requests and queries are unbounded.
* `campus`: commands and ended sessions are unbounded; a loop over pages or courses is taken once more after its
  first turn, as the history of a session does not tell further turns apart.
* `cli`: a command is typed with all options, all but one, or those its help requires. A download is begun only
  while the configuration and the session are those it would find undisturbed, by two recordings of which at most one has files of an earlier
  download, and nothing else happens to the system while it runs; it shares nothing with the other commands but the token.
  The other run saves the configuration, without `--mode`, and is at work only beside runs that save it too: the rest read the mode
  once, at their start. Two runs do not have the file open at the same moment, so that one fills what it emptied itself; a file that is
  read while the other has emptied it, and a copy that is written over a newer one, are both there.

## 4. Fairness

Five specifications assume any.

* `TdScheduler!FairSpec` (`td_day`): weak fairness of the clock, of each process' steps and
  of each sleeper's waking. The operating system runs processes, each send and receive
  has a timeout (`TdTcpTransport.cpp:120` refuses one that is not positive), and
  `sleep_for` returns. The run has no kills and no damaged file, as the loop ends
  at the first tick that fails as a whole (`main.cpp:2677`). Nothing is assumed of people: no command has to be
  issued, and the faults are never fair.
* `ChangeSpec` of `Downstream`: weak fairness of the program's own steps, taken together. Nothing
  is assumed of the answers: no request of the program sets a timeout (`HttpRequest.hpp:68`,
  `CurlHttpClient.cpp:212`), so a silent system holds a command for ever, and
  `CommandEnds` says that this is the only way it does not end. Withdrawal of tokens is
  not fair, and nothing prevents it from happening for ever.
* `CloudTransfers!FairSpec`: weak fairness of the steps the program does alone: a read
  that finds nothing, a chunk the cache holds, the end of a download, the finding that
  all parts are sent. No request is assumed to be answered and none has to fail, so
  `TransferEnds` says that a transfer ends unless it stands still after having asked the
  drive (`Awaits`): it never goes on asking for ever. The listing a lookup refreshes is a
  step of its own and taken as answered. Nothing is assumed of other clients and mounts.
* `Desktop!Spec`: weak fairness of a callback that has begun, and, while a session is being stopped (`Ending`), of the answer to
  the request its thread is serving and of the end of a dispatcher that was told to end. For FUSE nothing makes the
  loop leave but a next request of the kernel, so `StopsEnd` supposes that its users go on using the mount.
* `Campus!Spec`: weak fairness of the program's own steps. An answer may never come, and `CommandEnds` says so.

Everything else is safety and assumes nothing.

## 5. The proofs

There are 55 theorems, on 564 lemmas and about 14 800 obligations. All hold
for every value of the constants the named assumptions allow: `RulesAssumption` and
`SchedulerAssumption`, `IndexAssumption`, `UploadAssumption`, `StoreAssumption`, `TransferAssumption`,
`MountAssumption`, `AccountAssumption`, `AskedAssumption`, `ResourceAssumption`,
`ServiceAssumption`. These state types and, in
few places, what the code enforces itself (`Rounds > 0` as in `make_user`,
`Limit > 0`). TLC evaluates each in the runs of its module.

**TD** (`TdSchedulerProofs`): `TypeCorrect`, `CompletedIsAlwaysEarned`,
`RoundsNeverInvented`, `ExitNeverBeforeEntrance`, together `NothingIsInvented`, follow from `InductiveInvariant`. None
of them is inductive: a process holds copies of the file, and writes them long after others
have written theirs. The strengthening, `Inductive`, says the same of every copy
as of the file: each record anywhere claims only what the server recorded (`AllBacked`).
As what the server recorded only grows, an old copy is still backed when it is
written, which is why lost updates lose but never invent. Three parts serve this:
a process works on records of its own date (`Dated`), for users it loaded (`Serving`), and
an exit in hand has an entrance behind it (`ExitBacked`). `DamageAlwaysStands` is an action
property and needs only that processes that have read nothing hold nothing to write.

**TD, one command at a time** (also `TdSchedulerProofs`). All the stronger promises about a user's
day are broken by two commands that overlap or by one that is killed (section 7), so each
theorem states its hypothesis, and each hypothesis is about `MaxActive`, `Faults` and
`Commands` only, never about users, rounds, windows, waits or lengths:
`Alone` (one command at work, none killed), `NoRefresh`, `NoEdit`, `OnlyTicks` (ticks and
clear-errors, no lost answer). `td_alone` is an instance of the first three, `td_day` of all.
The inductive invariant `AloneInv` (`RecordsStayInForce`, under `Alone` alone) says that for every user
some record is *in force*: the one in the file, or, while a command is at work that will replace it
(`Outdates`), the one that command holds. That record is `Current`: an exit is due only while an entrance waits for it
(`Paired`), it remembers that the limit was reached (`Remembers`), it counts the rounds of its
date exactly (`Exact`), and its next action is late enough (`Timed`). Each of the four carries
its own hypothesis, so one induction gives `RoundsAlwaysPaired`, `LimitAlwaysRemembered`,
`RoundsAlwaysInTime` and `ErrorAlwaysHeld`. `count --refresh` is left out where it would really break the
property: it brings an error back as a record that waits for an exit.

**Cloud index** (`CloudIndexProofs`): `PathsAlwaysPointToNodes` holds
whatever other clients do. `TreeUntilMoved` (the index is a tree, cached listings
resolve, calls return) holds until somebody else moves a document. The second needs `Settled`:
the maps form a tree (`Tree`), every cached listing shows children of its own directory
(`Shown`), and whatever a cached listing holds is in that directory on the
drive or deleted (`Homes`). `IndexStaysSound` joins the two. As the drive has a document in one directory only,
no two listings can then share one. The module first proves for
each helper what it preserves; the closure `remove_subtree` walks is defined
without recursion, as the smallest set closed under children.
`OwnChangesAlwaysShown` adds `Undisturbed` to it: until another client or a lost answer interferes,
each cached listing names the children its directory has on the drive, each under the path of its name (`Mirrors`).

**Uploads** (`CloudUploadsProofs`): `KeepsPromise` is the refinement: each step of
`CloudUploads` is one of `UploadPromise` or a stutter. `Inductive` relates tasks, the one
at work, handles and ghosts: only the task at work is `running`; handle and task
numbers are below their counters; a task that deleted something has not succeeded
before its file was stored. `ReplacedStaysRetryable`, `BufferStaysQueued`, `Typed` follow.
`OneCopyUntilRenamed` needs in addition that a task keeps its name; `ReplacedAtMostOnce` joins it to the first.

**Session** (`SessionStoreProofs`): `LogoutLasts` from `Inv`: without overlap one
context is up at a time (`Alone`), its copy is the file's content when nothing is pending
(`Synced`), and after a reported logout neither file nor copy nor jar holds an account (`Out`). `LoginLasts` and `OneAccountOnDisk` (`NeverMixed` and `NoStranger`)
from `LoginInv`, which follows a login step by step: what the file must hold already
(`Progress`, `Kept`), and that copies and files match within themselves (`MatchingFile`, `MatchingData`).

**Desktop** (`DesktopProofs`): `NeverDangling`, `WritersAreKnown` (`StatusesAreTrue`, `OnlyOneWriter`) from `Invariance`. The
invariant says that a thread that is inside the VFS belongs to a session (`OnCurrent`), that a session was started on the
VFS in use, and that while VFS and service are replaced no session is left (`Rebuilding`): the join in
`stop()` carries the property. `Leftovers` says that no status but "stopped" is kept of a session that is gone.
`AlwaysApart` is inductive only together with what is under way (`Apart`): as whom each mount's thread
has asked, whose cookies a query will leave in the jar, and whom the cloud service knows. After a whole login that came over
nothing of another account all of these are of one account (`OneInUse`), and a logout, which leaves mounts and service going,
adds nobody. `Renewing` is why the login itself gets there: nothing of another account comes in until `NewVfs`.

**Uploads in parts** (`CloudTransfersProofs`): `NeverHalf`. `ArrivedOK` says for each stage of the protocol
what has arrived: the first `next - 1` parts while parts are sent, all of them once `PartsSent` found
that nothing remains, joined before `Finish`. The invariant needs that no more parts are counted than
the drive authorised and no more authorised than there are. Downloads, mounts and other clients leave it alone.

**Content cache and downloads** (also `CloudTransfersProofs`): `CacheStaysSound`,
`AlwaysServedAsListed` and `AlwaysWhole`. The cache is a sequence that is filtered, cut and summed by
folds. The module gives each of them a recurrence and then argues by the least number for
which a claim fails, which needs no induction rule: the sum of a cut, of a filtered and of an
extended sequence, what stays in it, and that `used` is the exact sum of the entries (`CountExact`).
The invariant `CacheKept` makes `used` exact and says of every entry (`Sound`) that its file is listed or was left by a reload of the root, that it
begins inside the file if that is listed under the revision of the entry, and that, unless the
file was tainted by bytes of another revision, it holds the bytes of its own offset and revision. Entries that outlive a reload meet a
new listing, so the invariant also needs what the drive says of them (`Placed`): a revision it has passed does not come back. `AlwaysWhole` follows a download
chunk by chunk (`CopyOK`): what was written so far is all that was asked for, in order, and while
nobody interferes the drive still has the file the download began with (`Undisturbed`).

**Command line and recordings** (`CliProofs`): `StatusAlwaysTrue`, `FilesAlwaysKept`, `NeverFalselyExpired`,
`ModesAlwaysKept`, `HelpAlwaysSuffices` and `CliTyped`, from `CliInvariance`. `EveryCommandRegular` goes through the tables of `CliCommands` once, so that
the rest need not expand them: only the setters save, only `live download` downloads, no command that looks for a
session once its options are complete asks for saved credentials, and `course week` asks for its term.
`Stage` says for each step of a download what it holds by then (`Fetched`): a status is given
only when the images and the files it speaks of are there, and a recording that has
none yet is `Unreported`. Of the runs the invariant says that a save writes back the mode last set unless
`--mode` was given or its copy is outdated (`Setting`), that the other run does too (`Beside`), and that whoever looked for the
session works in its mode (`Placed`).
`HelpAlwaysSuffices` compares two tables that the source keeps in different places, what a handler asks for and what
the help calls required. Both are compared with one list (`Promised`): each small table of the handlers asks for
nothing that is not promised or excepted (`EveryHandlerServed`), each of the help calls required what is promised
(`EveryHelpListed`), so that options which contain all the help requires satisfy the handler (`HelpIsEnough`).
`RefusesOrNot` finds the only steps after which a run reports a missing option, and there one really was
(`MissingIsMissed`).

**Changing commands** (also `CliProofs`, which extends `Downstream`; for any choice of its services):
`AlwaysReportedTruly`, `AlwaysDoneOnce`, `OneExpirySurvived` and `ChangeTyped`, from `ChangeInvariance`. None of the
three properties is inductive: each speaks of finished commands or of counts, and none says what a request at work may
have done. The invariant does. While no answer was mistaken, no write was performed before its turn, and none that is
going to be sent, or sent again, was performed at all (`Untouched`): this is why a retry repeats nothing. An answer
says what happened to the request (`Heard`). The requests before the one at work are taken to have succeeded, rightly
but for the clock-in (`Believed`). A write that was performed is known, or its answer is in hand (`Unsaid`). And a
command that has met nothing but withdrawn tokens holds a bad one, or hears of an expiry, only after one was
withdrawn, and after its one renewal only after a second was (`Spent`): so one withdrawal never reaches the second
expiry, at which the services give up.

**Campus queries** (`CampusProofs`): `NeverMissing`, `OneEndSurvived`, `AlwaysUnderTheirCourse` and `CampusTyped`, from
`CampusInvariance`, for any set of commands and any number of rounds. The tables of `CampusSystems` are joined of small ones, so each
small one is examined once, and `EveryScriptFits` says what all scripts have in common: each request
reads a failure as a failure or as what `Empties` allows (`Honest`), and, unless its command asks once
only, is repeated after an expiry that it recognises (`Seen`, `Survivable`). `PartsAre` and `WaysAhead` say where a command may go next. The invariant adds
to the properties that with one session lost an expiry is met at most once and the session is good afterwards (`Steady`), that no answer hides a
failure (`~hidden`), that each part of a command is accounted for (`Accounted`) and none of them failed (`Unfailed`), and that, while nothing fails, a
list of the judge is asked for only while the selected course is still the server's (`Filing`).

**Only model-checked**: liveness (`DueIsHandled`, `TransferEnds`, `CommandEnds`, `StopsEnd`) and anything with
ENABLED, which the prover does not do. Every invariant and every action property of the passing runs is proved;
`HonestReport`, which the code does not keep, has a run that refutes it. No module that is proved about
declares a RECURSIVE operator.

## 6. Where code and documents disagree

One has a run whose counterexample TLC finds (`downstream_clockin`):

* **A sports clock-in may report success without one** (`YgdkService.cpp:427`). After a
  second expiry or a failed renewal `post_form` returns an empty object, which
  `submit_clockin` takes for an answer, although `AuthorizedDownstreamRequestExecutor.hpp:5` forbids fake success.

These were met in the same way, by a property that had to be weakened, and have no run of their own:

* **`td count --refresh` lifts an error** (`apps/cli/src/main.cpp:2222`). `docs/core/td-core.md:55`
  reserves that to `clear-errors`. The refresh overwrites `error` with `refreshed`
  and keeps `next_action`, so the next tick asks the server again, and an exit whose
  answer was lost is sent twice. (`td_alone` is run without refreshes.)
* **A refresh may never return** (`CloudVfs.cpp:710`). `remove_subtree` recurses before it
  erases. B is in A and A's listing is cached; another client moves B out and A into
  B; then B's listing is cached too, and each is a child of the other in the index. (`CallsReturn` holds until others move something.)
* **Overwriting with an empty file loses the old one** (`CloudVfs.cpp:546`). The old document is
  deleted before `upload_file` refuses the empty one (`CloudService.cpp:342`), and every retry
  fails too, though `tests/unit/CloudVfsTests.cpp:335` says failures "remain retryable".
* **`config set --key proxy ... --mode direct` persists the mode** (`main.cpp:4212`, `:2798`), which
  `docs/apps/windows-cli.md:24` calls a temporary override. (`ModeKept` excepts it.)
* **A partial download may have written nothing** (`LiveService.cpp:1012`), although
  `docs/api/json-output-format.md:331` says of "partial" that something was. (`PartialIsSomething` excepts a recording without timeline and video.)

## 7. What else the modelling showed

These contradict no sentence of the repository. They are what a maintainer may want to know;
most are exceptions that a property names.

**TD**

* Two schedulers on one store check a user in twice; `RoundsPaired`, `NoExtraRounds`,
  `NoCheckAfterLimit` and `ErrorHeld` hold only with one command at a time. Nothing in the
  code or its documents promises more, and nothing locks the store.
* A tick decides by the time it began. One that takes long sends after its window has
  closed (`TdSchedulerService.cpp:431`).
* With the default wait of 180 minutes (`Td.hpp:23`) a day holds two rounds at most.
* The scheduler never uses `wait_time_max`, nothing writes `cached_term_count`, and `perform_exit` does not look at the limit.
* Deleting a user and adding him again loses his count.
* `td count --refresh` leaves a due exit standing outside the windows (`main.cpp:2222`); the next tick gives it up.
* A user can be given a photo between the check of its references and its removal (`TdStore.cpp:315`).

**Cloud drive**

* The index assumes that a document keeps its id when it moves. Once others have moved
  one, it may be listed in two directories and resolve in only one.
* An overwriting upload refreshes the listing and then deletes by id: a document that
  another client renamed in between is deleted under its new name (`CloudVfs.cpp:674`).
* When another client renames what an attempt has stored, the retry stores a second copy.
* A flushed handle whose task was cleaned up can be neither closed nor discarded (`CloudVfs.cpp:486`).

**Session file**

* Contexts that overlap overwrite each other: an old copy brings back a session that was
  logged out, although `docs/security/credential-handling.md:32-36` wants it erased. What holds
  without overlap is proved; that a copy never mixes two accounts is proved even with it.
* A logout in a context that holds no session writes nothing and reports success, and a failed flush in
  `clear_session` is ignored (`SessionManager.cpp:96`).
* The desktop program's login over a live session does not check the password
  (`AuthService.cpp:354`): the saved account may not be the one that was typed.
* A WebVPN failure after the session was saved leaves it saved (`AuthService.cpp:513`).

**Campus services**

* An expiry is recognised by words in the answer (`SessionGuards.cpp:36`). A performed
  request whose answer contains them is sent again; `DoneOnce` holds only without that.
* A lost answer is never retried, so a booking may exist although the command failed.
* A venue reservation is two writes; the first stays behind when the second fails. So
  does the photo of a clock-in.
* The cloud service reports every failed renewal as an expired session. SRS reads the old cookie
  again after a login that brought none.

* BYXT takes whatever is not a JSON success for an expiry, a maintenance page included, and a refusal for a failed login.
* The week filter drops courses whose week stands in a later range, and "3周" becomes weeks 1 to 16 (`CourseService.cpp`).
* Free classrooms: a refusal with code 1 is an empty list, and any answer with the word login an expiry.
  The code of an announcement answer is not looked at. A judge page without a list, and a sports clock-in whose renewal failed, are empty lists.
* The judge's selected course lives in the server's session; when the session is renewed between selection and list, or another
  program selects, assignments are filed under the wrong course (`JudgeService.cpp:214`).
* signin never renews after a 401 and reads a second refusal as an empty day; cgyy never renews a denied token, and a stale SSO
  cookie turns an expired campus login into a network error; libbook cannot read a login page sent with status 200.
* `EvaluationService` never resets `m_activated` and sees the first ten tasks; spoc asks for at most fifty pages of
  fifteen without looking for doubles; pages 0 and 1 of cgyy's orders are the same; `FeatureService::mutate` refuses everything.

**Contents and transfers**

* A range is kept under the revision of a listing up to 60 seconds old, although the bytes may be newer (`CloudVfs.cpp:291`).
* Opening the drive anew clears the nodes and leaves the contents (`CloudVfs.cpp:171`): the next listing finds no former children
  to drop, so bytes of a file that is gone stay, in memory only, until newer ones displace them.
* A drive that ignores ranges sends the start of the file, which is taken for the range asked for (`CloudService.cpp:2910`).
* An empty chunk ends a download as done, and a failed local write leaves its task "running" (`AppRuntime.cpp:627`).
* Entries without bytes are never trimmed. `cloud_upload_file` processes the oldest pending task, which may be another.
* A 403 counts as an expiry. The numbers of the authorised parts are not compared with those asked for, and a failed upload
  leaves its session on the drive.

**Mounts and desktop program**

* `docs/architecture/cloud-mount-design.md:40` speaks of degrading a second writable mount
  to read-only; `CloudMountManager.cpp` refuses it, a remount of one's own writable frontend included. All adapters refuse writable mounts today.
* A start that fails has already stopped the running session (`CloudMountManager.cpp:107`).
* `LinuxFuseMount::stop` asks the loop to exit and joins it before it unmounts: the window waits for the next request of the kernel.
* A logout leaves the VFS, the content cache and the mounts in use until the next login, and the cloud service with its token
  and password (`AppRuntime.cpp:952`): the next request of a mount or of the browser, or an answer under way, puts cookies of
  the account back into the jar while nobody is logged in (`AsksAs`, `Brings`), and the next operation saves them.
* A login over another account without a logout keeps the other's cookies. After a logout, too, a mount or a query of the former
  account that runs on over the login leaves cookies of it in the jar, and the new service may take its token from there: the
  states `crossed` marks. A login that fails after the account has changed leaves the service of the former one in use (`halfway`).
* `set_connection_mode` leaves the cloud service in the old mode.
* The thread of a campus query is detached and may outlive the context it uses at exit (`apps/desktop/src/main.cpp:476`).

**Recordings**

* The token is taken from the cookies however old it is and never renewed; nothing calls `bearer_token(true)`. A connection that
  is lost while a token is fetched is an expired session.
* A refused later page of a timeline is taken for its end, so "completed" may lack slides. "completed" is also said where there is no video
  address, and of an empty video. Any body with status 200 is saved as mp4.
* With `--overwrite` and a failing ffmpeg the earlier good video is removed (`main.cpp:1793`). One failing recording ends the batch; a second run
  without `--overwrite` stops at the first file, a torn one included. The exit code is Ok with partial and error results.

**Command line**

* The required options of the help do not suffice for `course week`, `exam list`, `week list`, `grade list`, `live download`,
  `signin do`, `libbook book`, `evaluation form`, `evaluation form submit` and `td user add`, which wants `--quick` or two machines
  and two photos (`main.cpp:2384`).
* All changing commands, and queries that are not listed in `command_requires_session`, run in the configured mode, not in that of the session.
* A `relogin` that fails leaves no session. `cache clear` clears nothing. A configuration that could not be written is reported as
  updated, and one that cannot be read is the default.
* Two runs that save the configuration lose one of their updates (`main.cpp:2758`): `config set --key proxy` that read the file before
  `mode direct` wrote it puts the old mode back, and one that read it while it was emptied puts the default one (`ModeKept` excepts
  the outdated copy and nothing else of it).
* The advice to log in is also given while the campus login is good (`NoFalseExpiry` names the reasons): a bykc login that brings no token
  (`BykcService.cpp:268`), a live week that is refused (`LiveService.cpp:616`), user info that is, a venue login or a
  library redirect without its token, and any service whose second answer is an expiry again. The cloud disk says so of every
  renewal that failed, and when no password was saved.

## 8. What is not modelled

Each part is in `PROJECT.json` with its reason. The TD protocol and the TD catalogue are planned below.
Models, the generic JSON and cloud parsers, output, cryptography, redaction and addresses are conversions without state.
The HTTP client wraps libcurl. The memory cache is a map with expiry times; the Secret Service and the plain file are
alternatives to the stores that are modelled. The C interface serialises calls with one mutex (`UbaaNative.cpp:701`),
which leaves JSON. The campus Wi-Fi login is two requests. Mocks and tests were read, not modelled.

Partly modelled are: the session file (no Secret Service store, no pages of a login), the downstream sessions and campus queries (no contents of
requests, rows have no fields, a walk of redirects is one step), the transfers (no sign-in pages, shares and
batches), the runtime context (no diagnostics), the desktop program (no window) and the command line (no spelling of
values, no mock mode).

Within the modelled parts, these are abstracted: texts for people; bytes and offsets
(values of a small set); the age of listings; the pages and redirects of a login
(it brings a session, is refused, or fails); several saved connection modes; the Secret
Service store; the writing of `users.json` (one step); inodes, attributes and buffers of the mounts.

## 9. The plan

Written so far, most important first: TD, the cloud index, uploads, the session file, downstream sessions, mounts and the desktop
program, campus queries, the command line with recordings, contents and transfers. What would follow:

1. **TD protocol and transport**: framing and timeouts of one exchange, of which `TdScheduler`'s four outcomes are the abstraction.
2. **TD catalogue**: photos that users refer to.
3. **Composition**: `upload_file` of `CloudTransfers` as the implementation of the `Send` of `CloudUploads`; `CloudContent` over the
   tree of `CloudIndex` instead of one directory.
4. **C interface**: the life of a handle, if it ever stops being one mutex.
5. **Proofs**: what follows for `CloudUploads` once 3 is written; `Downstream` for scripts of any shape, of which the nine are cases.

The models cover some 13 000 of about 39 200 implementation lines; most of the rest converts or formats.

## Running the checks

`tlc -config X.cfg M` for each run of `PROJECT.json` (M is the MC module) and `tlapm M.tla` for
each `*Proofs` module. The largest run takes about three minutes on two workers, all proofs
about seven minutes.
