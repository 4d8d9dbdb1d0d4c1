----------------------------- MODULE TdScheduler -----------------------------
(***************************************************************************)
(* The commands of the TD check-in tool as operating-system processes that *)
(* share users.json and state.json without a lock:                         *)
(*                                                                         *)
(*   "watch"    td scheduler watch         a tick of TdSchedulerService    *)
(*                                         ::run_once per poll             *)
(*   "once"     td scheduler once          one such tick                   *)
(*   "run"      td run --once              TdService::run_once             *)
(*   "refresh"  td count --refresh         td_refresh_counts               *)
(*   "clear"    td scheduler clear-errors  clear_today_errors              *)
(*                                                                         *)
(* Every command loads users.json and state.json, works on copies while it *)
(* talks to the TD server, and rewrites state.json.  A rewrite truncates   *)
(* the file and then writes it, so a reader between the two, or a process  *)
(* killed between the two, meets a file that does not parse.  A write to   *)
(* users.json is one step here.                                            *)
(***************************************************************************)
EXTENDS TdRules, FiniteSets

CONSTANTS
    Student,      \* the users users.json may list
    NoStudent,    \* no user in hand
    Proc,         \* process slots
    Commands,     \* the commands people issue, "edit" being td user add/delete
    Exclusive,    \* bound: commands never issued while one of them is running
    Faults,       \* what may go wrong: "lost", "refused", "photo", "log", "crash"
    MaxActive,    \* bound: how many commands work at the same time
    MaxCommands   \* bound: how many commands people issue

ASSUME SchedulerAssumption ==
    /\ NoStudent \notin Student
    /\ Commands \subseteq {"watch", "once", "run", "refresh", "clear", "edit"}
    /\ MaxActive \in Nat
    /\ MaxCommands \in Nat

VARIABLES
    users,      \* users.json
    file,       \* state.json, as its last complete write left it
    torn,       \* state.json does not parse
    overlaid,   \* processes in mid-write whose truncated file another wrote to
    proc,       \* the processes
    clock,      \* the wall clock
    budget,     \* commands people may still issue
    term,       \* the server's term count of each user
    entered,    \* entrances the server recorded, per user and date of the request
    left,       \* exits the server recorded, likewise
    told        \* users for whom some answer carried a count at the limit

store == <<file, torn, overlaid>>
server == <<term, entered, left, told>>
vars == <<users, store, proc, clock, budget, server>>

-----------------------------------------------------------------------------
(* Processes. *)

States == [Student -> UserState]
NoStates == [s \in Student |-> Absent]

PC == {"off", "sleep", "users", "states", "decide", "check", "upload",
       "merge", "truncate", "write"}
Command == {"none", "watch", "once", "run", "refresh", "clear"}

Process == [pc    : PC,
            cmd   : Command,
            known : SUBSET Student,             \* users.json as loaded
            todo  : SUBSET Student,             \* users still to be served
            cur   : Student \cup {NoStudent},   \* the user being served
            act   : {"entrance", "exit"},       \* his check-in under way
            now   : Clock,                      \* the clock reading of the command
            mem   : States,                     \* the records worked on
            buf   : States]                     \* the content about to be written

Idle == [pc |-> "off", cmd |-> "none", known |-> {}, todo |-> {},
         cur |-> NoStudent, act |-> "entrance", now |-> 0,
         mem |-> NoStates, buf |-> NoStates]

Ticks(P) == P.cmd \in {"watch", "once"}
Asleep(P) == P.pc \in {"off", "sleep"}
Date(P) == DayOf(P.now)
Record(P) == P.mem[P.cur]

Become(p, P) == proc' = [proc EXCEPT ![p] = P]

\* The watch loop goes on after a tick that returned no error.
Ended(P, ok) ==
    IF P.cmd = "watch" /\ ok
    THEN [Idle EXCEPT !.pc = "sleep", !.cmd = "watch", !.now = P.now]
    ELSE Idle

MayWork == Cardinality({q \in Proc : ~Asleep(proc[q])}) < MaxActive

\* The record of the user in hand is decided: a tick keeps it in memory until
\* its end, run and refresh save it at once.
Decided(P, r) ==
    LET Q == [P EXCEPT !.mem[P.cur] = r]
    IN  IF Ticks(P)
        THEN [Q EXCEPT !.pc = "decide", !.todo = @ \ {P.cur}, !.cur = NoStudent]
        ELSE [Q EXCEPT !.pc = "merge"]

Failed(P, r) ==
    CASE Ticks(P)          -> MarkError(r)
      [] P.cmd = "run"     -> RunFailed(r, P.act)
      [] P.cmd = "refresh" -> RefreshFailed(r)

-----------------------------------------------------------------------------
Init ==
    /\ users \in SUBSET Student
    /\ file = NoStates
    /\ torn = FALSE
    /\ overlaid = {}
    /\ proc = [p \in Proc |-> Idle]
    /\ clock = 0
    /\ budget = MaxCommands
    /\ term = [s \in Student |-> 0]
    /\ entered = [s \in Student |-> [d \in Day |-> 0]]
    /\ left = [s \in Student |-> [d \in Day |-> 0]]
    /\ told = [s \in Student |-> FALSE]

-----------------------------------------------------------------------------
(* Starting, loading. *)

Start(p, c) ==
    /\ proc[p].pc = "off" /\ c # "edit" /\ budget > 0 /\ MayWork
    /\ c \in Exclusive => \A q \in Proc : proc[q].cmd \notin Exclusive
    /\ budget' = budget - 1
    /\ Become(p, [Idle EXCEPT !.pc = IF c = "clear" THEN "states" ELSE "users",
                              !.cmd = c, !.now = clock])
    /\ UNCHANGED <<users, store, clock, server>>

Wake(p) ==
    /\ proc[p].pc = "sleep" /\ clock > proc[p].now /\ MayWork
    /\ Become(p, [proc[p] EXCEPT !.pc = "users"])
    /\ UNCHANGED <<users, store, clock, budget, server>>

LoadUsers(p) ==
    /\ proc[p].pc = "users"
    /\ Become(p, [proc[p] EXCEPT !.pc = "states", !.known = users])
    /\ UNCHANGED <<users, store, clock, budget, server>>

UnreadableStates(p) ==
    /\ proc[p].pc = "states" /\ torn
    /\ Become(p, Ended(proc[p], FALSE))
    /\ UNCHANGED <<users, store, clock, budget, server>>

\* The record of a loaded user a command starts from.
Loaded(P, s) ==
    CASE s \notin P.known  -> Absent
      [] s \in P.known /\ P.cmd = "run"     -> NewState(Date(P), file[s].count)
      [] s \in P.known /\ P.cmd = "refresh" -> PreviousState(file[s])
      [] s \in P.known /\ Ticks(P)          -> TodayState(file[s], Date(P))

\* Mutant: a state.json that does not parse is taken for an empty one.
LoadStates_Lenient(p) ==
    /\ proc[p].pc = "states" /\ proc[p].cmd # "clear"
    /\ LET P == [proc[p] EXCEPT !.now = clock]
       IN  Become(p, [P EXCEPT !.pc = "decide", !.todo = P.known,
                               !.mem = [s \in Student |->
                                           IF torn THEN NewState(Date(P), NoCount)
                                                   ELSE Loaded(P, s)]])
    /\ UNCHANGED <<users, store, clock, budget, server>>

LoadStates(p) ==
    /\ proc[p].pc = "states" /\ ~torn /\ proc[p].cmd # "clear"
    /\ \E work \in {proc[p].known} \cup
                   {{s} : s \in IF proc[p].cmd = "refresh" THEN proc[p].known ELSE {}} :
          LET P == [proc[p] EXCEPT !.now = clock]
          IN  Become(p, [P EXCEPT !.pc = "decide", !.todo = work,
                                  !.mem = [s \in Student |-> Loaded(P, s)]])
    /\ UNCHANGED <<users, store, clock, budget, server>>

\* clear-errors took its date before it loads, and saves only a change.
LoadErrors(p) ==
    LET cleared == [s \in Student |-> ClearError(file[s], Date(proc[p]))]
    IN  /\ proc[p].pc = "states" /\ ~torn /\ proc[p].cmd = "clear"
        /\ Become(p, IF cleared = file
                     THEN Ended(proc[p], TRUE)
                     ELSE [proc[p] EXCEPT !.pc = "truncate", !.buf = cleared])
        /\ UNCHANGED <<users, store, clock, budget, server>>

-----------------------------------------------------------------------------
(* Serving one user. *)

\* A tick settles a user without asking the server.
SettleLocally(p, s) ==
    LET P == proc[p]
    IN  /\ P.pc = "decide" /\ Ticks(P) /\ s \in P.todo
        /\ ~AsksServer(P.mem[s], P.now)
        /\ Become(p, [P EXCEPT !.mem[s] = Settled(@, P.now), !.todo = @ \ {s}])
        /\ UNCHANGED <<users, store, clock, budget, server>>

\* run --once skips a user at the limit.
SkipAtLimit(p, s) ==
    LET P == [proc[p] EXCEPT !.cur = s]
    IN  /\ P.pc = "decide" /\ P.cmd = "run" /\ s \in P.todo
        /\ ReachedLimit(P.mem[s].count)
        /\ Become(p, Decided(P, MarkCompleted(P.mem[s])))
        /\ UNCHANGED <<users, store, clock, budget, server>>

\* run --once reads both photos before its first request.
RunPhotoMissing(p, s) ==
    LET P == [proc[p] EXCEPT !.cur = s]
    IN  /\ P.pc = "decide" /\ P.cmd = "run" /\ s \in P.todo
        /\ ~ReachedLimit(P.mem[s].count)
        /\ "photo" \in Faults
        /\ Become(p, Decided(P, RunFailed(P.mem[s], "entrance")))
        /\ UNCHANGED <<users, store, clock, budget, server>>

Begin(p, s) ==
    LET P == proc[p]
    IN  /\ P.pc = "decide" /\ s \in P.todo
        /\ Ticks(P) => AsksServer(P.mem[s], P.now)
        /\ P.cmd = "run" => ~ReachedLimit(P.mem[s].count)
        /\ Become(p, [P EXCEPT !.pc = "check", !.cur = s,
                               !.act = IF Ticks(P) THEN DueAction(P.mem[s])
                                                   ELSE "entrance"])
        /\ UNCHANGED <<users, store, clock, budget, server>>

-----------------------------------------------------------------------------
(* The check request.  The server may count the check-in whether or not    *)
(* its answer arrives; an answer may or may not carry the count.           *)

ServerCounts(s) ==
    \E n \in {term[s], term[s] + 1} :
        n <= MaxTerm /\ term' = [term EXCEPT ![s] = n]

AnswerCounts(s, c) ==
    /\ c \in {NoCount, term'[s]}
    /\ told' = [told EXCEPT ![s] = @ \/ ReachedLimit(c)]

CheckLost(p) ==
    LET P == proc[p]
    IN  /\ P.pc = "check" /\ "lost" \in Faults
        /\ ServerCounts(P.cur)
        /\ Become(p, Decided(P, Failed(P, Record(P))))
        /\ UNCHANGED <<users, store, clock, budget, entered, left, told>>

\* td count --refresh only wants the count of the answer.
CountAnswered(p, c) ==
    LET P == proc[p]
    IN  /\ P.pc = "check" /\ P.cmd = "refresh"
        /\ ServerCounts(P.cur) /\ AnswerCounts(P.cur, c)
        /\ Become(p, Decided(P, IF c = NoCount THEN RefreshFailed(Record(P))
                                               ELSE Refreshed(Record(P), c)))
        /\ UNCHANGED <<users, store, clock, budget, entered, left>>

\* The server refuses; a tick told "illegal time" only drops the round.
CheckRefused(p, c, illegal) ==
    LET P == proc[p]
        r == Counted(Record(P), c)
    IN  /\ P.pc = "check" /\ P.cmd # "refresh" /\ "refused" \in Faults
        /\ term' = term /\ AnswerCounts(P.cur, c)
        /\ Become(p, Decided(P, IF illegal /\ Ticks(P) THEN DiscardRound(r)
                                                       ELSE Failed(P, r)))
        /\ UNCHANGED <<users, store, clock, budget, entered, left>>

CheckAccepted(p, c) ==
    LET P == proc[p]
        r == Counted(Record(P), c)
    IN  /\ P.pc = "check" /\ P.cmd # "refresh"
        /\ ServerCounts(P.cur) /\ AnswerCounts(P.cur, c)
        /\ Become(p, IF P.act = "entrance" /\ ReachedLimit(r.count)
                     THEN Decided(P, MarkCompleted(r))
                     ELSE [P EXCEPT !.pc = "upload", !.mem[P.cur] = r])
        /\ UNCHANGED <<users, store, clock, budget, entered, left>>

-----------------------------------------------------------------------------
(* The photo upload, which makes the entrance or the exit valid. *)

ServerRecords(P) ==
    IF P.act = "entrance"
    THEN /\ entered' = [entered EXCEPT ![P.cur][Date(P)] = @ + 1]
         /\ UNCHANGED left
    ELSE /\ left' = [left EXCEPT ![P.cur][Date(P)] = @ + 1]
         /\ UNCHANGED entered

UploadLost(p) ==
    LET P == proc[p]
    IN  /\ P.pc = "upload" /\ "lost" \in Faults
        /\ ServerRecords(P) \/ UNCHANGED <<entered, left>>
        /\ Become(p, Decided(P, Failed(P, Record(P))))
        /\ UNCHANGED <<users, store, clock, budget, term, told>>

\* A tick reads the photo only now, after the check went out.
TickPhotoMissing(p) ==
    LET P == proc[p]
    IN  /\ P.pc = "upload" /\ Ticks(P) /\ "photo" \in Faults
        /\ Become(p, Decided(P, MarkError(Record(P))))
        /\ UNCHANGED <<users, store, clock, budget, server>>

TickUploaded(p) ==
    LET P == proc[p]
    IN  /\ P.pc = "upload" /\ Ticks(P)
        /\ ServerRecords(P)
        /\ Become(p, Decided(P, IF P.act = "entrance" THEN EntranceDone(Record(P), P.now)
                                                      ELSE ExitDone(Record(P), P.now)))
        /\ UNCHANGED <<users, store, clock, budget, term, told>>

\* run --once goes straight on to the exit, and then to its next round.
RunUploaded(p) ==
    LET P == proc[p]
        r == [Record(P) EXCEPT !.rounds = @ + 1]
    IN  /\ P.pc = "upload" /\ P.cmd = "run"
        /\ ServerRecords(P)
        /\ Become(p, IF P.act = "entrance"
                     THEN [P EXCEPT !.pc = "check", !.act = "exit"]
                     ELSE IF r.rounds >= Rounds \/ ReachedLimit(r.count)
                     THEN Decided(P, MarkCompleted(r))
                     ELSE [P EXCEPT !.pc = "check", !.act = "entrance",
                                    !.mem[P.cur] = r])
        /\ UNCHANGED <<users, store, clock, budget, term, told>>

-----------------------------------------------------------------------------
(* Saving.  A tick and clear-errors write the whole map they hold: users   *)
(* the tick did not load lose their entry.  run and refresh reload the     *)
(* file and replace one entry (save_state).                                *)

FinishTick(p) ==
    LET P == proc[p]
    IN  /\ P.pc = "decide" /\ Ticks(P) /\ P.todo = {}
        /\ Become(p, [P EXCEPT !.pc = "truncate", !.buf = P.mem])
        /\ UNCHANGED <<users, store, clock, budget, server>>

FinishOthers(p) ==
    LET P == proc[p]
    IN  /\ P.pc = "decide" /\ ~Ticks(P) /\ P.todo = {}
        /\ Become(p, Ended(P, TRUE))
        /\ UNCHANGED <<users, store, clock, budget, server>>

\* run reports a save that failed and goes on; refresh gives up.
Served(P, ok) ==
    IF P.cmd = "refresh" /\ (~ok \/ Record(P).status = "error")
    THEN Ended(P, FALSE)
    ELSE [P EXCEPT !.pc = "decide", !.todo = @ \ {P.cur}, !.cur = NoStudent,
                   !.act = "entrance", !.buf = NoStates]

MergeState(p) ==
    LET P == proc[p]
    IN  /\ P.pc = "merge"
        /\ Become(p, IF torn
                     THEN Served(P, FALSE)
                     ELSE [P EXCEPT !.pc = "truncate",
                                    !.buf = [file EXCEPT ![P.cur] = Record(P)]])
        /\ UNCHANGED <<users, store, clock, budget, server>>

Truncate(p) ==
    /\ proc[p].pc = "truncate"
    /\ torn' = TRUE
    /\ overlaid' = overlaid \ {p}
    /\ Become(p, [proc[p] EXCEPT !.pc = "write"])
    /\ UNCHANGED <<users, file, clock, budget, server>>

\* Two writers that both truncated write over each other from offset 0; the
\* shorter text then leaves a tail of the longer one behind it.
Write(p) ==
    LET P == proc[p]
    IN  /\ P.pc = "write"
        /\ file' = P.buf
        /\ torn' \in IF p \in overlaid THEN BOOLEAN ELSE {FALSE}
        /\ overlaid' = (overlaid \cup {q \in Proc : proc[q].pc = "write"}) \ {p}
        /\ \E logged \in IF "log" \in Faults /\ P.cmd = "watch" THEN BOOLEAN ELSE {TRUE} :
              Become(p, IF P.cmd \in {"run", "refresh"} THEN Served(P, TRUE)
                                                        ELSE Ended(P, logged))
        /\ UNCHANGED <<users, clock, budget, server>>

-----------------------------------------------------------------------------
(* The surroundings: time, people, and the operating system. *)

PassTime ==
    /\ clock < MaxClock
    /\ clock' = clock + 1
    /\ UNCHANGED <<users, store, proc, budget, server>>

EditUsers(s) ==
    /\ "edit" \in Commands /\ budget > 0
    /\ budget' = budget - 1
    /\ users' \in {users \cup {s}, users \ {s}}
    /\ UNCHANGED <<store, proc, clock, server>>

\* The process is killed, or the watch loop sees Ctrl-C between two ticks.
Kill(p) ==
    /\ "crash" \in Faults /\ proc[p].pc # "off"
    /\ Become(p, Idle)
    /\ overlaid' = overlaid \ {p}
    /\ UNCHANGED <<users, file, torn, clock, budget, server>>

-----------------------------------------------------------------------------
Answer == {NoCount} \cup 0 .. MaxTerm

Step(p) ==
    \/ LoadUsers(p) \/ UnreadableStates(p) \/ LoadStates(p) \/ LoadErrors(p)
    \/ \E s \in Student : \/ SettleLocally(p, s) \/ SkipAtLimit(p, s)
                          \/ RunPhotoMissing(p, s) \/ Begin(p, s)
    \/ CheckLost(p)
    \/ \E c \in Answer : \/ CountAnswered(p, c) \/ CheckAccepted(p, c)
                         \/ \E illegal \in BOOLEAN : CheckRefused(p, c, illegal)
    \/ UploadLost(p) \/ TickPhotoMissing(p) \/ TickUploaded(p) \/ RunUploaded(p)
    \/ FinishTick(p) \/ FinishOthers(p)
    \/ MergeState(p) \/ Truncate(p) \/ Write(p)

Next ==
    \/ PassTime
    \/ \E s \in Student : EditUsers(s)
    \/ \E p \in Proc : \/ Step(p) \/ Wake(p) \/ Kill(p)
                       \/ \E c \in Commands : Start(p, c)

Spec == Init /\ [][Next]_vars

\* The machine runs every process and its clock; nobody has to issue commands.
FairSpec ==
    /\ Spec
    /\ WF_vars(PassTime)
    /\ \A p \in Proc : WF_vars(Step(p)) /\ WF_vars(Wake(p))

-----------------------------------------------------------------------------
(* Properties. *)

\* Every variable has its type.
TypeOK ==
    /\ users \subseteq Student
    /\ file \in States
    /\ torn \in BOOLEAN
    /\ overlaid \subseteq Proc
    /\ proc \in [Proc -> Process]
    /\ clock \in Clock
    /\ budget \in 0 .. MaxCommands
    /\ term \in [Student -> 0 .. MaxTerm]
    /\ entered \in [Student -> [Day -> Nat]]
    /\ left \in [Student -> [Day -> Nat]]
    /\ told \in [Student -> BOOLEAN]

\* state.json says "completed" only for a user for whom the server recorded all
\* the exits of that day or whose term count is at the limit, whatever commands
\* run side by side, whichever answers are lost, and wherever one is killed.
CompletedIsEarned ==
    \A s \in Student :
        file[s].status = "completed" =>
            left[s][file[s].date] >= Rounds \/ term[s] >= Limit

\* state.json never claims more rounds for a date than the server recorded:
\* lost updates and crashes may forget a round but cannot invent one.
NoPhantomRounds ==
    \A s \in Student : file[s].rounds <= left[s][file[s].date]

\* No command sends an exit for a date on which the server recorded no entrance
\* of that user: perform_exit acts on a record that may be stale, but never on
\* one carried over from another date or made up by a failure.
ExitAfterEntrance ==
    \A p \in Proc :
        proc[p].pc \in {"check", "upload"} /\ proc[p].act = "exit" =>
            entered[proc[p].cur][Date(proc[p])] > 0

\* What state.json and a command at work claim has been earned: no interleaving,
\* failure or kill lets the runner complete a day, count a round or send an exit
\* that the server's records do not bear out.
NothingInvented == CompletedIsEarned /\ NoPhantomRounds /\ ExitAfterEntrance

\* With one command at a time and none killed, each exit the server records
\* consumes an entrance of its own.
RoundsPaired ==
    \A s \in Student, d \in Day : left[s][d] <= entered[s][d]

\* With one command at a time, no lost answers and only scheduler ticks, nobody
\* is checked out more often in a day than he asked for.
NoExtraRounds ==
    \A s \in Student, d \in Day : left[s][d] <= Rounds

\* With one command at a time and none killed, once any answer has told that a
\* user is at the limit no tick and no run --once checks him in again: the
\* count survives errors, clear-errors, refreshes and the change of date.
NoCheckAfterLimit ==
    \A p \in Proc :
        proc[p].pc = "check" /\ proc[p].cmd # "refresh" => ~told[proc[p].cur]

\* With one command at a time and no lost answer, the rounds ticks recorded on a
\* date fit between the opening of its first window and now: between their k
\* exits and k entrances lie 2k - 1 waits.
DayHoldsItsRounds ==
    \A s \in Student, d \in Day :
        left[s][d] > 0 =>
            \E v \in Windows : (2 * left[s][d] - 1) * Wait <= clock - ((d - 1) * DaySlots + v[1])

\* No round more than asked for, and none before its waits are over, through
\* refusals, clear-errors and the gap between two windows.
RoundsInTime == NoExtraRounds /\ DayHoldsItsRounds

\* An error record of state.json is replaced only by clear-errors, by run --once,
\* which starts over, or by the first tick of a later date: no other tick lifts
\* it, while commands do not overlap and nobody asks for count --refresh.  A user
\* who was deleted loses his record.
ErrorHeld ==
    [][\A s \in Student :
          file[s].status = "error" /\ file'[s].status # "error" =>
              \E p \in Proc :
                  /\ proc[p].pc = "write"
                  /\ \/ proc[p].cmd \in {"clear", "run"}
                     \/ Date(proc[p]) > file[s].date
                     \/ s \notin proc[p].known]_vars

\* A state.json that does not parse, and of which no running command holds an
\* older copy, stays as it is: no command works from records it could not read,
\* and none repairs the file by writing an empty one over it.
OnlyDamaged ==
    /\ torn
    /\ \A p \in Proc : proc[p].pc \in {"off", "sleep", "users", "states"}
DamageStands == [][OnlyDamaged => OnlyDamaged']_vars

\* A waiting action whose time comes within the model is acted on: the watch
\* loop performs it or, outside the windows, gives it up.
DueIsHandled ==
    \A s \in Student : \A t \in Clock :
        (file[s].status = "waiting" /\ file[s].due = t)
            ~> (file[s].due # t \/ s \notin users)

-----------------------------------------------------------------------------
(* The inductive invariant behind CompletedIsEarned, NoPhantomRounds and   *)
(* ExitAfterEntrance.  e, l and t are what the server recorded: entrances, *)
(* exits, term counts.                                                     *)

\* A record claims nothing the server did not record.
Backed(s, r, e, l, t) ==
    /\ r.next = "exit" => e[s][r.date] > 0
    /\ r.rounds <= l[s][r.date]
    /\ r.status = "completed" => r.rounds >= Rounds \/ r.count >= Limit
    /\ r.count <= t[s]

AllBacked(m, e, l, t) == \A s \in Student : Backed(s, m[s], e, l, t)

\* The user in hand is one the command loaded.
Serving(P) ==
    /\ P.todo \subseteq P.known
    /\ Asleep(P) \/ P.pc \in {"users", "states"} => P.todo = {}
    /\ P.pc = "sleep" => P.cmd = "watch"
    /\ P.pc = "users" => P.cmd \notin {"none", "clear"}
    /\ P.pc = "states" => P.cmd # "none"
    /\ P.pc \in {"decide", "check", "upload"} => P.cmd \notin {"none", "clear"}
    /\ P.pc = "merge" => P.cmd \in {"run", "refresh"}
    /\ P.pc \in {"check", "upload", "merge"} => P.cur \in P.known
    /\ P.pc \in {"truncate", "write"} /\ P.cmd \in {"run", "refresh"} => P.cur \in P.known
    /\ P.pc = "upload" => P.cmd # "refresh"

\* A tick and run --once work on records of the date they took at their start.
Dated(P) ==
    /\ P.pc \in {"decide", "check", "upload", "merge", "truncate", "write"}
    /\ P.cmd \in {"watch", "once", "run"}
    => \A s \in P.known : P.mem[s].date = Date(P)

ExitBacked(P, e) ==
    P.pc \in {"check", "upload"} /\ P.act = "exit" => e[P.cur][Date(P)] > 0

Sound(P, e, l, t) ==
    /\ AllBacked(P.mem, e, l, t)
    /\ AllBacked(P.buf, e, l, t)
    /\ Serving(P)
    /\ Dated(P)
    /\ ExitBacked(P, e)

\* The inductive invariant: state.json and every process claim only what the
\* server recorded, and every process serves a user it loaded, on its own date.
Inductive ==
    /\ TypeOK
    /\ AllBacked(file, entered, left, term)
    /\ \A p \in Proc : Sound(proc[p], entered, left, term)
=============================================================================
