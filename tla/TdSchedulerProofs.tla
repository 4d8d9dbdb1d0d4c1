-------------------------- MODULE TdSchedulerProofs --------------------------
(***************************************************************************)
(* Proofs about TdScheduler for every value of its constants, in two parts.*)
(*                                                                         *)
(* Whatever runs: Inductive is an inductive invariant, and what follows    *)
(* from it.  The lemmas about the rules of TdRules come first, then those  *)
(* about a record and about one process, then one lemma per group of       *)
(* actions.  Inductive speaks of what the server recorded only through e,  *)
(* l and t, so the lemmas about a process are free of primes: an action    *)
(* instantiates them with entered', left' and term'.                       *)
(*                                                                         *)
(* When commands do not overlap and none is killed: AloneInv, of which the *)
(* second part starts at Alone.                                            *)
(***************************************************************************)
EXTENDS TdScheduler, FiniteSetTheorems, TLAPS

-----------------------------------------------------------------------------
(* The rules: what every outcome of a tick keeps of a record. *)

\* DayOf never runs backwards.
LEMMA DayOfMonotone ==
    ASSUME NEW t \in Nat, NEW u \in Nat, t <= u
    PROVE  /\ DayOf(t) \in Nat /\ DayOf(u) \in Nat
           /\ 1 <= DayOf(t)
           /\ DayOf(t) <= DayOf(u)
<1> DEFINE a == t \div DaySlots
           b == u \div DaySlots
           ra == t % DaySlots
           rb == u % DaySlots
<1>1. t = a * DaySlots + ra /\ ra \in 0 .. (DaySlots - 1) /\ a \in Nat
    BY RulesAssumption
<1>2. u = b * DaySlots + rb /\ rb \in 0 .. (DaySlots - 1) /\ b \in Nat
    BY RulesAssumption
<1>3. a <= b
    <2>1. SUFFICES ASSUME a >= b + 1 PROVE FALSE
        BY <1>1, <1>2
    <2>2. a * DaySlots >= (b + 1) * DaySlots
        BY <2>1, <1>1, <1>2, RulesAssumption
    <2>3. QED
        BY <2>2, <1>1, <1>2, RulesAssumption
<1>4. QED
    BY <1>1, <1>2, <1>3 DEF DayOf

\* The date of a clock reading is a day of the model, and no NoDate.
LEMMA DayOfClock ==
    ASSUME NEW t \in Clock
    PROVE  DayOf(t) \in Day /\ DayOf(t) # NoDate
<1>1. t \in Nat /\ MaxClock \in Nat /\ t <= MaxClock
    BY RulesAssumption DEF Clock
<1>2. 1 <= DayOf(t) /\ DayOf(t) <= DayOf(MaxClock) /\ DayOf(t) \in Nat /\ DayOf(MaxClock) \in Nat
    BY <1>1, DayOfMonotone
<1>3. QED
    BY <1>2 DEF Day, NoDate

-----------------------------------------------------------------------------
(* q keeps what r claims: a record that claims nothing of its own. *)

Keeps(q, r) ==
    /\ q \in UserState
    /\ q.date = r.date
    /\ q.rounds = r.rounds
    /\ q.count = r.count
    /\ q.next = "exit" => r.next = "exit"
    /\ q.status = "completed" =>
          r.status = "completed" \/ r.rounds >= Rounds \/ r.count >= Limit

\* A new record starts at round zero.
LEMMA NewStateType ==
    ASSUME NEW date \in Day, NEW c \in {NoCount} \cup 0 .. MaxTerm
    PROVE  /\ NewState(date, c) \in UserState
           /\ NewState(date, c).date = date
           /\ NewState(date, c).rounds = 0
           /\ NewState(date, c).count = c
           /\ NewState(date, c).next = "entrance"
           /\ NewState(date, c).status = "pending"
BY DEF NewState, Fresh, UserState, Status, NextAction, NoTime

LEMMA AbsentType ==
    /\ Absent \in UserState
    /\ Absent.date = NoDate /\ Absent.rounds = 0 /\ Absent.count = NoCount
    /\ Absent.next = "entrance" /\ Absent.status = "absent"
<1>1. NoDate \in Day
    <2>1. DayOf(MaxClock) \in Nat
        BY RulesAssumption, DayOfMonotone
    <2>2. QED
        BY <2>1 DEF Day, NoDate
<1>2. QED
    BY <1>1 DEF Absent, Fresh, UserState, Status, NextAction, NoTime, NoCount

\* What is settled, given up, failed or restarted claims nothing new.
LEMMA RestartKeeps ==
    ASSUME NEW r \in UserState
    PROVE  Keeps(Restart(r), r)
BY DEF Restart, Keeps, UserState, Status, NextAction, NoTime

LEMMA MarkErrorKeeps ==
    ASSUME NEW r \in UserState
    PROVE  Keeps(MarkError(r), r)
BY DEF MarkError, Keeps, UserState, Status, NextAction, NoTime

LEMMA RefreshFailedKeeps ==
    ASSUME NEW r \in UserState
    PROVE  Keeps(RefreshFailed(r), r)
BY DEF RefreshFailed, Keeps, UserState, Status, NextAction

\* run --once completes or skips a user only for his rounds or for the limit.
LEMMA MarkCompletedKeeps ==
    ASSUME NEW r \in UserState, r.rounds >= Rounds \/ r.count >= Limit
    PROVE  Keeps(MarkCompleted(r), r)
BY DEF MarkCompleted, Keeps, UserState, Status, NextAction, NoTime

LEMMA ClearErrorKeeps ==
    ASSUME NEW r \in UserState, NEW date
    PROVE  Keeps(ClearError(r, date), r)
<1>1. Keeps(r, r)
    BY DEF Keeps
<1>2. QED
    BY <1>1, RestartKeeps DEF ClearError

\* A tick that asks nobody settles a record on what the record itself says.
LEMMA SettledKeeps ==
    ASSUME NEW r \in UserState, NEW now \in Clock, ~AsksServer(r, now)
    PROVE  Keeps(Settled(r, now), r)
<1>1. Keeps(r, r)
    BY DEF Keeps
<1>2. Keeps(Restart(r), r)
    BY RestartKeeps
<1>3. CASE ~InAnyWindow(now)
    BY <1>1, <1>2, <1>3 DEF Settled, ExpireDue
<1>4. CASE InAnyWindow(now) /\ r.status \in {"completed", "error"}
    BY <1>1, <1>4 DEF Settled
<1>5. CASE /\ InAnyWindow(now) /\ r.status \notin {"completed", "error"}
           /\ ReachedLimit(r.count) \/ ~DueAfterNow(r.due, now)
    <2>1. r.rounds \in Nat /\ Rounds \in Nat
        BY RulesAssumption DEF UserState
    <2>2. r.rounds >= Rounds \/ r.count >= Limit
        BY <1>5, <2>1 DEF AsksServer, ReachedLimit
    <2>3. Keeps(MarkCompleted(r), r)
        BY <2>2, MarkCompletedKeeps
    <2>4. QED
        BY <1>5, <2>3 DEF Settled
<1>6. CASE /\ InAnyWindow(now) /\ r.status \notin {"completed", "error"}
           /\ ~(ReachedLimit(r.count) \/ ~DueAfterNow(r.due, now))
    BY <1>1, <1>6 DEF Settled
<1>7. QED
    BY <1>3, <1>4, <1>5, <1>6

-----------------------------------------------------------------------------
\* What the server recorded has its type.
Recorded(e, l, t) ==
    /\ e \in [Student -> [Day -> Nat]]
    /\ l \in [Student -> [Day -> Nat]]
    /\ t \in [Student -> 0 .. MaxTerm]

\* The server forgets nothing.
Grows(e, l, t, e2, l2, t2) ==
    /\ Recorded(e, l, t) /\ Recorded(e2, l2, t2)
    /\ \A s \in Student : /\ t[s] <= t2[s]
                          /\ \A d \in Day : e[s][d] <= e2[s][d] /\ l[s][d] <= l2[s][d]

-----------------------------------------------------------------------------
(* One record. *)

LEMMA GrowsBacked ==
    ASSUME NEW e, NEW l, NEW t, NEW e2, NEW l2, NEW t2, Grows(e, l, t, e2, l2, t2),
           NEW s \in Student, NEW r \in UserState, Backed(s, r, e, l, t)
    PROVE  Backed(s, r, e2, l2, t2)
<1>1. r.date \in Day /\ r.rounds \in Nat /\ r.count \in {NoCount} \cup 0 .. MaxTerm
    BY DEF UserState
<1>2. /\ e[s][r.date] \in Nat /\ e2[s][r.date] \in Nat
      /\ l[s][r.date] \in Nat /\ l2[s][r.date] \in Nat
      /\ t[s] \in Nat /\ t2[s] \in Nat
      /\ e[s][r.date] <= e2[s][r.date] /\ l[s][r.date] <= l2[s][r.date] /\ t[s] <= t2[s]
    BY <1>1, RulesAssumption DEF Grows, Recorded
<1>3. QED
    BY <1>1, <1>2, RulesAssumption DEF Backed, NoCount

LEMMA KeepsBacked ==
    ASSUME NEW e, NEW l, NEW t, NEW s \in Student, NEW r \in UserState, NEW q,
           Backed(s, r, e, l, t), Keeps(q, r)
    PROVE  q \in UserState /\ q.date = r.date /\ Backed(s, q, e, l, t)
BY DEF Backed, Keeps

\* A new record is backed by any count the server has reached.
LEMMA NewBacked ==
    ASSUME NEW e, NEW l, NEW t, Recorded(e, l, t), NEW s \in Student, NEW d \in Day,
           NEW c \in {NoCount} \cup 0 .. MaxTerm, c <= t[s]
    PROVE  /\ NewState(d, c) \in UserState
           /\ NewState(d, c).date = d
           /\ Backed(s, NewState(d, c), e, l, t)
<1>1. l[s][d] \in Nat
    BY DEF Recorded
<1>2. QED
    BY <1>1, NewStateType DEF Backed

LEMMA AbsentBacked ==
    ASSUME NEW e, NEW l, NEW t, Recorded(e, l, t), NEW s \in Student
    PROVE  Absent \in UserState /\ Backed(s, Absent, e, l, t)
<1>1. NoDate \in Day
    BY AbsentType DEF UserState
<1>2. l[s][NoDate] \in Nat /\ t[s] \in Nat
    BY <1>1, RulesAssumption DEF Recorded
<1>3. QED
    BY <1>2, AbsentType DEF Backed, NoCount

\* An answer's count is one the server has reached.
LEMMA CountedBacked ==
    ASSUME NEW e, NEW l, NEW t, Recorded(e, l, t), NEW s \in Student,
           NEW r \in UserState, Backed(s, r, e, l, t), NEW c \in {NoCount, t[s]}
    PROVE  /\ Counted(r, c) \in UserState
           /\ Counted(r, c).date = r.date
           /\ Backed(s, Counted(r, c), e, l, t)
<1>1. CASE c = NoCount
    BY <1>1 DEF Counted
<1>2. CASE c # NoCount
    <2>1. c = t[s] /\ t[s] \in 0 .. MaxTerm
        BY <1>2 DEF Recorded
    <2>2. r.count \in {NoCount} \cup 0 .. MaxTerm
        BY DEF UserState
    <2>3. r.status = "completed" => r.rounds >= Rounds \/ t[s] >= Limit
        BY <2>1, <2>2, RulesAssumption DEF Backed, NoCount
    <2>4. QED
        BY <1>2, <2>1, <2>3, RulesAssumption DEF Counted, UserState, Backed
<1>3. QED
    BY <1>1, <1>2

LEMMA TodayBacked ==
    ASSUME NEW e, NEW l, NEW t, Recorded(e, l, t), NEW s \in Student,
           NEW r \in UserState, Backed(s, r, e, l, t), NEW d \in Day
    PROVE  /\ TodayState(r, d) \in UserState
           /\ TodayState(r, d).date = d
           /\ Backed(s, TodayState(r, d), e, l, t)
<1>1. r.count \in {NoCount} \cup 0 .. MaxTerm /\ r.count <= t[s]
    BY DEF UserState, Backed
<1>2. QED
    BY <1>1, NewBacked DEF TodayState

LEMMA PreviousBacked ==
    ASSUME NEW e, NEW l, NEW t, Recorded(e, l, t), NEW s \in Student,
           NEW r \in UserState, Backed(s, r, e, l, t)
    PROVE  /\ PreviousState(r) \in UserState
           /\ Backed(s, PreviousState(r), e, l, t)
<1>1. NoDate \in Day
    BY AbsentType DEF UserState
<1>2. NoCount <= t[s]
    BY RulesAssumption DEF Recorded, NoCount
<1>3. QED
    BY <1>1, <1>2, NewBacked DEF PreviousState

\* The next action is due a wait after a reading of the clock.
LEMMA AwaitNextType ==
    ASSUME NEW r \in UserState, NEW next \in NextAction, NEW now \in Clock
    PROVE  /\ AwaitNext(r, next, now) \in UserState
           /\ AwaitNext(r, next, now).date = r.date
           /\ AwaitNext(r, next, now).rounds = r.rounds
           /\ AwaitNext(r, next, now).count = r.count
           /\ AwaitNext(r, next, now).next = next
           /\ AwaitNext(r, next, now).status = "waiting"
<1>1. now + Wait \in Nat
    BY RulesAssumption DEF Clock
<1>2. QED
    BY <1>1 DEF AwaitNext, UserState, Status

LEMMA EntranceDoneBacked ==
    ASSUME NEW e, NEW l, NEW t, NEW s \in Student,
           NEW r \in UserState, Backed(s, r, e, l, t), NEW now \in Clock,
           e[s][r.date] > 0
    PROVE  /\ EntranceDone(r, now) \in UserState
           /\ EntranceDone(r, now).date = r.date
           /\ Backed(s, EntranceDone(r, now), e, l, t)
BY AwaitNextType DEF EntranceDone, Backed, NextAction

\* A round more is backed by an exit more.
LEMMA RoundMoreBacked ==
    ASSUME NEW e, NEW l, NEW t, Recorded(e, l, t), NEW s \in Student,
           NEW r \in UserState, Backed(s, r, e, l, t),
           r.rounds + 1 <= l[s][r.date]
    PROVE  /\ [r EXCEPT !.rounds = @ + 1] \in UserState
           /\ [r EXCEPT !.rounds = @ + 1].date = r.date
           /\ [r EXCEPT !.rounds = @ + 1].rounds = r.rounds + 1
           /\ Backed(s, [r EXCEPT !.rounds = @ + 1], e, l, t)
<1>1. r.rounds \in Nat /\ r.rounds + 1 \in Nat
    BY DEF UserState
<1>2. [r EXCEPT !.rounds = @ + 1] \in UserState
    BY <1>1 DEF UserState
<1>3. r.rounds >= Rounds => r.rounds + 1 >= Rounds
    BY <1>1, RulesAssumption
<1>4. QED
    BY <1>1, <1>2, <1>3 DEF Backed, UserState

LEMMA ExitDoneBacked ==
    ASSUME NEW e, NEW l, NEW t, Recorded(e, l, t), NEW s \in Student,
           NEW r \in UserState, Backed(s, r, e, l, t), NEW now \in Clock,
           r.rounds + 1 <= l[s][r.date]
    PROVE  /\ ExitDone(r, now) \in UserState
           /\ ExitDone(r, now).date = r.date
           /\ Backed(s, ExitDone(r, now), e, l, t)
<1> DEFINE q == [r EXCEPT !.rounds = @ + 1]
<1>1. q \in UserState /\ q.date = r.date /\ Backed(s, q, e, l, t)
    BY RoundMoreBacked
<1> HIDE DEF q
<1>2. CASE q.rounds >= Rounds \/ ReachedLimit(q.count)
    <2>1. Keeps(MarkCompleted(q), q)
        BY <1>1, <1>2, MarkCompletedKeeps DEF ReachedLimit
    <2>2. /\ MarkCompleted(q) \in UserState /\ MarkCompleted(q).date = r.date
          /\ Backed(s, MarkCompleted(q), e, l, t)
        BY <1>1, <2>1, KeepsBacked
    <2>3. ExitDone(r, now) = MarkCompleted(q)
        BY <1>2 DEF ExitDone, q
    <2>4. QED
        BY <2>2, <2>3
<1>3. CASE ~(q.rounds >= Rounds \/ ReachedLimit(q.count))
    <2>1. /\ AwaitNext(q, "entrance", now) \in UserState
          /\ AwaitNext(q, "entrance", now).date = r.date
          /\ Backed(s, AwaitNext(q, "entrance", now), e, l, t)
        BY <1>1, AwaitNextType DEF Backed, NextAction
    <2>2. ExitDone(r, now) = AwaitNext(q, "entrance", now)
        BY <1>3 DEF ExitDone, q
    <2>3. QED
        BY <2>1, <2>2
<1>4. QED
    BY <1>2, <1>3

\* run --once may note an exit as its next action only after an entrance.
LEMMA RunFailedBacked ==
    ASSUME NEW e, NEW l, NEW t, NEW s \in Student,
           NEW r \in UserState, Backed(s, r, e, l, t),
           NEW action \in {"entrance", "exit"}, action = "exit" => e[s][r.date] > 0
    PROVE  /\ RunFailed(r, action) \in UserState
           /\ RunFailed(r, action).date = r.date
           /\ Backed(s, RunFailed(r, action), e, l, t)
BY DEF RunFailed, UserState, Status, NextAction, Backed

LEMMA RefreshedBacked ==
    ASSUME NEW e, NEW l, NEW t, Recorded(e, l, t), NEW s \in Student,
           NEW r \in UserState, Backed(s, r, e, l, t), NEW c, c = t[s]
    PROVE  /\ Refreshed(r, c) \in UserState
           /\ Refreshed(r, c).date = r.date
           /\ Backed(s, Refreshed(r, c), e, l, t)
<1>1. c \in 0 .. MaxTerm /\ c <= t[s]
    BY RulesAssumption DEF Recorded
<1>2. QED
    BY <1>1 DEF Refreshed, ReachedLimit, UserState, Status, NextAction, Backed

-----------------------------------------------------------------------------
(* One process. *)

ProcOK(P, e, l, t) == P \in Process /\ Sound(P, e, l, t)

LEMMA IdleOK ==
    ASSUME NEW e, NEW l, NEW t, Recorded(e, l, t)
    PROVE  ProcOK(Idle, e, l, t)
<1>1. NoStates \in States /\ AllBacked(NoStates, e, l, t)
    BY AbsentBacked DEF NoStates, States, AllBacked
<1>2. 0 \in Clock
    BY RulesAssumption DEF Clock
<1>3. Idle \in Process
    BY <1>1, <1>2 DEF Idle, Process, PC, Command
<1>4. Serving(Idle) /\ Dated(Idle) /\ ExitBacked(Idle, e)
    BY DEF Idle, Serving, Asleep, Dated, ExitBacked
<1>5. Idle.mem = NoStates /\ Idle.buf = NoStates
    BY DEF Idle
<1>6. QED
    BY <1>1, <1>3, <1>4, <1>5 DEF ProcOK, Sound

LEMMA EndedOK ==
    ASSUME NEW e, NEW l, NEW t, Recorded(e, l, t), NEW P \in Process, NEW ok \in BOOLEAN
    PROVE  ProcOK(Ended(P, ok), e, l, t)
<1>1. ProcOK(Idle, e, l, t)
    BY IdleOK
<1>2. P.now \in Clock
    BY DEF Process
<1> DEFINE Q == [Idle EXCEPT !.pc = "sleep", !.cmd = "watch", !.now = P.now]
<1>3. Q \in Process
    BY <1>1, <1>2 DEF ProcOK, Process, PC, Command
<1>4. /\ Q.mem = Idle.mem /\ Q.buf = Idle.buf /\ Q.todo = {} /\ Q.known = {}
      /\ Q.pc = "sleep" /\ Q.cmd = "watch"
    BY DEF Idle
<1>5. ProcOK(Q, e, l, t)
    BY <1>1, <1>3, <1>4 DEF ProcOK, Sound, Serving, Asleep, Dated, ExitBacked
<1>6. QED
    BY <1>1, <1>5 DEF Ended

\* A process stays sound while the server records more.
LEMMA ProcGrows ==
    ASSUME NEW e, NEW l, NEW t, NEW e2, NEW l2, NEW t2, Grows(e, l, t, e2, l2, t2),
           NEW P, ProcOK(P, e, l, t)
    PROVE  ProcOK(P, e2, l2, t2)
<1>1. P \in Process /\ P.mem \in States /\ P.buf \in States
    BY DEF ProcOK, Process
<1>2. ASSUME NEW m \in States, AllBacked(m, e, l, t)
      PROVE  AllBacked(m, e2, l2, t2)
    <2>1. \A s \in Student : m[s] \in UserState
        BY DEF States
    <2>2. QED
        BY <1>2, <2>1, GrowsBacked DEF AllBacked
<1>3. ASSUME P.pc \in {"check", "upload"}, P.act = "exit"
      PROVE  e2[P.cur][Date(P)] > 0
    <2>1. P.cur \in Student /\ P.now \in Clock
        BY <1>1, <1>3 DEF ProcOK, Sound, Serving, Process
    <2>2. Date(P) \in Day
        BY <2>1, DayOfClock DEF Date
    <2>3. e[P.cur][Date(P)] > 0
        BY <1>3 DEF ProcOK, Sound, ExitBacked
    <2>4. /\ e[P.cur][Date(P)] \in Nat /\ e2[P.cur][Date(P)] \in Nat
          /\ e[P.cur][Date(P)] <= e2[P.cur][Date(P)]
        BY <2>1, <2>2 DEF Grows, Recorded
    <2>5. QED
        BY <2>3, <2>4
<1>4. QED
    BY <1>1, <1>2, <1>3 DEF ProcOK, Sound, ExitBacked

-----------------------------------------------------------------------------
(* Serving one user. *)

\* What a failed request leaves in the record.
LEMMA FailedBacked ==
    ASSUME NEW e, NEW l, NEW t, NEW P \in Process, NEW s \in Student,
           NEW r \in UserState, Backed(s, r, e, l, t),
           P.cmd \in {"watch", "once", "run", "refresh"},
           P.cmd = "run" /\ P.act = "exit" => e[s][r.date] > 0
    PROVE  /\ Failed(P, r) \in UserState
           /\ Failed(P, r).date = r.date
           /\ Backed(s, Failed(P, r), e, l, t)
<1>1. CASE Ticks(P)
    <2>1. Failed(P, r) = MarkError(r)
        BY <1>1 DEF Failed, Ticks
    <2>2. QED
        BY <2>1, MarkErrorKeeps, KeepsBacked
<1>2. CASE P.cmd = "run"
    <2>1. Failed(P, r) = RunFailed(r, P.act)
        BY <1>2 DEF Failed, Ticks
    <2>2. P.act \in {"entrance", "exit"}
        BY DEF Process
    <2>3. QED
        BY <1>2, <2>1, <2>2, RunFailedBacked
<1>3. CASE P.cmd = "refresh"
    <2>1. Failed(P, r) = RefreshFailed(r)
        BY <1>3 DEF Failed, Ticks
    <2>2. QED
        BY <2>1, RefreshFailedKeeps, KeepsBacked
<1>4. QED
    BY <1>1, <1>2, <1>3 DEF Ticks

\* Writing a backed record of the same date into the map worked on.
LEMMA PutRecord ==
    ASSUME NEW e, NEW l, NEW t, NEW m \in States, AllBacked(m, e, l, t),
           NEW s \in Student, NEW r \in UserState, Backed(s, r, e, l, t)
    PROVE  /\ [m EXCEPT ![s] = r] \in States
           /\ AllBacked([m EXCEPT ![s] = r], e, l, t)
           /\ \A u \in Student : u # s => [m EXCEPT ![s] = r][u] = m[u]
           /\ [m EXCEPT ![s] = r][s] = r
BY DEF States, AllBacked

\* The record of the user in hand is decided.
LEMMA DecidedOK ==
    ASSUME NEW e, NEW l, NEW t, NEW P, ProcOK(P, e, l, t),
           P.pc \in {"decide", "check", "upload"}, P.cur \in P.known,
           NEW r \in UserState, r.date = Record(P).date,
           Backed(P.cur, r, e, l, t)
    PROVE  ProcOK(Decided(P, r), e, l, t)
<1> DEFINE m == [P.mem EXCEPT ![P.cur] = r]
           Q == [P EXCEPT !.mem[P.cur] = r]
           T == [Q EXCEPT !.pc = "decide", !.todo = @ \ {P.cur}, !.cur = NoStudent]
           M == [Q EXCEPT !.pc = "merge"]
<1>1. P \in Process /\ Sound(P, e, l, t)
    BY DEF ProcOK
<1>2. P.cur \in Student /\ P.mem \in States /\ AllBacked(P.mem, e, l, t)
    BY <1>1 DEF Process, Sound
<1>3. /\ m \in States /\ AllBacked(m, e, l, t)
      /\ \A u \in Student : u # P.cur => m[u] = P.mem[u]
      /\ m[P.cur] = r
    BY <1>2, PutRecord
<1>4. /\ Q \in Process
      /\ Q.mem = m /\ Q.buf = P.buf /\ Q.known = P.known /\ Q.todo = P.todo
      /\ Q.cmd = P.cmd /\ Q.cur = P.cur /\ Q.now = P.now /\ Q.pc = P.pc /\ Q.act = P.act
    BY <1>1, <1>3 DEF Process
<1> HIDE DEF Q
<1>5. \A u \in P.known : m[u].date = P.mem[u].date
    BY <1>1, <1>3 DEF Record, Process
<1> HIDE DEF m
<1>6. P.cmd \notin {"none", "clear"}
    BY <1>1 DEF Sound, Serving
<1>7. ProcOK(T, e, l, t)
    <2>1. T \in Process
        BY <1>4 DEF Process, PC
    <2>2. /\ T.mem = m /\ T.buf = P.buf /\ T.known = P.known /\ T.todo \subseteq P.todo
          /\ T.cmd = P.cmd /\ T.now = P.now /\ T.pc = "decide"
        BY <1>4 DEF Process
    <2> HIDE DEF T
    <2>3. Dated(T)
        BY <1>1, <1>5, <2>2 DEF Sound, Dated, Date
    <2>4. Serving(T)
        BY <1>1, <1>6, <2>2 DEF Sound, Serving, Asleep
    <2>5. QED
        BY <1>1, <1>3, <2>1, <2>2, <2>3, <2>4 DEF ProcOK, Sound, ExitBacked
<1>8. ASSUME ~Ticks(P) PROVE ProcOK(M, e, l, t)
    <2>1. M \in Process
        BY <1>4 DEF Process, PC
    <2>2. /\ M.mem = m /\ M.buf = P.buf /\ M.known = P.known /\ M.todo = P.todo
          /\ M.cmd = P.cmd /\ M.now = P.now /\ M.pc = "merge" /\ M.cur = P.cur
        BY <1>4 DEF Process
    <2> HIDE DEF M
    <2>3. Dated(M)
        BY <1>1, <1>5, <2>2 DEF Sound, Dated, Date
    <2>4. Serving(M)
        <3>1. M.cmd \in {"run", "refresh"}
            BY <1>1, <1>6, <1>8, <2>2 DEF Process, Command, Ticks
        <3>2. QED
            BY <1>1, <2>2, <3>1 DEF Sound, Serving, Asleep
    <2>5. QED
        BY <1>1, <1>3, <2>1, <2>2, <2>3, <2>4 DEF ProcOK, Sound, ExitBacked
<1>9. QED
    BY <1>7, <1>8 DEF Decided, Q

\* run and refresh go on to the next user, or end.
LEMMA ServedOK ==
    ASSUME NEW e, NEW l, NEW t, Recorded(e, l, t), NEW P, ProcOK(P, e, l, t),
           NEW ok \in BOOLEAN, P.pc \in {"merge", "write"}, P.cmd \in {"run", "refresh"}
    PROVE  ProcOK(Served(P, ok), e, l, t)
<1> DEFINE Q == [P EXCEPT !.pc = "decide", !.todo = @ \ {P.cur}, !.cur = NoStudent,
                          !.act = "entrance", !.buf = NoStates]
<1>1. P \in Process /\ Sound(P, e, l, t)
    BY DEF ProcOK
<1>2. ProcOK(Ended(P, FALSE), e, l, t)
    BY <1>1, EndedOK
<1>3. NoStates \in States /\ AllBacked(NoStates, e, l, t)
    BY AbsentBacked DEF NoStates, States, AllBacked
<1>4. Q \in Process
    BY <1>1, <1>3 DEF Process, PC
<1>5. /\ Q.mem = P.mem /\ Q.buf = NoStates /\ Q.known = P.known /\ Q.todo \subseteq P.todo
      /\ Q.cmd = P.cmd /\ Q.now = P.now /\ Q.pc = "decide"
    BY <1>1 DEF Process
<1> HIDE DEF Q
<1>6. Dated(Q) /\ Serving(Q)
    BY <1>1, <1>5 DEF Sound, Dated, Serving, Asleep, Date
<1>7. ProcOK(Q, e, l, t)
    BY <1>1, <1>3, <1>4, <1>5, <1>6 DEF ProcOK, Sound, ExitBacked
<1>8. QED
    BY <1>2, <1>7 DEF Served, Q

-----------------------------------------------------------------------------
(* One step of one process. *)

\* The variables no process owns have their types.
Surroundings ==
    /\ users \subseteq Student
    /\ file \in States
    /\ torn \in BOOLEAN
    /\ overlaid \subseteq Proc
    /\ clock \in Clock
    /\ budget \in 0 .. MaxCommands
    /\ told \in [Student -> BOOLEAN]

LEMMA InductiveParts ==
    Inductive <=> /\ Surroundings
                  /\ Recorded(entered, left, term)
                  /\ AllBacked(file, entered, left, term)
                  /\ proc \in [Proc -> Process]
                  /\ \A p \in Proc : ProcOK(proc[p], entered, left, term)
BY DEF Inductive, TypeOK, Surroundings, Recorded, ProcOK

\* Nothing is forgotten by a server that records nothing new.
LEMMA GrowsSame ==
    ASSUME NEW e, NEW l, NEW t, Recorded(e, l, t)
    PROVE  Grows(e, l, t, e, l, t)
BY RulesAssumption DEF Grows, Recorded

\* A process that becomes sound, beside others that stay as they are.
LEMMA ProcessStep ==
    ASSUME Inductive, NEW p \in Proc, NEW Q, Become(p, Q),
           Grows(entered, left, term, entered', left', term'),
           ProcOK(Q, entered', left', term'),
           Surroundings', AllBacked(file', entered', left', term')
    PROVE  Inductive'
<1>1. proc' \in [Proc -> Process]
    BY InductiveParts DEF Become, ProcOK
<1>2. ASSUME NEW q \in Proc PROVE ProcOK(proc'[q], entered', left', term')
    <2>1. CASE q = p
        BY <2>1, InductiveParts DEF Become
    <2>2. CASE q # p
        <3>1. proc'[q] = proc[q] /\ ProcOK(proc[q], entered, left, term)
            BY <2>2, InductiveParts DEF Become
        <3>2. QED
            BY <3>1, ProcGrows
    <2>3. QED
        BY <2>1, <2>2
<1>3. Recorded(entered', left', term')
    BY DEF Grows
<1>4. QED
    BY <1>1, <1>2, <1>3 DEF Inductive, TypeOK, Surroundings, Recorded, ProcOK

\* The same, when nothing but the process changes.
LEMMA QuietStep ==
    ASSUME Inductive, NEW p \in Proc, NEW Q, Become(p, Q),
           ProcOK(Q, entered, left, term),
           UNCHANGED <<users, store, clock, budget, server>>
    PROVE  Inductive'
<1>1. Grows(entered, left, term, entered', left', term')
    BY GrowsSame, InductiveParts DEF server
<1>2. Surroundings' /\ AllBacked(file', entered', left', term')
    BY InductiveParts DEF Surroundings, store, server
<1>3. ProcOK(Q, entered', left', term')
    BY DEF server
<1>4. QED
    BY <1>1, <1>2, <1>3, ProcessStep

-----------------------------------------------------------------------------
(* The actions that start, load and serve. *)

LEMMA InitInductive == Init => Inductive
<1> SUFFICES ASSUME Init PROVE Inductive
    OBVIOUS
<1>1. Recorded(entered, left, term)
    BY RulesAssumption DEF Init, Recorded
<1>2. NoStates \in States /\ AllBacked(NoStates, entered, left, term)
    BY <1>1, AbsentBacked DEF NoStates, States, AllBacked
<1>3. ProcOK(Idle, entered, left, term)
    BY <1>1, IdleOK
<1>4. proc \in [Proc -> Process] /\ \A p \in Proc : ProcOK(proc[p], entered, left, term)
    BY <1>3 DEF Init, ProcOK
<1>5. Surroundings
    <2>1. clock \in Clock /\ budget \in 0 .. MaxCommands
        BY RulesAssumption, SchedulerAssumption DEF Init, Clock
    <2>2. users \subseteq Student /\ file \in States /\ torn \in BOOLEAN /\ overlaid \subseteq Proc
        BY <1>2 DEF Init
    <2>3. told \in [Student -> BOOLEAN]
        BY DEF Init
    <2>4. QED
        BY <2>1, <2>2, <2>3 DEF Surroundings
<1>6. file = NoStates
    BY DEF Init
<1>7. QED
    BY <1>1, <1>2, <1>4, <1>5, <1>6, InductiveParts

LEMMA StartOK ==
    ASSUME Inductive, NEW p \in Proc, NEW c \in Commands, Start(p, c)
    PROVE  Inductive'
<1> DEFINE Q == [Idle EXCEPT !.pc = IF c = "clear" THEN "states" ELSE "users",
                             !.cmd = c, !.now = clock]
<1>1. c \in {"watch", "once", "run", "refresh", "clear"} /\ budget > 0
    BY SchedulerAssumption DEF Start
<1>2. ProcOK(Idle, entered, left, term) /\ clock \in Clock
    BY IdleOK, InductiveParts DEF Surroundings
<1>3. Q \in Process
    BY <1>1, <1>2 DEF ProcOK, Process, PC, Command
<1>4. /\ Q.mem = Idle.mem /\ Q.buf = Idle.buf /\ Q.todo = {} /\ Q.known = {}
      /\ Q.pc = (IF c = "clear" THEN "states" ELSE "users") /\ Q.cmd = c
    BY DEF Idle
<1> HIDE DEF Q
<1>5. ProcOK(Q, entered, left, term)
    BY <1>1, <1>2, <1>3, <1>4 DEF ProcOK, Sound, Serving, Asleep, Dated, ExitBacked
<1>6. Become(p, Q) /\ UNCHANGED <<users, store, clock, server>> /\ budget' = budget - 1
    BY DEF Start, Q
<1>7. Grows(entered, left, term, entered', left', term')
    BY <1>6, GrowsSame, InductiveParts DEF server
<1>8. Surroundings' /\ AllBacked(file', entered', left', term')
    BY <1>1, <1>6, InductiveParts, SchedulerAssumption DEF Surroundings, store, server
<1>9. ProcOK(Q, entered', left', term')
    BY <1>5, <1>6 DEF server
<1>10. QED
    BY <1>6, <1>7, <1>8, <1>9, ProcessStep

LEMMA WakeOK ==
    ASSUME Inductive, NEW p \in Proc, Wake(p)
    PROVE  Inductive'
<1> DEFINE P == proc[p]
           Q == [P EXCEPT !.pc = "users"]
<1>1. ProcOK(P, entered, left, term) /\ P.pc = "sleep"
    BY InductiveParts DEF Wake
<1>2. Become(p, Q) /\ UNCHANGED <<users, store, clock, budget, server>>
    BY DEF Wake
<1> HIDE DEF P
<1>3. P.cmd = "watch"
    BY <1>1 DEF ProcOK, Sound, Serving
<1>4. ProcOK(Q, entered, left, term)
    <2>1. Q \in Process
        BY <1>1 DEF ProcOK, Process, PC
    <2>2. /\ Q.mem = P.mem /\ Q.buf = P.buf /\ Q.known = P.known /\ Q.todo = P.todo
          /\ Q.cmd = P.cmd /\ Q.pc = "users"
        BY <1>1 DEF ProcOK, Process
    <2> HIDE DEF Q
    <2>3. QED
        BY <1>1, <1>3, <2>1, <2>2 DEF ProcOK, Sound, Serving, Asleep, Dated, ExitBacked
<1>5. QED
    BY <1>2, <1>4, QuietStep

LEMMA LoadUsersOK ==
    ASSUME Inductive, NEW p \in Proc, LoadUsers(p)
    PROVE  Inductive'
<1> DEFINE P == proc[p]
           Q == [P EXCEPT !.pc = "states", !.known = users]
<1>1. ProcOK(P, entered, left, term) /\ P.pc = "users" /\ users \subseteq Student
    BY InductiveParts DEF LoadUsers, Surroundings
<1>2. Become(p, Q) /\ UNCHANGED <<users, store, clock, budget, server>>
    BY DEF LoadUsers
<1> HIDE DEF P
<1>3. ProcOK(Q, entered, left, term)
    <2>1. Q \in Process
        BY <1>1 DEF ProcOK, Process, PC
    <2>2. /\ Q.mem = P.mem /\ Q.buf = P.buf /\ Q.todo = P.todo
          /\ Q.cmd = P.cmd /\ Q.pc = "states"
        BY <1>1 DEF ProcOK, Process
    <2> HIDE DEF Q
    <2>3. QED
        BY <1>1, <2>1, <2>2 DEF ProcOK, Sound, Serving, Asleep, Dated, ExitBacked
<1>4. QED
    BY <1>2, <1>3, QuietStep

LEMMA UnreadableStatesOK ==
    ASSUME Inductive, NEW p \in Proc, UnreadableStates(p)
    PROVE  Inductive'
<1> DEFINE Q == Ended(proc[p], FALSE)
<1>1. ProcOK(Q, entered, left, term)
    BY InductiveParts, EndedOK
<1>2. Become(p, Q) /\ UNCHANGED <<users, store, clock, budget, server>>
    BY DEF UnreadableStates
<1>3. QED
    BY <1>1, <1>2, QuietStep

\* What a command loads is backed, and for a tick or a run it is of its date.
LEMMA LoadedBacked ==
    ASSUME Inductive, NEW P, P.known \subseteq Student, P.now \in Clock,
           P.cmd \in {"watch", "once", "run", "refresh"}, NEW s \in Student
    PROVE  /\ Loaded(P, s) \in UserState
           /\ Backed(s, Loaded(P, s), entered, left, term)
           /\ s \in P.known /\ P.cmd # "refresh" => Loaded(P, s).date = Date(P)
<1>1. /\ Recorded(entered, left, term)
      /\ file[s] \in UserState /\ Backed(s, file[s], entered, left, term)
    BY InductiveParts DEF Surroundings, States, AllBacked
<1>2. Date(P) \in Day
    BY DayOfClock DEF Date
<1>3. CASE s \notin P.known
    BY <1>1, <1>3, AbsentBacked DEF Loaded
<1>4. CASE s \in P.known /\ P.cmd = "run"
    <2>1. Loaded(P, s) = NewState(Date(P), file[s].count)
        BY <1>4 DEF Loaded, Ticks
    <2>2. file[s].count \in {NoCount} \cup 0 .. MaxTerm /\ file[s].count <= term[s]
        BY <1>1 DEF UserState, Backed
    <2>3. QED
        BY <1>1, <1>2, <2>1, <2>2, NewBacked
<1>5. CASE s \in P.known /\ P.cmd = "refresh"
    <2>1. Loaded(P, s) = PreviousState(file[s])
        BY <1>5 DEF Loaded, Ticks
    <2>2. QED
        BY <1>1, <1>5, <2>1, PreviousBacked
<1>6. CASE s \in P.known /\ Ticks(P)
    <2>1. Loaded(P, s) = TodayState(file[s], Date(P))
        BY <1>6 DEF Loaded, Ticks
    <2>2. QED
        BY <1>1, <1>2, <2>1, TodayBacked
<1>7. QED
    BY <1>3, <1>4, <1>5, <1>6 DEF Ticks

LEMMA LoadStatesOK ==
    ASSUME Inductive, NEW p \in Proc, LoadStates(p)
    PROVE  Inductive'
<1> DEFINE P == [proc[p] EXCEPT !.now = clock]
           m == [s \in Student |-> Loaded(P, s)]
<1>1. /\ ProcOK(proc[p], entered, left, term) /\ clock \in Clock
      /\ proc[p].pc = "states" /\ proc[p].cmd # "clear"
    BY InductiveParts DEF LoadStates, Surroundings
<1>2. /\ P \in Process /\ P.known = proc[p].known /\ P.now = clock
      /\ P.cmd = proc[p].cmd /\ P.buf = proc[p].buf /\ P.known \subseteq Student
      /\ P.cmd \in {"watch", "once", "run", "refresh"}
    BY <1>1 DEF ProcOK, Process, Command, Sound, Serving
<1>3. PICK work \in SUBSET P.known :
          Become(p, [P EXCEPT !.pc = "decide", !.todo = work, !.mem = m])
    BY <1>2 DEF LoadStates
<1> DEFINE Q == [P EXCEPT !.pc = "decide", !.todo = work, !.mem = m]
<1> HIDE DEF P
<1>4. ASSUME NEW s \in Student
      PROVE  /\ m[s] \in UserState
             /\ Backed(s, m[s], entered, left, term)
             /\ s \in P.known /\ P.cmd # "refresh" => m[s].date = Date(P)
    BY <1>1, <1>2, LoadedBacked
<1>5. m \in States /\ AllBacked(m, entered, left, term)
    BY <1>4 DEF States, AllBacked
<1> HIDE DEF m
<1>6. ProcOK(Q, entered, left, term)
    <2>1. Q \in Process
        BY <1>2, <1>5 DEF Process, PC
    <2>2. /\ Q.mem = m /\ Q.buf = P.buf /\ Q.todo = work /\ Q.known = P.known
          /\ Q.cmd = P.cmd /\ Q.now = P.now /\ Q.pc = "decide"
        BY <1>2 DEF Process
    <2> HIDE DEF Q
    <2>3. Dated(Q) /\ Serving(Q)
        BY <1>2, <1>4, <2>2 DEF Dated, Serving, Asleep, Date
    <2>4. QED
        BY <1>1, <1>2, <1>5, <2>1, <2>2, <2>3 DEF ProcOK, Sound, ExitBacked
<1>7. Become(p, Q) /\ UNCHANGED <<users, store, clock, budget, server>>
    BY <1>3 DEF LoadStates
<1>8. QED
    BY <1>6, <1>7, QuietStep

\* A command that has made up what it will write.
LEMMA BufferOK ==
    ASSUME NEW e, NEW l, NEW t, NEW P, ProcOK(P, e, l, t),
           NEW m \in States, AllBacked(m, e, l, t),
           \/ P.pc = "states" /\ P.cmd = "clear"
           \/ P.pc = "decide" /\ Ticks(P)
           \/ P.pc = "merge"
    PROVE  ProcOK([P EXCEPT !.pc = "truncate", !.buf = m], e, l, t)
<1> DEFINE Q == [P EXCEPT !.pc = "truncate", !.buf = m]
<1>1. Q \in Process
    BY DEF ProcOK, Process, PC
<1>2. /\ Q.mem = P.mem /\ Q.buf = m /\ Q.todo = P.todo /\ Q.known = P.known
      /\ Q.cmd = P.cmd /\ Q.now = P.now /\ Q.cur = P.cur /\ Q.pc = "truncate"
    BY DEF ProcOK, Process
<1> HIDE DEF Q
<1>3. Dated(Q)
    BY <1>2 DEF ProcOK, Sound, Dated, Date, Ticks
<1>4. Serving(Q)
    BY <1>2 DEF ProcOK, Sound, Serving, Asleep, Ticks
<1>5. QED
    BY <1>1, <1>2, <1>3, <1>4 DEF ProcOK, Sound, ExitBacked, Q

LEMMA LoadErrorsOK ==
    ASSUME Inductive, NEW p \in Proc, LoadErrors(p)
    PROVE  Inductive'
<1> DEFINE P == proc[p]
           m == [s \in Student |-> ClearError(file[s], Date(P))]
           Q == IF m = file THEN Ended(P, TRUE)
                            ELSE [P EXCEPT !.pc = "truncate", !.buf = m]
<1>1. ProcOK(P, entered, left, term) /\ P.pc = "states" /\ P.cmd = "clear"
    BY InductiveParts DEF LoadErrors
<1>2. Become(p, Q) /\ UNCHANGED <<users, store, clock, budget, server>>
    BY DEF LoadErrors
<1> HIDE DEF P
<1>3. ASSUME NEW s \in Student
      PROVE  m[s] \in UserState /\ Backed(s, m[s], entered, left, term)
    <2>1. file[s] \in UserState /\ Backed(s, file[s], entered, left, term)
        BY InductiveParts DEF Surroundings, States, AllBacked
    <2>2. QED
        BY <2>1, ClearErrorKeeps, KeepsBacked
<1>4. m \in States /\ AllBacked(m, entered, left, term)
    BY <1>3 DEF States, AllBacked
<1> HIDE DEF m
<1>5. ProcOK(Ended(P, TRUE), entered, left, term)
    BY <1>1, InductiveParts, EndedOK DEF ProcOK
<1>6. ProcOK(Q, entered, left, term)
    BY <1>1, <1>4, <1>5, BufferOK
<1>7. QED
    BY <1>2, <1>6, QuietStep

-----------------------------------------------------------------------------
(* The user in hand. *)

LEMMA TakeUser ==
    ASSUME NEW e, NEW l, NEW t, NEW P, ProcOK(P, e, l, t), P.pc = "decide", NEW s \in P.todo
    PROVE  /\ s \in Student /\ s \in P.known
           /\ P.mem[s] \in UserState /\ Backed(s, P.mem[s], e, l, t)
           /\ P.cmd \in {"watch", "once", "run", "refresh"}
           /\ P.cmd \in {"watch", "once", "run"} => P.mem[s].date = Date(P)
           /\ ProcOK([P EXCEPT !.cur = s], e, l, t)
<1> DEFINE Q == [P EXCEPT !.cur = s]
<1>1. s \in Student /\ s \in P.known
    BY DEF ProcOK, Process, Sound, Serving
<1>2. P.mem[s] \in UserState /\ Backed(s, P.mem[s], e, l, t)
    BY <1>1 DEF ProcOK, Process, States, Sound, AllBacked
<1>3. /\ P.cmd \in {"watch", "once", "run", "refresh"}
      /\ P.cmd \in {"watch", "once", "run"} => P.mem[s].date = Date(P)
    BY <1>1 DEF ProcOK, Process, Command, Sound, Serving, Dated
<1>4. Q \in Process
    BY <1>1 DEF ProcOK, Process
<1>5. /\ Q.mem = P.mem /\ Q.buf = P.buf /\ Q.todo = P.todo /\ Q.known = P.known
      /\ Q.cmd = P.cmd /\ Q.now = P.now /\ Q.pc = P.pc
    BY DEF ProcOK, Process
<1> HIDE DEF Q
<1>6. Dated(Q) /\ Serving(Q)
    BY <1>5 DEF ProcOK, Sound, Dated, Date, Serving, Asleep
<1>7. ProcOK(Q, e, l, t)
    BY <1>4, <1>5, <1>6 DEF ProcOK, Sound, ExitBacked
<1>8. QED
    BY <1>1, <1>2, <1>3, <1>7 DEF Q

LEMMA InHand ==
    ASSUME NEW e, NEW l, NEW t, NEW P, ProcOK(P, e, l, t), P.pc \in {"check", "upload"}
    PROVE  /\ P.cur \in Student /\ P.cur \in P.known /\ P.now \in Clock /\ Date(P) \in Day
           /\ P.act \in {"entrance", "exit"}
           /\ P.cmd \in {"watch", "once", "run", "refresh"}
           /\ Record(P) \in UserState /\ Backed(P.cur, Record(P), e, l, t)
           /\ P.cmd # "refresh" => Record(P).date = Date(P)
           /\ P.act = "exit" => e[P.cur][Date(P)] > 0
<1>1. P.cur \in Student /\ P.cur \in P.known /\ P.now \in Clock /\ P.act \in {"entrance", "exit"}
    BY DEF ProcOK, Process, Sound, Serving
<1>2. Date(P) \in Day
    BY <1>1, DayOfClock DEF Date
<1>3. P.cmd \in {"watch", "once", "run", "refresh"}
    BY DEF ProcOK, Process, Command, Sound, Serving
<1>4. Record(P) \in UserState /\ Backed(P.cur, Record(P), e, l, t)
    BY <1>1 DEF ProcOK, Process, States, Sound, AllBacked, Record
<1>5. P.cmd # "refresh" => Record(P).date = Date(P)
    BY <1>1, <1>3 DEF ProcOK, Sound, Dated, Record
<1>6. P.act = "exit" => e[P.cur][Date(P)] > 0
    BY DEF ProcOK, Sound, ExitBacked
<1>7. QED
    BY <1>1, <1>2, <1>3, <1>4, <1>5, <1>6

\* A process that goes on with a request about the user in hand.
LEMMA GoesOn ==
    ASSUME NEW e, NEW l, NEW t, NEW P, ProcOK(P, e, l, t), P.pc \in {"check", "upload"},
           NEW r \in UserState, r.date = Record(P).date, Backed(P.cur, r, e, l, t),
           NEW Q \in Process, Q.mem = [P.mem EXCEPT ![P.cur] = r],
           Q.buf = P.buf, Q.known = P.known, Q.todo = P.todo,
           Q.cmd = P.cmd, Q.now = P.now, Q.cur = P.cur,
           Q.pc \in {"check", "upload"}, Q.pc = "upload" => Q.cmd # "refresh",
           Q.act = "exit" => e[P.cur][Date(P)] > 0
    PROVE  ProcOK(Q, e, l, t)
<1>1. P.cur \in Student /\ P.mem \in States /\ AllBacked(P.mem, e, l, t) /\ P.known \subseteq Student
    BY InHand DEF ProcOK, Process, Sound
<1>2. /\ Q.mem \in States /\ AllBacked(Q.mem, e, l, t)
      /\ \A u \in Student : Q.mem[u].date = P.mem[u].date
    BY <1>1, PutRecord DEF Record
<1>3. Dated(Q)
    BY <1>1, <1>2 DEF ProcOK, Sound, Dated, Date
<1>4. Serving(Q)
    BY DEF ProcOK, Sound, Serving, Asleep
<1>5. ExitBacked(Q, e)
    BY DEF ExitBacked, Date
<1>6. QED
    BY <1>2, <1>3, <1>4, <1>5 DEF ProcOK, Sound

\* A step of a process that has heard from the server.
LEMMA ServerStep ==
    ASSUME Inductive, NEW p \in Proc, NEW Q, Become(p, Q),
           Grows(entered, left, term, entered', left', term'),
           ProcOK(Q, entered', left', term'),
           told' \in [Student -> BOOLEAN],
           UNCHANGED <<users, store, clock, budget>>
    PROVE  Inductive'
<1>1. Surroundings'
    BY InductiveParts DEF Surroundings, store
<1>2. AllBacked(file', entered', left', term')
    <2>1. \A s \in Student : file[s] \in UserState /\ Backed(s, file[s], entered, left, term)
        BY InductiveParts DEF Surroundings, States, AllBacked
    <2>2. QED
        BY <2>1, GrowsBacked DEF AllBacked, store
<1>3. QED
    BY <1>1, <1>2, ProcessStep

\* A step that decides the record of the user in hand.
LEMMA DecidedStep ==
    ASSUME Inductive, NEW p \in Proc, NEW P, NEW r,
           Become(p, Decided(P, r)),
           ProcOK(P, entered, left, term),
           P.pc \in {"decide", "check", "upload"}, P.cur \in P.known,
           Grows(entered, left, term, entered', left', term'),
           r \in UserState, r.date = Record(P).date,
           Backed(P.cur, r, entered', left', term'),
           told' \in [Student -> BOOLEAN],
           UNCHANGED <<users, store, clock, budget>>
    PROVE  Inductive'
<1>1. ProcOK(P, entered', left', term')
    BY ProcGrows
<1>2. ProcOK(Decided(P, r), entered', left', term')
    BY <1>1, DecidedOK
<1>3. QED
    BY <1>2, ServerStep

\* The same, when the server hears nothing.
LEMMA DecidedQuietly ==
    ASSUME Inductive, NEW p \in Proc, NEW P, NEW r,
           Become(p, Decided(P, r)),
           ProcOK(P, entered, left, term),
           P.pc \in {"decide", "check", "upload"}, P.cur \in P.known,
           r \in UserState, r.date = Record(P).date,
           Backed(P.cur, r, entered, left, term),
           UNCHANGED <<users, store, clock, budget, server>>
    PROVE  Inductive'
<1>1. ProcOK(Decided(P, r), entered, left, term)
    BY DecidedOK
<1>2. QED
    BY <1>1, QuietStep

LEMMA SettleLocallyOK ==
    ASSUME Inductive, NEW p \in Proc, NEW s \in Student, SettleLocally(p, s)
    PROVE  Inductive'
<1> DEFINE P == proc[p]
           r == Settled(P.mem[s], P.now)
           U == [P EXCEPT !.cur = s]
           m == [P.mem EXCEPT ![s] = r]
           Q == [P EXCEPT !.mem[s] = Settled(@, P.now), !.todo = @ \ {s}]
<1>1. /\ ProcOK(P, entered, left, term) /\ P.pc = "decide" /\ s \in P.todo
      /\ Ticks(P) /\ ~AsksServer(P.mem[s], P.now) /\ P.now \in Clock
    BY InductiveParts DEF SettleLocally, ProcOK, Process
<1>2. Become(p, Q) /\ UNCHANGED <<users, store, clock, budget, server>>
    BY DEF SettleLocally
<1> HIDE DEF P
<1>3. P.mem \in States /\ AllBacked(P.mem, entered, left, term)
    BY <1>1 DEF ProcOK, Process, Sound
<1>4. /\ r \in UserState /\ r.date = P.mem[s].date
      /\ Backed(s, r, entered, left, term)
    <2>1. P.mem[s] \in UserState /\ Backed(s, P.mem[s], entered, left, term)
        BY <1>1, TakeUser
    <2>2. Keeps(r, P.mem[s])
        BY <1>1, <2>1, SettledKeeps
    <2>3. QED
        BY <2>1, <2>2, KeepsBacked
<1>5. /\ m \in States /\ AllBacked(m, entered, left, term)
      /\ \A u \in Student : m[u].date = P.mem[u].date
    BY <1>3, <1>4, PutRecord
<1>6. Q = [P EXCEPT !.mem = m, !.todo = @ \ {s}]
    BY <1>1 DEF ProcOK, Process
<1> HIDE DEF Q
<1> HIDE DEF m
<1>7. ProcOK(Q, entered, left, term)
    <2>1. Q \in Process
        BY <1>1, <1>5, <1>6 DEF ProcOK, Process
    <2>2. /\ Q.mem = m /\ Q.buf = P.buf /\ Q.todo \subseteq P.todo /\ Q.known = P.known
          /\ Q.cmd = P.cmd /\ Q.now = P.now /\ Q.pc = P.pc
        BY <1>1, <1>6 DEF ProcOK, Process
    <2>3. P.known \subseteq Student
        BY <1>1 DEF ProcOK, Process
    <2>4. Dated(Q) /\ Serving(Q)
        BY <1>1, <1>5, <2>2, <2>3 DEF ProcOK, Sound, Dated, Date, Serving, Asleep
    <2>5. QED
        BY <1>1, <1>5, <2>1, <2>2, <2>4 DEF ProcOK, Sound, ExitBacked
<1>8. QED
    BY <1>2, <1>7, QuietStep

LEMMA SkipAtLimitOK ==
    ASSUME Inductive, NEW p \in Proc, NEW s \in Student, SkipAtLimit(p, s)
    PROVE  Inductive'
<1> DEFINE P == [proc[p] EXCEPT !.cur = s]
           r == MarkCompleted(P.mem[s])
<1>1. ProcOK(proc[p], entered, left, term) /\ proc[p].pc = "decide" /\ s \in proc[p].todo
    BY InductiveParts DEF SkipAtLimit, ProcOK, Process
<1>2. /\ P.pc = "decide" /\ P.cur = s /\ P.mem = proc[p].mem /\ P.known = proc[p].known
      /\ Record(P) = P.mem[s]
    BY <1>1 DEF ProcOK, Process, Record
<1>3. Become(p, Decided(P, r)) /\ ReachedLimit(P.mem[s].count)
      /\ UNCHANGED <<users, store, clock, budget, server>>
    BY DEF SkipAtLimit
<1>4. /\ ProcOK(P, entered, left, term) /\ s \in P.known
      /\ P.mem[s] \in UserState /\ Backed(s, P.mem[s], entered, left, term)
    BY <1>1, <1>2, TakeUser
<1> HIDE DEF P
<1>5. Keeps(r, P.mem[s])
    BY <1>3, <1>4, MarkCompletedKeeps DEF ReachedLimit
<1>6. r \in UserState /\ r.date = P.mem[s].date /\ Backed(s, r, entered, left, term)
    BY <1>4, <1>5, KeepsBacked
<1>7. QED
    BY <1>2, <1>3, <1>4, <1>6, DecidedQuietly

LEMMA RunPhotoMissingOK ==
    ASSUME Inductive, NEW p \in Proc, NEW s \in Student, RunPhotoMissing(p, s)
    PROVE  Inductive'
<1> DEFINE P == [proc[p] EXCEPT !.cur = s]
           r == RunFailed(P.mem[s], "entrance")
<1>1. ProcOK(proc[p], entered, left, term) /\ proc[p].pc = "decide" /\ s \in proc[p].todo
    BY InductiveParts DEF RunPhotoMissing, ProcOK, Process
<1>2. /\ P.pc = "decide" /\ P.cur = s /\ P.mem = proc[p].mem /\ P.known = proc[p].known
      /\ Record(P) = P.mem[s]
    BY <1>1 DEF ProcOK, Process, Record
<1>3. Become(p, Decided(P, r)) /\ UNCHANGED <<users, store, clock, budget, server>>
    BY DEF RunPhotoMissing
<1>4. /\ ProcOK(P, entered, left, term) /\ s \in P.known
      /\ P.mem[s] \in UserState /\ Backed(s, P.mem[s], entered, left, term)
    BY <1>1, <1>2, TakeUser
<1> HIDE DEF P
<1>5. r \in UserState /\ r.date = P.mem[s].date /\ Backed(s, r, entered, left, term)
    BY <1>4 DEF RunFailed, UserState, Status, NextAction, Backed
<1>6. QED
    BY <1>2, <1>3, <1>4, <1>5, DecidedQuietly

\* A tick begins an exit only on a record of its own date that awaits one.
LEMMA BeginOK ==
    ASSUME Inductive, NEW p \in Proc, NEW s \in Student, Begin(p, s)
    PROVE  Inductive'
<1> DEFINE P == proc[p]
           act == IF Ticks(P) THEN DueAction(P.mem[s]) ELSE "entrance"
           Q == [P EXCEPT !.pc = "check", !.cur = s, !.act = act]
<1>1. ProcOK(P, entered, left, term) /\ P.pc = "decide" /\ s \in P.todo
    BY InductiveParts DEF Begin, ProcOK, Process
<1>2. Become(p, Q) /\ UNCHANGED <<users, store, clock, budget, server>>
    BY DEF Begin
<1> HIDE DEF P
<1>3. /\ s \in P.known /\ Backed(s, P.mem[s], entered, left, term)
      /\ P.cmd \in {"watch", "once", "run", "refresh"}
      /\ P.cmd \in {"watch", "once", "run"} => P.mem[s].date = Date(P)
    BY <1>1, TakeUser
<1>4. act \in {"entrance", "exit"} /\ (act = "exit" => entered[s][Date(P)] > 0)
    BY <1>3 DEF DueAction, Ticks, Backed
<1> HIDE DEF act
<1>5. ProcOK(Q, entered, left, term)
    <2>1. Q \in Process
        BY <1>1, <1>4 DEF ProcOK, Process, PC
    <2>2. /\ Q.mem = P.mem /\ Q.buf = P.buf /\ Q.todo = P.todo /\ Q.known = P.known
          /\ Q.cmd = P.cmd /\ Q.now = P.now /\ Q.pc = "check" /\ Q.cur = s /\ Q.act = act
        BY <1>1 DEF ProcOK, Process
    <2> HIDE DEF Q
    <2>3. Dated(Q) /\ Serving(Q)
        BY <1>1, <1>3, <2>2 DEF ProcOK, Sound, Dated, Date, Serving, Asleep
    <2>4. ExitBacked(Q, entered)
        BY <1>4, <2>2 DEF ExitBacked, Date
    <2>5. QED
        BY <1>1, <2>1, <2>2, <2>3, <2>4 DEF ProcOK, Sound
<1>6. QED
    BY <1>2, <1>5, QuietStep

-----------------------------------------------------------------------------
(* The check request. *)

LEMMA ServerCountsGrows ==
    ASSUME Inductive, NEW s \in Student, ServerCounts(s), UNCHANGED <<entered, left>>
    PROVE  Grows(entered, left, term, entered', left', term')
<1>1. Recorded(entered, left, term)
    BY InductiveParts
<1>2. PICK n \in {term[s], term[s] + 1} : n <= MaxTerm /\ term' = [term EXCEPT ![s] = n]
    BY DEF ServerCounts
<1>3. term[s] \in 0 .. MaxTerm
    BY <1>1 DEF Recorded
<1>4. n \in 0 .. MaxTerm /\ term[s] <= n
    BY <1>2, <1>3, RulesAssumption
<1>5. term' \in [Student -> 0 .. MaxTerm] /\ \A u \in Student : term[u] <= term'[u]
    BY <1>1, <1>2, <1>4, RulesAssumption DEF Recorded
<1>6. QED
    BY <1>1, <1>5, GrowsSame DEF Grows, Recorded

LEMMA AnswerCountsType ==
    ASSUME Inductive, NEW s \in Student, NEW c, AnswerCounts(s, c)
    PROVE  told' \in [Student -> BOOLEAN] /\ c \in {NoCount, term'[s]}
<1>1. told \in [Student -> BOOLEAN]
    BY InductiveParts DEF Surroundings
<1>2. (told[s] \/ ReachedLimit(c)) \in BOOLEAN
    OBVIOUS
<1>3. QED
    BY <1>1, <1>2 DEF AnswerCounts

\* What the process in hand knows, in the light of what the server now records.
LEMMA InHandNow ==
    ASSUME Inductive, NEW p \in Proc, proc[p].pc \in {"check", "upload"},
           Grows(entered, left, term, entered', left', term')
    PROVE  LET P == proc[p]
           IN  /\ ProcOK(P, entered, left, term)
               /\ ProcOK(P, entered', left', term')
               /\ Recorded(entered', left', term')
               /\ P.cur \in Student /\ P.cur \in P.known /\ P.now \in Clock /\ Date(P) \in Day
               /\ P.act \in {"entrance", "exit"}
               /\ P.cmd \in {"watch", "once", "run", "refresh"}
               /\ Record(P) \in UserState
               /\ Backed(P.cur, Record(P), entered', left', term')
               /\ P.cmd # "refresh" => Record(P).date = Date(P)
               /\ P.act = "exit" => entered'[P.cur][Date(P)] > 0
<1>1. ProcOK(proc[p], entered, left, term)
    BY InductiveParts
<1>2. ProcOK(proc[p], entered', left', term')
    BY <1>1, ProcGrows
<1>3. QED
    BY <1>1, <1>2, InHand DEF Grows

LEMMA CheckLostOK ==
    ASSUME Inductive, NEW p \in Proc, CheckLost(p)
    PROVE  Inductive'
<1> DEFINE P == proc[p]
           r == Failed(P, Record(P))
<1>1. /\ P.pc = "check" /\ ServerCounts(P.cur) /\ UNCHANGED <<entered, left>>
      /\ Become(p, Decided(P, r)) /\ UNCHANGED <<users, store, clock, budget>> /\ told' = told
    BY DEF CheckLost
<1>2. P.cur \in Student
    BY <1>1, InductiveParts, InHand
<1>3. Grows(entered, left, term, entered', left', term')
    BY <1>1, <1>2, ServerCountsGrows
<1>4. /\ ProcOK(P, entered, left, term) /\ P \in Process
      /\ P.cur \in P.known /\ P.cmd \in {"watch", "once", "run", "refresh"}
      /\ Record(P) \in UserState
      /\ Backed(P.cur, Record(P), entered', left', term')
      /\ P.cmd = "run" /\ P.act = "exit" => entered'[P.cur][Record(P).date] > 0
    BY <1>1, <1>3, InHandNow DEF ProcOK
<1>5. told' \in [Student -> BOOLEAN]
    BY <1>1, InductiveParts DEF Surroundings
<1> HIDE DEF P
<1>6. /\ r \in UserState /\ r.date = Record(P).date
      /\ Backed(P.cur, r, entered', left', term')
    BY <1>2, <1>4, FailedBacked
<1> HIDE DEF r
<1>7. QED
    BY <1>1, <1>3, <1>4, <1>5, <1>6, DecidedStep

LEMMA CountAnsweredOK ==
    ASSUME Inductive, NEW p \in Proc, NEW c, CountAnswered(p, c)
    PROVE  Inductive'
<1> DEFINE P == proc[p]
           r == IF c = NoCount THEN RefreshFailed(Record(P)) ELSE Refreshed(Record(P), c)
<1>1. /\ P.pc = "check" /\ ServerCounts(P.cur) /\ AnswerCounts(P.cur, c)
      /\ UNCHANGED <<entered, left>>
      /\ Become(p, Decided(P, r)) /\ UNCHANGED <<users, store, clock, budget>>
    BY DEF CountAnswered
<1>2. P.cur \in Student
    BY <1>1, InductiveParts, InHand
<1>3. Grows(entered, left, term, entered', left', term')
    BY <1>1, <1>2, ServerCountsGrows
<1>4. told' \in [Student -> BOOLEAN] /\ c \in {NoCount, term'[P.cur]}
    BY <1>1, <1>2, AnswerCountsType
<1>5. /\ ProcOK(P, entered, left, term) /\ P.cur \in P.known
      /\ Recorded(entered', left', term') /\ Record(P) \in UserState
      /\ Backed(P.cur, Record(P), entered', left', term')
    BY <1>1, <1>3, InHandNow
<1> HIDE DEF P
<1>6. /\ r \in UserState /\ r.date = Record(P).date
      /\ Backed(P.cur, r, entered', left', term')
    <2>1. CASE c = NoCount
        BY <1>2, <1>5, <2>1, RefreshFailedKeeps, KeepsBacked
    <2>2. CASE c # NoCount
        BY <1>2, <1>4, <1>5, <2>2, RefreshedBacked
    <2>3. QED
        BY <2>1, <2>2
<1> HIDE DEF r
<1>7. QED
    BY <1>1, <1>3, <1>4, <1>5, <1>6, DecidedStep

LEMMA CheckRefusedOK ==
    ASSUME Inductive, NEW p \in Proc, NEW c, NEW illegal, CheckRefused(p, c, illegal)
    PROVE  Inductive'
<1> DEFINE P == proc[p]
           n == Counted(Record(P), c)
           r == IF illegal /\ Ticks(P) THEN DiscardRound(n) ELSE Failed(P, n)
<1>1. /\ P.pc = "check" /\ AnswerCounts(P.cur, c)
      /\ UNCHANGED <<entered, left, term>>
      /\ Become(p, Decided(P, r)) /\ UNCHANGED <<users, store, clock, budget>>
    BY DEF CheckRefused
<1>2. P.cur \in Student
    BY <1>1, InductiveParts, InHand
<1>3. Grows(entered, left, term, entered', left', term')
    BY <1>1, InductiveParts, GrowsSame
<1>4. told' \in [Student -> BOOLEAN] /\ c \in {NoCount, term'[P.cur]}
    BY <1>1, <1>2, AnswerCountsType
<1>5. /\ ProcOK(P, entered, left, term) /\ P \in Process /\ P.cur \in P.known
      /\ P.cmd \in {"watch", "once", "run", "refresh"}
      /\ Recorded(entered', left', term') /\ Record(P) \in UserState
      /\ Backed(P.cur, Record(P), entered', left', term')
      /\ P.cmd = "run" /\ P.act = "exit" => entered'[P.cur][Record(P).date] > 0
    BY <1>1, <1>3, InHandNow DEF ProcOK
<1> HIDE DEF P
<1>6. n \in UserState /\ n.date = Record(P).date /\ Backed(P.cur, n, entered', left', term')
    BY <1>2, <1>4, <1>5, CountedBacked
<1> HIDE DEF n
<1>7. /\ r \in UserState /\ r.date = n.date
      /\ Backed(P.cur, r, entered', left', term')
    <2>1. CASE illegal /\ Ticks(P)
        BY <1>2, <1>6, <2>1, RestartKeeps, KeepsBacked DEF DiscardRound
    <2>2. CASE ~(illegal /\ Ticks(P))
        BY <1>2, <1>5, <1>6, <2>2, FailedBacked
    <2>3. QED
        BY <2>1, <2>2
<1> HIDE DEF r
<1>8. QED
    BY <1>1, <1>3, <1>4, <1>5, <1>6, <1>7, DecidedStep

LEMMA CheckAcceptedOK ==
    ASSUME Inductive, NEW p \in Proc, NEW c, CheckAccepted(p, c)
    PROVE  Inductive'
<1> DEFINE P == proc[p]
           n == Counted(Record(P), c)
           Q == [P EXCEPT !.pc = "upload", !.mem[P.cur] = n]
<1>1. /\ P.pc = "check" /\ P.cmd # "refresh" /\ ServerCounts(P.cur) /\ AnswerCounts(P.cur, c)
      /\ UNCHANGED <<entered, left>> /\ UNCHANGED <<users, store, clock, budget>>
      /\ Become(p, IF P.act = "entrance" /\ ReachedLimit(n.count)
                   THEN Decided(P, MarkCompleted(n)) ELSE Q)
    BY DEF CheckAccepted
<1>2. P.cur \in Student
    BY <1>1, InductiveParts, InHand
<1>3. Grows(entered, left, term, entered', left', term')
    BY <1>1, <1>2, ServerCountsGrows
<1>4. told' \in [Student -> BOOLEAN] /\ c \in {NoCount, term'[P.cur]}
    BY <1>1, <1>2, AnswerCountsType
<1>5. /\ ProcOK(P, entered, left, term) /\ ProcOK(P, entered', left', term')
      /\ P \in Process /\ P.cur \in P.known
      /\ Recorded(entered', left', term') /\ Record(P) \in UserState
      /\ Backed(P.cur, Record(P), entered', left', term')
      /\ P.act = "exit" => entered'[P.cur][Date(P)] > 0
    BY <1>1, <1>3, InHandNow DEF ProcOK
<1> HIDE DEF P
<1>6. n \in UserState /\ n.date = Record(P).date /\ Backed(P.cur, n, entered', left', term')
    BY <1>2, <1>4, <1>5, CountedBacked
<1> HIDE DEF n
<1>7. CASE P.act = "entrance" /\ ReachedLimit(n.count)
    <2>1. Keeps(MarkCompleted(n), n)
        BY <1>6, <1>7, MarkCompletedKeeps DEF ReachedLimit
    <2>2. /\ MarkCompleted(n) \in UserState /\ MarkCompleted(n).date = Record(P).date
          /\ Backed(P.cur, MarkCompleted(n), entered', left', term')
        BY <1>2, <1>6, <2>1, KeepsBacked
    <2>3. Become(p, Decided(P, MarkCompleted(n)))
        BY <1>1, <1>7
    <2>4. QED
        BY <1>1, <1>3, <1>4, <1>5, <2>2, <2>3, DecidedStep
<1>8. CASE ~(P.act = "entrance" /\ ReachedLimit(n.count))
    <2>1. P.mem \in States
        BY <1>5 DEF Process
    <2>2. [P.mem EXCEPT ![P.cur] = n] \in States
        BY <1>2, <1>6, <2>1 DEF States
    <2>3. Q \in Process
        BY <1>5, <2>2 DEF Process, PC
    <2>4. /\ Q.mem = [P.mem EXCEPT ![P.cur] = n] /\ Q.buf = P.buf /\ Q.known = P.known
          /\ Q.todo = P.todo /\ Q.cmd = P.cmd /\ Q.now = P.now /\ Q.cur = P.cur
          /\ Q.pc = "upload" /\ Q.act = P.act
        BY <1>5 DEF Process
    <2>5. Become(p, Q)
        BY <1>1, <1>8
    <2> HIDE DEF Q
    <2>6. ProcOK(Q, entered', left', term')
        BY <1>1, <1>5, <1>6, <2>3, <2>4, GoesOn
    <2>7. QED
        BY <1>1, <1>3, <1>4, <2>5, <2>6, ServerStep
<1>9. QED
    BY <1>7, <1>8

-----------------------------------------------------------------------------
(* The upload. *)

\* The server recorded a check-in, or nothing.
LEMMA ServerRecordsGrows ==
    ASSUME Inductive, NEW P \in Process, P.cur \in Student,
           ServerRecords(P) \/ UNCHANGED <<entered, left>>, UNCHANGED term
    PROVE  /\ Grows(entered, left, term, entered', left', term')
           /\ ServerRecords(P) =>
                 IF P.act = "entrance" THEN entered'[P.cur][Date(P)] > 0
                 ELSE left'[P.cur][Date(P)] = left[P.cur][Date(P)] + 1
<1> DEFINE d == Date(P)
<1>1. Recorded(entered, left, term)
    BY InductiveParts
<1>2. d \in Day
    BY DayOfClock DEF Date, Process
<1> HIDE DEF d
<1>3. entered[P.cur][d] \in Nat /\ left[P.cur][d] \in Nat
    BY <1>1, <1>2 DEF Recorded
<1>4. CASE ServerRecords(P) /\ P.act = "entrance"
    <2>1. entered' = [entered EXCEPT ![P.cur][d] = @ + 1] /\ left' = left
        BY <1>4 DEF ServerRecords, d
    <2>2. /\ entered' \in [Student -> [Day -> Nat]]
          /\ \A s \in Student, b \in Day : entered[s][b] <= entered'[s][b]
          /\ entered'[P.cur][d] > 0
        BY <1>1, <1>2, <1>3, <2>1 DEF Recorded
    <2>3. QED
        BY <1>1, <1>4, <2>1, <2>2, GrowsSame DEF Grows, Recorded, d
<1>5. CASE ServerRecords(P) /\ P.act # "entrance"
    <2>1. left' = [left EXCEPT ![P.cur][d] = @ + 1] /\ entered' = entered
        BY <1>5 DEF ServerRecords, d
    <2>2. /\ left' \in [Student -> [Day -> Nat]]
          /\ \A s \in Student, b \in Day : left[s][b] <= left'[s][b]
          /\ left'[P.cur][d] = left[P.cur][d] + 1
        BY <1>1, <1>2, <1>3, <2>1 DEF Recorded
    <2>3. QED
        BY <1>1, <1>5, <2>1, <2>2, GrowsSame DEF Grows, Recorded, d
<1>6. CASE ~ServerRecords(P) /\ UNCHANGED <<entered, left>>
    BY <1>1, <1>6, GrowsSame
<1>7. QED
    BY <1>4, <1>5, <1>6

LEMMA UploadLostOK ==
    ASSUME Inductive, NEW p \in Proc, UploadLost(p)
    PROVE  Inductive'
<1> DEFINE P == proc[p]
           r == Failed(P, Record(P))
<1>1. /\ P.pc = "upload"
      /\ ServerRecords(P) \/ UNCHANGED <<entered, left>>
      /\ Become(p, Decided(P, r)) /\ UNCHANGED <<users, store, clock, budget>>
      /\ term' = term /\ told' = told
    BY DEF UploadLost
<1>2. P.cur \in Student /\ P \in Process
    BY <1>1, InductiveParts, InHand DEF ProcOK
<1>3. Grows(entered, left, term, entered', left', term')
    BY <1>1, <1>2, ServerRecordsGrows
<1>4. /\ ProcOK(P, entered, left, term)
      /\ P.cur \in P.known /\ P.cmd \in {"watch", "once", "run", "refresh"}
      /\ Record(P) \in UserState
      /\ Backed(P.cur, Record(P), entered', left', term')
      /\ P.cmd = "run" /\ P.act = "exit" => entered'[P.cur][Record(P).date] > 0
    BY <1>1, <1>3, InHandNow
<1>5. told' \in [Student -> BOOLEAN]
    BY <1>1, InductiveParts DEF Surroundings
<1> HIDE DEF P
<1>6. /\ r \in UserState /\ r.date = Record(P).date
      /\ Backed(P.cur, r, entered', left', term')
    BY <1>2, <1>4, FailedBacked
<1> HIDE DEF r
<1>7. QED
    BY <1>1, <1>3, <1>4, <1>5, <1>6, DecidedStep

LEMMA TickPhotoMissingOK ==
    ASSUME Inductive, NEW p \in Proc, TickPhotoMissing(p)
    PROVE  Inductive'
<1> DEFINE P == proc[p]
           r == MarkError(Record(P))
<1>1. /\ P.pc = "upload" /\ Become(p, Decided(P, r))
      /\ UNCHANGED <<users, store, clock, budget, server>>
    BY DEF TickPhotoMissing
<1>2. /\ ProcOK(P, entered, left, term) /\ P.cur \in Student /\ P.cur \in P.known
      /\ Record(P) \in UserState /\ Backed(P.cur, Record(P), entered, left, term)
    BY <1>1, InductiveParts, InHand
<1> HIDE DEF P
<1>3. /\ r \in UserState /\ r.date = Record(P).date
      /\ Backed(P.cur, r, entered, left, term)
    BY <1>2, MarkErrorKeeps, KeepsBacked
<1> HIDE DEF r
<1>4. QED
    BY <1>1, <1>2, <1>3, DecidedQuietly

\* An exit the server recorded backs one more round than before.
LEMMA ExitRecorded ==
    ASSUME Inductive, NEW p \in Proc, proc[p].pc = "upload", proc[p].cmd # "refresh",
           proc[p].act = "exit", ServerRecords(proc[p]), UNCHANGED term
    PROVE  LET P == proc[p] IN Record(P).rounds + 1 <= left'[P.cur][Record(P).date]
<1> DEFINE P == proc[p]
<1>1. /\ P \in Process /\ P.cur \in Student /\ Date(P) \in Day
      /\ Record(P) \in UserState /\ Backed(P.cur, Record(P), entered, left, term)
      /\ Record(P).date = Date(P)
    BY InductiveParts, InHand DEF ProcOK
<1>2. left'[P.cur][Date(P)] = left[P.cur][Date(P)] + 1
    BY <1>1, ServerRecordsGrows
<1>3. left[P.cur][Date(P)] \in Nat /\ Record(P).rounds \in Nat
    BY <1>1, InductiveParts DEF Recorded, UserState
<1>4. Record(P).rounds <= left[P.cur][Date(P)]
    BY <1>1 DEF Backed
<1>5. QED
    BY <1>1, <1>2, <1>3, <1>4

LEMMA TickUploadedOK ==
    ASSUME Inductive, NEW p \in Proc, TickUploaded(p)
    PROVE  Inductive'
<1> DEFINE P == proc[p]
           r == IF P.act = "entrance" THEN EntranceDone(Record(P), P.now)
                                      ELSE ExitDone(Record(P), P.now)
<1>1. /\ P.pc = "upload" /\ Ticks(P) /\ ServerRecords(P)
      /\ Become(p, Decided(P, r)) /\ UNCHANGED <<users, store, clock, budget>>
      /\ term' = term /\ told' = told
    BY DEF TickUploaded
<1>2. P.cur \in Student /\ P \in Process /\ P.cmd # "refresh"
    BY <1>1, InductiveParts, InHand DEF ProcOK, Ticks
<1>3. /\ Grows(entered, left, term, entered', left', term')
      /\ P.act = "entrance" => entered'[P.cur][Date(P)] > 0
    BY <1>1, <1>2, ServerRecordsGrows
<1>4. /\ ProcOK(P, entered, left, term) /\ Recorded(entered', left', term')
      /\ P.cur \in P.known /\ P.now \in Clock /\ P.act \in {"entrance", "exit"}
      /\ Record(P) \in UserState /\ Record(P).date = Date(P)
      /\ Backed(P.cur, Record(P), entered', left', term')
    BY <1>1, <1>2, <1>3, InHandNow
<1>5. told' \in [Student -> BOOLEAN]
    BY <1>1, InductiveParts DEF Surroundings
<1>6. P.act = "exit" => Record(P).rounds + 1 <= left'[P.cur][Record(P).date]
    BY <1>1, <1>2, ExitRecorded
<1> HIDE DEF P
<1>7. /\ r \in UserState /\ r.date = Record(P).date
      /\ Backed(P.cur, r, entered', left', term')
    <2>1. CASE P.act = "entrance"
        BY <1>2, <1>3, <1>4, <2>1, EntranceDoneBacked
    <2>2. CASE P.act = "exit"
        BY <1>2, <1>4, <1>6, <2>2, ExitDoneBacked
    <2>3. QED
        BY <1>4, <2>1, <2>2
<1> HIDE DEF r
<1>8. QED
    BY <1>1, <1>3, <1>4, <1>5, <1>7, DecidedStep

\* run --once goes on to an exit only after its entrance was recorded.
LEMMA RunUploadedOK ==
    ASSUME Inductive, NEW p \in Proc, RunUploaded(p)
    PROVE  Inductive'
<1> DEFINE P == proc[p]
           n == [Record(P) EXCEPT !.rounds = @ + 1]
           X == [P EXCEPT !.pc = "check", !.act = "exit"]
           E == [P EXCEPT !.pc = "check", !.act = "entrance", !.mem[P.cur] = n]
<1>1. /\ P.pc = "upload" /\ P.cmd = "run" /\ ServerRecords(P)
      /\ Become(p, IF P.act = "entrance" THEN X
                   ELSE IF n.rounds >= Rounds \/ ReachedLimit(n.count)
                   THEN Decided(P, MarkCompleted(n)) ELSE E)
      /\ UNCHANGED <<users, store, clock, budget>> /\ term' = term /\ told' = told
    BY DEF RunUploaded
<1>2. P.cur \in Student /\ P \in Process
    BY <1>1, InductiveParts, InHand DEF ProcOK
<1>3. /\ Grows(entered, left, term, entered', left', term')
      /\ P.act = "entrance" => entered'[P.cur][Date(P)] > 0
    BY <1>1, <1>2, ServerRecordsGrows
<1>4. /\ ProcOK(P, entered, left, term) /\ ProcOK(P, entered', left', term')
      /\ Recorded(entered', left', term')
      /\ P.cur \in P.known /\ P.now \in Clock /\ P.act \in {"entrance", "exit"}
      /\ Record(P) \in UserState /\ Record(P).date = Date(P)
      /\ Backed(P.cur, Record(P), entered', left', term')
    BY <1>1, <1>3, InHandNow
<1>5. told' \in [Student -> BOOLEAN]
    BY <1>1, InductiveParts DEF Surroundings
<1>6. P.act = "exit" => Record(P).rounds + 1 <= left'[P.cur][Record(P).date]
    BY <1>1, ExitRecorded
<1>7. P.mem \in States
    BY <1>2 DEF Process
<1> HIDE DEF P
<1>8. CASE P.act = "entrance"
    <2>1. X \in Process
        BY <1>2 DEF Process, PC
    <2>2. /\ X.mem = [P.mem EXCEPT ![P.cur] = Record(P)] /\ X.buf = P.buf /\ X.known = P.known
          /\ X.todo = P.todo /\ X.cmd = P.cmd /\ X.now = P.now /\ X.cur = P.cur
          /\ X.pc = "check" /\ X.act = "exit"
        BY <1>2, <1>7 DEF Process, States, Record
    <2>3. Become(p, X)
        BY <1>1, <1>8
    <2> HIDE DEF X
    <2>4. ProcOK(X, entered', left', term')
        BY <1>1, <1>3, <1>4, <1>8, <2>1, <2>2, GoesOn
    <2>5. QED
        BY <1>1, <1>3, <1>5, <2>3, <2>4, ServerStep
<1>9. CASE P.act = "exit"
    <2>1. n \in UserState /\ n.date = Record(P).date /\ Backed(P.cur, n, entered', left', term')
        BY <1>2, <1>4, <1>6, <1>9, RoundMoreBacked
    <2> HIDE DEF n
    <2>2. CASE n.rounds >= Rounds \/ ReachedLimit(n.count)
        <3>1. Keeps(MarkCompleted(n), n)
            BY <2>1, <2>2, MarkCompletedKeeps DEF ReachedLimit
        <3>2. /\ MarkCompleted(n) \in UserState /\ MarkCompleted(n).date = Record(P).date
              /\ Backed(P.cur, MarkCompleted(n), entered', left', term')
            BY <1>2, <2>1, <3>1, KeepsBacked
        <3>3. Become(p, Decided(P, MarkCompleted(n)))
            BY <1>1, <1>9, <2>2
        <3>4. QED
            BY <1>1, <1>3, <1>4, <1>5, <3>2, <3>3, DecidedStep
    <2>3. CASE ~(n.rounds >= Rounds \/ ReachedLimit(n.count))
        <3>1. [P.mem EXCEPT ![P.cur] = n] \in States
            BY <1>2, <1>7, <2>1 DEF States
        <3>2. E \in Process
            BY <1>2, <3>1 DEF Process, PC
        <3>3. /\ E.mem = [P.mem EXCEPT ![P.cur] = n] /\ E.buf = P.buf /\ E.known = P.known
              /\ E.todo = P.todo /\ E.cmd = P.cmd /\ E.now = P.now /\ E.cur = P.cur
              /\ E.pc = "check" /\ E.act = "entrance"
            BY <1>2 DEF Process
        <3>4. Become(p, E)
            BY <1>1, <1>9, <2>3
        <3> HIDE DEF E
        <3>5. ProcOK(E, entered', left', term')
            BY <1>1, <1>4, <2>1, <3>2, <3>3, GoesOn
        <3>6. QED
            BY <1>1, <1>3, <1>5, <3>4, <3>5, ServerStep
    <2>4. QED
        BY <2>2, <2>3
<1>10. QED
    BY <1>4, <1>8, <1>9

-----------------------------------------------------------------------------
(* Saving. *)

LEMMA FinishTickOK ==
    ASSUME Inductive, NEW p \in Proc, FinishTick(p)
    PROVE  Inductive'
<1> DEFINE P == proc[p]
           Q == [P EXCEPT !.pc = "truncate", !.buf = P.mem]
<1>1. /\ ProcOK(P, entered, left, term) /\ P.pc = "decide" /\ Ticks(P)
      /\ Become(p, Q) /\ UNCHANGED <<users, store, clock, budget, server>>
    BY InductiveParts DEF FinishTick
<1>2. P.mem \in States /\ AllBacked(P.mem, entered, left, term)
    BY <1>1 DEF ProcOK, Process, Sound
<1> HIDE DEF P
<1>3. ProcOK(Q, entered, left, term)
    BY <1>1, <1>2, BufferOK
<1>4. QED
    BY <1>1, <1>3, QuietStep

LEMMA FinishOthersOK ==
    ASSUME Inductive, NEW p \in Proc, FinishOthers(p)
    PROVE  Inductive'
<1>1. ProcOK(Ended(proc[p], TRUE), entered, left, term)
    BY InductiveParts, EndedOK
<1>2. QED
    BY <1>1, QuietStep DEF FinishOthers

\* save_state replaces one entry of the file it has just read.
LEMMA MergeStateOK ==
    ASSUME Inductive, NEW p \in Proc, MergeState(p)
    PROVE  Inductive'
<1> DEFINE P == proc[p]
           m == [file EXCEPT ![P.cur] = Record(P)]
           Q == IF torn THEN Served(P, FALSE) ELSE [P EXCEPT !.pc = "truncate", !.buf = m]
<1>1. /\ ProcOK(P, entered, left, term) /\ P.pc = "merge" /\ Recorded(entered, left, term)
      /\ Become(p, Q) /\ UNCHANGED <<users, store, clock, budget, server>>
    BY InductiveParts DEF MergeState
<1>2. file \in States /\ AllBacked(file, entered, left, term)
    BY InductiveParts DEF Surroundings
<1> HIDE DEF P
<1>3. /\ P.cur \in Student /\ P.cmd \in {"run", "refresh"}
      /\ Record(P) \in UserState /\ Backed(P.cur, Record(P), entered, left, term)
    BY <1>1 DEF ProcOK, Process, Command, Sound, Serving, States, AllBacked, Record
<1>4. ProcOK(Served(P, FALSE), entered, left, term)
    BY <1>1, <1>3, ServedOK, Zenon
<1>5. m \in States /\ AllBacked(m, entered, left, term)
    BY <1>2, <1>3, PutRecord
<1> HIDE DEF m
<1>6. ProcOK([P EXCEPT !.pc = "truncate", !.buf = m], entered, left, term)
    BY <1>1, <1>5, BufferOK
<1>7. QED
    BY <1>1, <1>4, <1>6, QuietStep

LEMMA TruncateOK ==
    ASSUME Inductive, NEW p \in Proc, Truncate(p)
    PROVE  Inductive'
<1> DEFINE P == proc[p]
           Q == [P EXCEPT !.pc = "write"]
<1>1. /\ ProcOK(P, entered, left, term) /\ P.pc = "truncate"
      /\ Become(p, Q) /\ UNCHANGED <<users, file, clock, budget, server>>
      /\ torn' = TRUE /\ overlaid' = overlaid \ {p}
    BY InductiveParts DEF Truncate
<1> HIDE DEF P
<1>2. Q \in Process
    BY <1>1 DEF ProcOK, Process, PC
<1>3. /\ Q.mem = P.mem /\ Q.buf = P.buf /\ Q.known = P.known /\ Q.todo = P.todo
      /\ Q.cmd = P.cmd /\ Q.now = P.now /\ Q.cur = P.cur /\ Q.pc = "write"
    BY <1>1 DEF ProcOK, Process
<1> HIDE DEF Q
<1>4. ProcOK(Q, entered, left, term)
    BY <1>1, <1>2, <1>3 DEF ProcOK, Sound, Serving, Asleep, Dated, Date, ExitBacked
<1>5. Grows(entered, left, term, entered', left', term')
    BY <1>1, GrowsSame, InductiveParts DEF server
<1>6. Surroundings'
    BY <1>1, InductiveParts DEF Surroundings, server
<1>7. AllBacked(file', entered', left', term') /\ ProcOK(Q, entered', left', term')
    BY <1>1, <1>4, InductiveParts DEF server
<1>8. QED
    BY <1>1, <1>5, <1>6, <1>7, ProcessStep

LEMMA WriteOK ==
    ASSUME Inductive, NEW p \in Proc, Write(p)
    PROVE  Inductive'
<1> DEFINE P == proc[p]
<1>1. /\ ProcOK(P, entered, left, term) /\ P.pc = "write" /\ Recorded(entered, left, term)
      /\ UNCHANGED <<users, clock, budget, server>>
      /\ file' = P.buf
      /\ torn' \in (IF p \in overlaid THEN BOOLEAN ELSE {FALSE})
      /\ overlaid' = (overlaid \cup {q \in Proc : proc[q].pc = "write"}) \ {p}
    BY InductiveParts DEF Write
<1>2. PICK logged \in BOOLEAN :
          Become(p, IF P.cmd \in {"run", "refresh"} THEN Served(P, TRUE) ELSE Ended(P, logged))
    BY DEF Write
<1> HIDE DEF P
<1> DEFINE Q == IF P.cmd \in {"run", "refresh"} THEN Served(P, TRUE) ELSE Ended(P, logged)
<1>3. P \in Process /\ P.buf \in States /\ AllBacked(P.buf, entered, left, term)
    BY <1>1 DEF ProcOK, Process, Sound
<1>4. ProcOK(Q, entered, left, term)
    <2>1. P.cmd \in {"run", "refresh"} => ProcOK(Served(P, TRUE), entered, left, term)
        BY <1>1, ServedOK, Zenon
    <2>2. ProcOK(Ended(P, logged), entered, left, term)
        BY <1>1, <1>3, EndedOK, Zenon
    <2>3. QED
        BY <2>1, <2>2
<1> HIDE DEF Q
<1>5. Grows(entered, left, term, entered', left', term')
    BY <1>1, GrowsSame DEF server
<1>6. Surroundings'
    BY <1>1, <1>3, InductiveParts DEF Surroundings, server
<1>7. AllBacked(file', entered', left', term') /\ ProcOK(Q, entered', left', term')
    BY <1>1, <1>3, <1>4 DEF server
<1>8. Become(p, Q)
    BY <1>2 DEF Q
<1>9. QED
    BY <1>5, <1>6, <1>7, <1>8, ProcessStep

-----------------------------------------------------------------------------
(* The surroundings. *)

LEMMA PassTimeOK ==
    ASSUME Inductive, PassTime
    PROVE  Inductive'
<1>1. clock' \in Clock
    BY InductiveParts, RulesAssumption DEF PassTime, Clock, Surroundings
<1>2. Surroundings'
    BY <1>1, InductiveParts DEF PassTime, Surroundings, store, server
<1>3. QED
    BY <1>2, InductiveParts DEF PassTime, store, server, Inductive, TypeOK, Surroundings

LEMMA EditUsersOK ==
    ASSUME Inductive, NEW s \in Student, EditUsers(s)
    PROVE  Inductive'
<1>1. users' \subseteq Student /\ budget' \in 0 .. MaxCommands
    BY InductiveParts, SchedulerAssumption DEF EditUsers, Surroundings
<1>2. QED
    BY <1>1, InductiveParts DEF EditUsers, store, server, Inductive, TypeOK

LEMMA KillOK ==
    ASSUME Inductive, NEW p \in Proc, Kill(p)
    PROVE  Inductive'
<1>1. /\ Become(p, Idle) /\ overlaid' = overlaid \ {p}
      /\ UNCHANGED <<users, file, torn, clock, budget, server>>
    BY DEF Kill
<1>2. ProcOK(Idle, entered, left, term)
    BY InductiveParts, IdleOK
<1>3. Grows(entered, left, term, entered', left', term')
    BY <1>1, GrowsSame, InductiveParts DEF server
<1>4. Surroundings'
    BY <1>1, InductiveParts DEF Surroundings, server
<1>5. AllBacked(file', entered', left', term') /\ ProcOK(Idle, entered', left', term')
    BY <1>1, <1>2, InductiveParts DEF server
<1>6. QED
    BY <1>1, <1>3, <1>4, <1>5, ProcessStep

-----------------------------------------------------------------------------
(* The theorems. *)

LEMMA StepOK ==
    ASSUME Inductive, NEW p \in Proc, Step(p)
    PROVE  Inductive'
<1>1. CASE LoadUsers(p)
    BY <1>1, LoadUsersOK
<1>2. CASE UnreadableStates(p)
    BY <1>2, UnreadableStatesOK
<1>3. CASE LoadStates(p)
    BY <1>3, LoadStatesOK
<1>4. CASE LoadErrors(p)
    BY <1>4, LoadErrorsOK
<1>5. ASSUME NEW s \in Student,
             \/ SettleLocally(p, s) \/ SkipAtLimit(p, s)
             \/ RunPhotoMissing(p, s) \/ Begin(p, s)
      PROVE  Inductive'
    BY <1>5, SettleLocallyOK, SkipAtLimitOK, RunPhotoMissingOK, BeginOK
<1>6. CASE CheckLost(p)
    BY <1>6, CheckLostOK
<1>7. ASSUME NEW c \in Answer, CountAnswered(p, c) \/ CheckAccepted(p, c)
      PROVE  Inductive'
    BY <1>7, CountAnsweredOK, CheckAcceptedOK
<1>8. ASSUME NEW c \in Answer, NEW illegal \in BOOLEAN, CheckRefused(p, c, illegal)
      PROVE  Inductive'
    BY <1>8, CheckRefusedOK, Zenon
<1>9. CASE UploadLost(p) \/ TickPhotoMissing(p) \/ TickUploaded(p) \/ RunUploaded(p)
    BY <1>9, UploadLostOK, TickPhotoMissingOK, TickUploadedOK, RunUploadedOK
<1>10. CASE FinishTick(p) \/ FinishOthers(p)
    BY <1>10, FinishTickOK, FinishOthersOK
<1>11. CASE MergeState(p) \/ Truncate(p) \/ Write(p)
    BY <1>11, MergeStateOK, TruncateOK, WriteOK
<1>12. QED
    BY <1>1, <1>2, <1>3, <1>4, <1>5, <1>6, <1>7, <1>8, <1>9, <1>10, <1>11 DEF Step

LEMMA NextInductive == Inductive /\ [Next]_vars => Inductive'
<1> SUFFICES ASSUME Inductive, [Next]_vars PROVE Inductive'
    OBVIOUS
<1>1. CASE PassTime
    BY <1>1, PassTimeOK
<1>2. ASSUME NEW s \in Student, EditUsers(s) PROVE Inductive'
    BY <1>2, EditUsersOK
<1>3. ASSUME NEW p \in Proc, Step(p) \/ Wake(p) \/ Kill(p) PROVE Inductive'
    BY <1>3, StepOK, WakeOK, KillOK
<1>4. ASSUME NEW p \in Proc, NEW c \in Commands, Start(p, c) PROVE Inductive'
    BY <1>4, StartOK
<1>5. CASE UNCHANGED vars
    BY <1>5 DEF vars, store, server, Inductive, TypeOK
<1>6. QED
    BY <1>1, <1>2, <1>3, <1>4, <1>5 DEF Next

\* In every behaviour of the commands, state.json and every process claim only
\* what the server recorded: the inductive invariant.
THEOREM InductiveInvariant == Spec => []Inductive
<1>1. QED
    BY InitInductive, NextInductive, PTL DEF Spec

\* Every variable keeps its type.
THEOREM TypeCorrect == Spec => []TypeOK
<1>1. Inductive => TypeOK
    BY DEF Inductive
<1>2. QED
    BY <1>1, InductiveInvariant, PTL

\* However many commands race, fail or are killed: state.json says "completed"
\* only of a user whose exits of that day are recorded or whose term is full.
THEOREM CompletedIsAlwaysEarned == Spec => []CompletedIsEarned
<1>1. Inductive => CompletedIsEarned
    <2>1. SUFFICES ASSUME Inductive, NEW s \in Student, file[s].status = "completed"
                   PROVE  left[s][file[s].date] >= Rounds \/ term[s] >= Limit
        BY DEF CompletedIsEarned
    <2>2. /\ file[s] \in UserState /\ Backed(s, file[s], entered, left, term)
          /\ Recorded(entered, left, term)
        BY <2>1, InductiveParts DEF Surroundings, States, AllBacked
    <2>3. /\ file[s].rounds \in Nat /\ file[s].date \in Day
          /\ file[s].count \in {NoCount} \cup 0 .. MaxTerm
          /\ left[s][file[s].date] \in Nat /\ term[s] \in 0 .. MaxTerm
        BY <2>2 DEF UserState, Recorded
    <2>4. QED
        BY <2>1, <2>2, <2>3, RulesAssumption DEF Backed, NoCount
<1>2. QED
    BY <1>1, InductiveInvariant, PTL

\* No race, failure or crash makes state.json claim a round nobody recorded.
THEOREM RoundsNeverInvented == Spec => []NoPhantomRounds
<1>1. Inductive => NoPhantomRounds
    BY InductiveParts DEF AllBacked, Backed, NoPhantomRounds
<1>2. QED
    BY <1>1, InductiveInvariant, PTL

\* No command ever sends an exit on a date without a recorded entrance.
THEOREM ExitNeverBeforeEntrance == Spec => []ExitAfterEntrance
<1>1. Inductive => ExitAfterEntrance
    BY DEF Inductive, Sound, ExitBacked, ExitAfterEntrance
<1>2. QED
    BY <1>1, InductiveInvariant, PTL

\* What a command or state.json claims is borne out by the server's records,
\* however many commands race, fail or are killed.
THEOREM NothingIsInvented == Spec => []NothingInvented
<1>1. CompletedIsEarned /\ NoPhantomRounds /\ ExitAfterEntrance => NothingInvented
    BY DEF NothingInvented
<1>2. QED
    BY <1>1, CompletedIsAlwaysEarned, RoundsNeverInvented, ExitNeverBeforeEntrance, PTL

-----------------------------------------------------------------------------
(* A damaged state.json. *)

\* A process that has nothing in hand: it neither holds records nor writes.
EmptyHanded(P) == P.pc \in {"off", "sleep", "users", "states"}

LEMMA EmptyHandedStep ==
    ASSUME OnlyDamaged, proc \in [Proc -> Process], NEW p \in Proc, NEW Q, Become(p, Q),
           EmptyHanded(Q), UNCHANGED torn
    PROVE  OnlyDamaged'
BY DEF OnlyDamaged, Become, EmptyHanded

\* Only commands that are loading have a step left, and none can load.
LEMMA StepDamaged ==
    ASSUME Inductive, OnlyDamaged, NEW p \in Proc, Step(p)
    PROVE  OnlyDamaged'
<1>1. EmptyHanded(proc[p]) /\ torn /\ proc[p] \in Process
    BY InductiveParts DEF OnlyDamaged, EmptyHanded
<1>2. LoadUsers(p) \/ UnreadableStates(p)
    <2>1. ~LoadStates(p) /\ ~LoadErrors(p)
        BY <1>1 DEF LoadStates, LoadErrors
    <2>2. \A s \in Student : /\ ~SettleLocally(p, s) /\ ~SkipAtLimit(p, s)
                             /\ ~RunPhotoMissing(p, s) /\ ~Begin(p, s)
        <3>1. SUFFICES ASSUME NEW s \in Student
                       PROVE  /\ ~SettleLocally(p, s) /\ ~SkipAtLimit(p, s)
                              /\ ~RunPhotoMissing(p, s) /\ ~Begin(p, s)
            OBVIOUS
        <3>2. [proc[p] EXCEPT !.cur = s].pc = proc[p].pc
            BY <1>1 DEF Process
        <3>3. proc[p].pc # "decide"
            BY <1>1 DEF EmptyHanded
        <3>4. ~SettleLocally(p, s) /\ ~Begin(p, s)
            BY <3>3 DEF SettleLocally, Begin
        <3>5. ~SkipAtLimit(p, s) /\ ~RunPhotoMissing(p, s)
            BY <3>2, <3>3 DEF SkipAtLimit, RunPhotoMissing
        <3>6. QED
            BY <3>4, <3>5
    <2>3. /\ ~CheckLost(p)
          /\ \A c \in Answer : /\ ~CountAnswered(p, c) /\ ~CheckAccepted(p, c)
                               /\ \A illegal \in BOOLEAN : ~CheckRefused(p, c, illegal)
        BY <1>1 DEF EmptyHanded, CheckLost, CountAnswered, CheckAccepted, CheckRefused
    <2>4. ~UploadLost(p) /\ ~TickPhotoMissing(p) /\ ~TickUploaded(p) /\ ~RunUploaded(p)
        BY <1>1 DEF EmptyHanded, UploadLost, TickPhotoMissing, TickUploaded, RunUploaded
    <2>5. ~FinishTick(p) /\ ~FinishOthers(p) /\ ~MergeState(p) /\ ~Truncate(p) /\ ~Write(p)
        BY <1>1 DEF EmptyHanded, FinishTick, FinishOthers, MergeState, Truncate, Write
    <2>6. QED
        BY <2>1, <2>2, <2>3, <2>4, <2>5 DEF Step
<1>3. CASE LoadUsers(p)
    <2> DEFINE Q == [proc[p] EXCEPT !.pc = "states", !.known = users]
    <2>1. EmptyHanded(Q)
        BY <1>1 DEF EmptyHanded, Process
    <2>2. Become(p, Q) /\ UNCHANGED torn
        BY <1>3 DEF LoadUsers, store
    <2>3. QED
        BY <2>1, <2>2, InductiveParts, EmptyHandedStep
<1>4. CASE UnreadableStates(p)
    <2>1. EmptyHanded(Ended(proc[p], FALSE))
        BY DEF EmptyHanded, Ended, Idle
    <2>2. Become(p, Ended(proc[p], FALSE)) /\ UNCHANGED torn
        BY <1>4 DEF UnreadableStates, store
    <2>3. QED
        BY <2>1, <2>2, InductiveParts, EmptyHandedStep
<1>5. QED
    BY <1>2, <1>3, <1>4

\* A state.json that does not parse and of which no command holds an older copy
\* stays as it is, whatever is issued, killed or edited: none repairs it.
THEOREM DamageAlwaysStands == Spec => DamageStands
<1>1. ASSUME Inductive, OnlyDamaged, [Next]_vars
      PROVE  OnlyDamaged'
    <2>1. proc \in [Proc -> Process]
        BY <1>1, InductiveParts
    <2>2. CASE PassTime \/ \E s \in Student : EditUsers(s)
        BY <1>1, <2>2 DEF PassTime, EditUsers, OnlyDamaged, store
    <2>3. ASSUME NEW p \in Proc, Step(p) PROVE OnlyDamaged'
        BY <1>1, <2>3, StepDamaged
    <2>4. ASSUME NEW p \in Proc, Wake(p) PROVE OnlyDamaged'
        <3>1. EmptyHanded([proc[p] EXCEPT !.pc = "users"])
            BY <2>1 DEF EmptyHanded, Process
        <3>2. Become(p, [proc[p] EXCEPT !.pc = "users"]) /\ UNCHANGED torn
            BY <2>4 DEF Wake, store
        <3>3. QED
            BY <1>1, <2>1, <3>1, <3>2, EmptyHandedStep
    <2>5. ASSUME NEW p \in Proc, Kill(p) PROVE OnlyDamaged'
        <3>1. EmptyHanded(Idle)
            BY DEF EmptyHanded, Idle
        <3>2. Become(p, Idle) /\ UNCHANGED torn
            BY <2>5 DEF Kill
        <3>3. QED
            BY <1>1, <2>1, <3>1, <3>2, EmptyHandedStep
    <2>6. ASSUME NEW p \in Proc, NEW c \in Commands, Start(p, c) PROVE OnlyDamaged'
        <3> DEFINE Q == [Idle EXCEPT !.pc = IF c = "clear" THEN "states" ELSE "users",
                                     !.cmd = c, !.now = clock]
        <3>1. EmptyHanded(Q)
            BY DEF EmptyHanded, Idle
        <3>2. Become(p, Q) /\ UNCHANGED torn
            BY <2>6 DEF Start, store
        <3>3. QED
            BY <1>1, <2>1, <3>1, <3>2, EmptyHandedStep
    <2>7. CASE UNCHANGED vars
        BY <1>1, <2>7 DEF vars, store, OnlyDamaged
    <2>8. QED
        BY <1>1, <2>2, <2>3, <2>4, <2>5, <2>6, <2>7 DEF Next
<1>2. Inductive /\ [Next]_vars => [OnlyDamaged => OnlyDamaged']_vars
    BY <1>1
<1>3. QED
    BY <1>2, InductiveInvariant, PTL DEF Spec, DamageStands

-----------------------------------------------------------------------------
(* Commands that do not overlap: at most one works at a time and none is   *)
(* killed.  Then some record is in force for every user at every moment,   *)
(* that of state.json or the one the working command will put in its       *)
(* place, and it says what the server recorded.  Each fact about it names  *)
(* the commands and failures it does not survive.                          *)

Alone == MaxActive = 1 /\ "crash" \notin Faults
NoRefresh == "refresh" \notin Commands
NoEdit == "edit" \notin Commands
OnlyTicks == Commands \subseteq {"watch", "once", "clear"} /\ "lost" \notin Faults

-----------------------------------------------------------------------------
(* The record in force.  E and L are the entrances and exits the server    *)
(* recorded of the user, by date; K says that he was told to be at the     *)
(* limit.                                                                  *)

\* An exit is due only while an entrance waits for it.
Paired(r, E, L) ==
    NoRefresh /\ r.next = "exit" /\ r.status # "error" => L[r.date] < E[r.date]

Remembers(r, K) == NoEdit /\ K => r.count >= Limit

Exact(r, L) ==
    OnlyTicks => /\ r.rounds = L[r.date]
                 /\ \A d \in Day : d > r.date => L[d] = 0

\* n waits have passed at x since some window of date d opened.
Since(d, x, n) == \E v \in Windows : n * Wait <= x - ((d - 1) * DaySlots + v[1])

\* When the next action may take place.
Ready(r, now) == IF r.due = NoTime THEN now ELSE r.due

Timed(r, now) ==
    OnlyTicks =>
        /\ r.next = "none" => r.status = "completed"
        /\ r.status = "error" => r.due = NoTime
        /\ r.next = "exit" => Since(r.date, Ready(r, now), 2 * r.rounds + 1)
        /\ r.next = "entrance" /\ r.rounds > 0 => Since(r.date, Ready(r, now), 2 * r.rounds)

Current(r, now, E, L, K) ==
    /\ r.date <= DayOf(now)
    /\ r.status = "absent" => r.date = NoDate /\ r.count = NoCount
    /\ Paired(r, E, L)
    /\ Remembers(r, K)
    /\ Exact(r, L)
    /\ Timed(r, now)

AllCurrent(m, now, e, l, k) ==
    \A s \in Student : Current(m[s], now, e[s], l[s], k[s])

-----------------------------------------------------------------------------
(* The invariant. *)

Busy == {"decide", "check", "upload", "merge", "truncate", "write"}

\* A request is under way only for a record that calls for it.
Asking(P, e, l) ==
    /\ Ticks(P) =>
        /\ Record(P).status \notin {"completed", "error"}
        /\ P.act = DueAction(Record(P))
        /\ Record(P).due <= P.now
        /\ InAnyWindow(P.now)
        /\ Record(P).rounds < Rounds
    /\ P.cmd = "run" =>
        /\ Record(P).next = "entrance"
        /\ NoRefresh /\ P.act = "exit" => l[P.cur][Date(P)] < e[P.cur][Date(P)]
    /\ P.cmd # "refresh" /\ (P.pc = "check" \/ P.act = "entrance") =>
        ~ReachedLimit(Record(P).count)

\* What a command at work holds is in force; c is the clock, u is users.json.
Working(P, c, u, e, l, k) ==
    /\ P.cmd \in Commands \/ (P.cmd = "none" /\ P.pc \notin Busy)
    /\ P.now <= c
    /\ NoEdit /\ P.cmd # "clear" /\ P.pc \in {"states"} \cup Busy => P.known = u
    /\ P.cmd # "clear" /\ P.pc \in Busy => AllCurrent(P.mem, P.now, e, l, k)
    /\ P.pc \in {"truncate", "write"} => AllCurrent(P.buf, c, e, l, k)
    /\ P.pc \in {"check", "upload"} => Asking(P, e, l)
    /\ P.cmd = "run" /\ P.pc \in Busy =>
        \A s \in P.todo : P.pc = "decide" \/ s # P.cur => P.mem[s].next = "entrance"

\* P will replace what state.json says of s.
Outdates(P, s) ==
    \/ Ticks(P) /\ P.pc \in Busy
    \/ P.cmd \in {"run", "refresh"} /\ P.pc \in Busy \ {"decide"} /\ P.cur = s

\* A tick lifts no error of its date.
Spares(P, f) ==
    Ticks(P) =>
        /\ P.pc \in Busy =>
            \A s \in P.known : f[s].status = "error" =>
                Date(P) > f[s].date \/ P.mem[s].status = "error"
        /\ P.pc \in {"truncate", "write"} => P.buf = P.mem

ServerFacts(c, u, e, l, t, k) ==
    /\ \A s \in Student : k[s] => t[s] >= Limit
    /\ NoEdit => \A s \in Student \ u : ~k[s] /\ (OnlyTicks => \A d \in Day : l[s][d] = 0)
    /\ NoRefresh => \A s \in Student, d \in Day : l[s][d] <= e[s][d]
    /\ OnlyTicks => \A s \in Student, d \in Day :
        l[s][d] <= Rounds /\ (l[s][d] > 0 => Since(d, c, 2 * l[s][d] - 1))

AtMostOne == \A p, q \in Proc : ~Asleep(proc[p]) /\ ~Asleep(proc[q]) => p = q

AloneInv ==
    /\ Inductive
    /\ AtMostOne
    /\ overlaid = {}
    /\ torn => \E p \in Proc : proc[p].pc = "write"
    /\ ServerFacts(clock, users, entered, left, term, told)
    /\ \A s \in Student :
        \/ Current(file[s], clock, entered[s], left[s], told[s])
        \/ \E p \in Proc : Outdates(proc[p], s)
    /\ \A p \in Proc :
        Working(proc[p], clock, users, entered, left, told) /\ Spares(proc[p], file)

-----------------------------------------------------------------------------
(* Waits. *)

LEMMA SinceLater ==
    ASSUME NEW d \in Int, NEW x \in Int, NEW y \in Int, NEW n \in Int, x <= y, Since(d, x, n)
    PROVE  Since(d, y, n)
<1>1. PICK v \in Windows : n * Wait <= x - ((d - 1) * DaySlots + v[1])
    BY DEF Since
<1>2. v[1] \in Nat /\ n * Wait \in Int /\ (d - 1) * DaySlots \in Int
    BY RulesAssumption
<1>3. n * Wait <= y - ((d - 1) * DaySlots + v[1])
    BY <1>1, <1>2
<1>4. QED
    BY <1>3 DEF Since

LEMMA SinceFewer ==
    ASSUME NEW d \in Int, NEW x \in Int, NEW n \in Int, Since(d, x, n + 1)
    PROVE  Since(d, x, n)
<1>1. PICK v \in Windows : (n + 1) * Wait <= x - ((d - 1) * DaySlots + v[1])
    BY DEF Since
<1>2. /\ v[1] \in Nat /\ n * Wait \in Int /\ (d - 1) * DaySlots \in Int /\ Wait \in Nat
      /\ (n + 1) * Wait = n * Wait + Wait
    BY RulesAssumption
<1>3. n * Wait <= x - ((d - 1) * DaySlots + v[1])
    BY <1>1, <1>2
<1>4. QED
    BY <1>3 DEF Since

LEMMA SinceWaited ==
    ASSUME NEW d \in Int, NEW x \in Int, NEW n \in Int, Since(d, x, n)
    PROVE  Since(d, x + Wait, n + 1)
<1>1. PICK v \in Windows : n * Wait <= x - ((d - 1) * DaySlots + v[1])
    BY DEF Since
<1>2. /\ v[1] \in Nat /\ n * Wait \in Int /\ (d - 1) * DaySlots \in Int /\ Wait \in Nat
      /\ (n + 1) * Wait = n * Wait + Wait
    BY RulesAssumption
<1>3. (n + 1) * Wait <= (x + Wait) - ((d - 1) * DaySlots + v[1])
    BY <1>1, <1>2
<1>4. QED
    BY <1>3 DEF Since

\* Inside a window, that window has opened.
LEMMA SinceOpened ==
    ASSUME NEW t \in Clock, InAnyWindow(t)
    PROVE  Since(DayOf(t), t, 0)
<1>1. PICK w \in Windows : w[1] <= t % DaySlots
    BY DEF InAnyWindow
<1> DEFINE q == t \div DaySlots
           m == t % DaySlots
<1>2. t \in Nat /\ t = q * DaySlots + m /\ q \in Nat /\ m \in Nat
    BY RulesAssumption DEF Clock
<1>3. w[1] \in Nat /\ DayOf(t) - 1 = q /\ q * DaySlots \in Nat /\ 0 * Wait = 0
    BY <1>2, RulesAssumption DEF DayOf
<1> HIDE DEF q, m
<1>4. w[1] <= m
    BY <1>1 DEF m
<1>5. 0 * Wait <= t - ((DayOf(t) - 1) * DaySlots + w[1])
    BY <1>2, <1>3, <1>4
<1>6. QED
    BY <1>5 DEF Since

-----------------------------------------------------------------------------
(* What keeps a record in force. *)

LEMMA RecordTypes ==
    ASSUME NEW r \in UserState, NEW now \in Clock
    PROVE  /\ r.date \in Day /\ r.date \in Nat /\ r.rounds \in Nat
           /\ r.status \in Status /\ r.next \in NextAction
           /\ r.count \in Int /\ r.due \in Int /\ Ready(r, now) \in Int
           /\ now \in Nat /\ DayOf(now) \in Day /\ DayOf(now) \in Nat
           /\ DayOf(now) # NoDate /\ Limit \in Nat \ {0} /\ NoCount \in Int
<1>1. now \in Nat /\ DayOf(now) \in Day /\ DayOf(now) # NoDate
    BY DayOfClock, RulesAssumption DEF Clock
<1>2. Day \subseteq Nat
    BY RulesAssumption, DayOfMonotone DEF Day, NoDate
<1>3. /\ r.date \in Day /\ r.rounds \in Nat /\ r.status \in Status /\ r.next \in NextAction
      /\ r.count \in {NoCount} \cup 0 .. MaxTerm /\ r.due \in {NoTime} \cup Nat
    BY DEF UserState
<1>4. r.count \in Int /\ r.due \in Int /\ NoCount \in Int
    BY <1>3, RulesAssumption DEF NoTime, NoCount
<1>5. Ready(r, now) \in Int
    BY <1>1, <1>4 DEF Ready
<1>6. QED
    BY <1>1, <1>2, <1>3, <1>4, <1>5, RulesAssumption

\* Time alone outdates no record.
LEMMA CurrentLater ==
    ASSUME NEW r \in UserState, NEW now \in Clock, NEW then \in Clock, now <= then,
           NEW E, NEW L, NEW K, Current(r, now, E, L, K)
    PROVE  Current(r, then, E, L, K)
<1>1. /\ r.date \in Nat /\ r.rounds \in Nat /\ now \in Nat /\ then \in Nat
      /\ Ready(r, now) \in Int /\ Ready(r, then) \in Int
      /\ DayOf(now) \in Nat /\ DayOf(then) \in Nat
    BY RecordTypes
<1>2. DayOf(now) <= DayOf(then) /\ Ready(r, now) <= Ready(r, then)
    BY <1>1, DayOfMonotone DEF Ready
<1>3. Timed(r, then)
    BY <1>1, <1>2, SinceLater DEF Current, Timed
<1>4. QED
    BY <1>1, <1>2, <1>3 DEF Current

\* A round that starts over.
LEMMA RestartCurrent ==
    ASSUME NEW r \in UserState, NEW now \in Clock, NEW E, NEW L, NEW K,
           Current(r, now, E, L, K),
           OnlyTicks => r.due <= now /\ r.status # "completed"
    PROVE  Current(Restart(r), now, E, L, K)
<1> DEFINE q == Restart(r)
<1>1. /\ q.date = r.date /\ q.rounds = r.rounds /\ q.count = r.count
      /\ q.status = "pending" /\ q.next = "entrance" /\ q.due = NoTime
    BY DEF Restart, UserState
<1> HIDE DEF q
<1>2. /\ r.date \in Nat /\ r.rounds \in Nat /\ now \in Nat
      /\ r.next \in NextAction /\ Ready(r, now) \in Int
    BY RecordTypes
<1>3. Timed(q, now)
    <2>1. SUFFICES ASSUME OnlyTicks, r.rounds > 0
                   PROVE  Since(r.date, now, 2 * r.rounds)
        BY <1>1 DEF Timed, Ready
    <2>2. Ready(r, now) <= now
        BY <1>2, <2>1 DEF Ready
    <2>3. Since(r.date, Ready(r, now), 2 * r.rounds)
        BY <1>2, <2>1, SinceFewer DEF Current, Timed, NextAction
    <2>4. QED
        BY <1>2, <2>2, <2>3, SinceLater
<1>4. QED
    BY <1>1, <1>3 DEF Current, Paired, Remembers, Exact, q

LEMMA MarkErrorCurrent ==
    ASSUME NEW r \in UserState, NEW now \in Clock, NEW E, NEW L, NEW K,
           Current(r, now, E, L, K),
           OnlyTicks => r.due <= now /\ r.status # "completed"
    PROVE  Current(MarkError(r), now, E, L, K)
<1> DEFINE q == MarkError(r)
<1>1. /\ q.date = r.date /\ q.rounds = r.rounds /\ q.count = r.count
      /\ q.status = "error" /\ q.next = r.next /\ q.due = NoTime
    BY DEF MarkError, UserState
<1> HIDE DEF q
<1>2. /\ r.date \in Nat /\ r.rounds \in Nat /\ now \in Nat
      /\ r.next \in NextAction /\ Ready(r, now) \in Int
    BY RecordTypes
<1>3. Timed(q, now)
    <2>1. SUFFICES ASSUME OnlyTicks PROVE Timed(q, now)
        BY DEF Timed
    <2>2. Ready(r, now) <= now /\ Ready(q, now) = now
        BY <1>1, <1>2, <2>1 DEF Ready
    <2>3. /\ r.next = "exit" => Since(r.date, now, 2 * r.rounds + 1)
          /\ r.next = "entrance" /\ r.rounds > 0 => Since(r.date, now, 2 * r.rounds)
        BY <1>2, <2>1, <2>2, SinceLater DEF Current, Timed
    <2>4. QED
        BY <1>1, <2>1, <2>2, <2>3 DEF Current, Timed
<1>4. QED
    BY <1>1, <1>3 DEF Current, Paired, Remembers, Exact, q

LEMMA MarkCompletedCurrent ==
    ASSUME NEW r \in UserState, NEW now \in Clock, NEW E, NEW L, NEW K,
           Current(r, now, E, L, K)
    PROVE  Current(MarkCompleted(r), now, E, L, K)
BY DEF MarkCompleted, UserState, Current, Paired, Remembers, Exact, Timed

LEMMA NewStateCurrent ==
    ASSUME NEW d \in Day, NEW c \in {NoCount} \cup 0 .. MaxTerm, NEW now \in Clock,
           NEW E, NEW L, NEW K, d <= DayOf(now),
           NoEdit /\ K => c >= Limit,
           OnlyTicks => \A x \in Day : x >= d => L[x] = 0
    PROVE  Current(NewState(d, c), now, E, L, K)
<1>1. d >= d
    BY NewStateType, RecordTypes
<1>2. QED
    BY <1>1, NewStateType, RecordTypes DEF Current, Paired, Remembers, Exact, Timed

LEMMA TodayCurrent ==
    ASSUME NEW r \in UserState, NEW now \in Clock, NEW E, NEW L, NEW K,
           Current(r, now, E, L, K)
    PROVE  Current(TodayState(r, DayOf(now)), now, E, L, K)
<1> DEFINE d == DayOf(now)
<1>1. d \in Day /\ d \in Nat /\ r.date \in Nat /\ r.count \in {NoCount} \cup 0 .. MaxTerm
    BY RecordTypes DEF UserState
<1> HIDE DEF d
<1>2. CASE r.date = d
    BY <1>2 DEF TodayState, d
<1>3. CASE r.date # d
    <2>1. r.date < d
        BY <1>1, <1>3 DEF Current, d
    <2>2. \A x \in Day : x >= d => x > r.date
        BY <1>1, <2>1, RecordTypes, RulesAssumption, DayOfMonotone DEF Day, NoDate
    <2>3. Current(NewState(d, r.count), now, E, L, K)
        <3>1. d <= DayOf(now)
            BY <1>1 DEF d
        <3>2. QED
            BY <1>1, <2>2, <3>1, NewStateCurrent DEF Current, Remembers, Exact
    <2>4. QED
        BY <1>3, <2>3 DEF TodayState, d
<1>4. QED
    BY <1>2, <1>3

LEMMA ClearErrorCurrent ==
    ASSUME NEW r \in UserState, NEW now \in Clock, NEW E, NEW L, NEW K, NEW date,
           Current(r, now, E, L, K)
    PROVE  Current(ClearError(r, date), now, E, L, K)
<1>1. CASE r.date = date /\ r.status = "error"
    <2>1. OnlyTicks => r.due <= now
        BY <1>1, RecordTypes DEF Current, Timed, NoTime
    <2>2. Current(Restart(r), now, E, L, K)
        BY <1>1, <2>1, RestartCurrent
    <2>3. QED
        BY <1>1, <2>2 DEF ClearError
<1>2. CASE ~(r.date = date /\ r.status = "error")
    BY <1>2 DEF ClearError
<1>3. QED
    BY <1>1, <1>2

LEMMA SettledCurrent ==
    ASSUME NEW r \in UserState, NEW now \in Clock, NEW E, NEW L, NEW K,
           Current(r, now, E, L, K)
    PROVE  Current(Settled(r, now), now, E, L, K)
<1>1. CASE ~InAnyWindow(now)
    <2>1. CASE r.status \in {"pending", "waiting"} /\ r.due # NoTime /\ ~DueAfterNow(r.due, now)
        <3>1. r.due <= now
            BY <2>1, RecordTypes DEF DueAfterNow
        <3>2. Current(Restart(r), now, E, L, K)
            BY <2>1, <3>1, RestartCurrent
        <3>3. QED
            BY <1>1, <2>1, <3>2 DEF Settled, ExpireDue
    <2>2. CASE ~(r.status \in {"pending", "waiting"} /\ r.due # NoTime /\ ~DueAfterNow(r.due, now))
        BY <1>1, <2>2 DEF Settled, ExpireDue
    <2>3. QED
        BY <2>1, <2>2
<1>2. CASE InAnyWindow(now)
    BY <1>2, MarkCompletedCurrent DEF Settled
<1>3. QED
    BY <1>1, <1>2

\* An answer that carries a count; it may be the first at the limit.
LEMMA CountedCurrent ==
    ASSUME NEW r \in UserState, NEW now \in Clock, NEW E, NEW L, NEW K \in BOOLEAN,
           NEW c \in {NoCount} \cup 0 .. MaxTerm,
           Current(r, now, E, L, K), r.status # "absent",
           K /\ c # NoCount => c >= Limit
    PROVE  Current(Counted(r, c), now, E, L, K \/ ReachedLimit(c))
<1>1. ~ReachedLimit(NoCount)
    BY RulesAssumption DEF ReachedLimit, NoCount
<1>2. CASE c = NoCount
    BY <1>1, <1>2 DEF Counted, Current, Remembers
<1>3. CASE c # NoCount
    <2> DEFINE q == [r EXCEPT !.count = c]
    <2>1. /\ q.date = r.date /\ q.rounds = r.rounds /\ q.count = c
          /\ q.status = r.status /\ q.next = r.next /\ q.due = r.due
        BY DEF UserState
    <2> HIDE DEF q
    <2>2. Current(q, now, E, L, K \/ ReachedLimit(c))
        BY <1>3, <2>1 DEF Current, Paired, Remembers, Exact, Timed, Ready, ReachedLimit
    <2>3. QED
        BY <1>3, <2>2 DEF Counted, q
<1>4. QED
    BY <1>2, <1>3

\* The photo of an entrance was accepted: an exit is due after a wait.
LEMMA EntranceDoneCurrent ==
    ASSUME NEW r \in UserState, NEW now \in Clock, NEW K, NEW L \in [Day -> Nat],
           NEW E \in [Day -> Nat], NEW E2, E2[r.date] = E[r.date] + 1,
           Current(r, now, E, L, K), r.date = DayOf(now),
           r.next # "exit", r.status \notin {"completed", "error"},
           NoRefresh => L[r.date] <= E[r.date],
           OnlyTicks => InAnyWindow(now) /\ r.due <= now
    PROVE  Current(EntranceDone(r, now), now, E2, L, K)
<1> DEFINE q == EntranceDone(r, now)
<1>1. /\ q.date = r.date /\ q.rounds = r.rounds /\ q.count = r.count
      /\ q.status = "waiting" /\ q.next = "exit" /\ q.due = now + Wait
    BY DEF EntranceDone, AwaitNext, UserState
<1> HIDE DEF q
<1>2. /\ r.date \in Day /\ r.date \in Nat /\ r.rounds \in Nat /\ now \in Nat
      /\ r.next \in NextAction /\ Ready(r, now) \in Int
    BY RecordTypes
<1>3. Ready(q, now) = now + Wait
    BY <1>1, <1>2, RulesAssumption DEF Ready, NoTime
<1>4. Timed(q, now)
    <2>1. SUFFICES ASSUME OnlyTicks
                   PROVE  Since(r.date, now + Wait, 2 * r.rounds + 1)
        BY <1>1, <1>3 DEF Timed
    <2>2. Since(r.date, now, 2 * r.rounds)
        <3>1. CASE r.rounds = 0
            BY <2>1, <3>1, SinceOpened
        <3>2. CASE r.rounds > 0
            <4>1. Since(r.date, Ready(r, now), 2 * r.rounds)
                BY <1>2, <2>1, <3>2 DEF Current, Timed, NextAction
            <4>2. Ready(r, now) <= now
                BY <1>2, <2>1 DEF Ready
            <4>3. QED
                BY <1>2, <4>1, <4>2, SinceLater
        <3>3. QED
            BY <1>2, <3>1, <3>2
    <2>3. QED
        BY <1>2, <2>2, SinceWaited
<1>5. Paired(q, E2, L)
    BY <1>1, <1>2 DEF Paired
<1>6. QED
    BY <1>1, <1>4, <1>5 DEF Current, Remembers, Exact, q

\* The photo of an exit was accepted: a round is complete.
LEMMA ExitDoneCurrent ==
    ASSUME NEW r \in UserState, NEW now \in Clock, NEW K, NEW E,
           NEW L \in [Day -> Nat], NEW L2, L2[r.date] = L[r.date] + 1,
           \A d \in Day : d # r.date => L2[d] = L[d],
           Current(r, now, E, L, K), r.date = DayOf(now),
           r.next = "exit", r.status \notin {"completed", "error"},
           OnlyTicks => r.due <= now
    PROVE  /\ Current(ExitDone(r, now), now, E, L2, K)
           /\ OnlyTicks => Since(r.date, now, 2 * L2[r.date] - 1)
<1> DEFINE n == [r EXCEPT !.rounds = @ + 1]
           q == ExitDone(r, now)
           done == n.rounds >= Rounds \/ ReachedLimit(n.count)
<1>1. /\ n.date = r.date /\ n.rounds = r.rounds + 1 /\ n.count = r.count
      /\ n \in UserState
    BY DEF UserState
<1>2. /\ r.date \in Day /\ r.date \in Nat /\ r.rounds \in Nat /\ now \in Nat
      /\ Ready(r, now) \in Int
    BY RecordTypes
<1>3. q = IF done THEN MarkCompleted(n) ELSE AwaitNext(n, "entrance", now)
    BY DEF ExitDone
<1> HIDE DEF n, done
<1>4. /\ q.date = r.date /\ q.rounds = r.rounds + 1 /\ q.count = r.count
      /\ q.status \in {"completed", "waiting"}
      /\ q.status = "completed" => q.next = "none"
      /\ q.status = "waiting" => q.next = "entrance" /\ q.due = now + Wait
    BY <1>1, <1>3 DEF MarkCompleted, AwaitNext, UserState
<1> HIDE DEF q
<1>5. OnlyTicks => Since(r.date, now, 2 * r.rounds + 1)
    <2>1. SUFFICES ASSUME OnlyTicks PROVE Since(r.date, now, 2 * r.rounds + 1)
        OBVIOUS
    <2>2. Ready(r, now) <= now
        BY <1>2, <2>1 DEF Ready
    <2>3. Since(r.date, Ready(r, now), 2 * r.rounds + 1)
        BY <2>1 DEF Current, Timed
    <2>4. QED
        BY <1>2, <2>2, <2>3, SinceLater
<1>6. Exact(q, L2)
    BY <1>2, <1>4 DEF Current, Exact
<1>7. Timed(q, now)
    <2>1. SUFFICES ASSUME OnlyTicks, q.status = "waiting"
                   PROVE  Since(r.date, now + Wait, 2 * (r.rounds + 1))
        <3>1. q.status = "waiting" => Ready(q, now) = now + Wait
            BY <1>2, <1>4, RulesAssumption DEF Ready, NoTime
        <3>2. QED
            BY <1>4, <3>1 DEF Timed
    <2>2. Since(r.date, now + Wait, (2 * r.rounds + 1) + 1)
        BY <1>2, <1>5, <2>1, SinceWaited
    <2>3. (2 * r.rounds + 1) + 1 = 2 * (r.rounds + 1)
        BY <1>2
    <2>4. QED
        BY <2>2, <2>3
<1>8. Current(q, now, E, L2, K)
    BY <1>4, <1>6, <1>7 DEF Current, Paired, Remembers
<1>9. OnlyTicks => Since(r.date, now, 2 * L2[r.date] - 1)
    <2>1. SUFFICES ASSUME OnlyTicks PROVE Since(r.date, now, 2 * L2[r.date] - 1)
        OBVIOUS
    <2>2. L2[r.date] = r.rounds + 1
        BY <2>1 DEF Current, Exact
    <2>3. 2 * L2[r.date] - 1 = 2 * r.rounds + 1
        BY <1>2, <2>2
    <2>4. QED
        BY <1>5, <2>1, <2>3
<1>10. QED
    BY <1>8, <1>9 DEF q

\* Where more than ticks may run or answers may be lost, a record with no exit
\* due is in force whatever the server records.
LEMMA UntimedCurrent ==
    ASSUME ~OnlyTicks, NEW r, NEW now, NEW E, NEW L, NEW E2, NEW L2, NEW K,
           Current(r, now, E, L, K), NEW q,
           q.date = r.date, q.status # "absent", q.count = r.count,
           NoRefresh => q.next # "exit" \/ q.status = "error"
    PROVE  Current(q, now, E2, L2, K)
BY DEF Current, Paired, Remembers, Exact, Timed

LEMMA PreviousCurrent ==
    ASSUME ~OnlyTicks, ~NoRefresh, NEW r \in UserState, NEW now \in Clock,
           NEW E, NEW L, NEW K, Current(r, now, E, L, K)
    PROVE  Current(PreviousState(r), now, E, L, K)
<1>1. CASE r.status = "absent"
    <2>1. PreviousState(r) = NewState(NoDate, NoCount)
        BY <1>1 DEF PreviousState
    <2>2. NoDate \in Day /\ NoDate <= DayOf(now)
        BY AbsentType, RecordTypes DEF UserState, NoDate
    <2>3. NoEdit /\ K => NoCount >= Limit
        BY <1>1 DEF Current, Remembers
    <2>4. QED
        BY <2>1, <2>2, <2>3, NewStateCurrent
<1>2. CASE r.status # "absent"
    BY <1>2 DEF PreviousState
<1>3. QED
    BY <1>1, <1>2

LEMMA RefreshedCurrent ==
    ASSUME ~OnlyTicks, ~NoRefresh, NEW r \in UserState, NEW now,
           NEW E, NEW L, NEW K \in BOOLEAN, NEW c \in 0 .. MaxTerm,
           Current(r, now, E, L, K), K => c >= Limit
    PROVE  Current(Refreshed(r, c), now, E, L, K \/ ReachedLimit(c))
BY DEF Refreshed, ReachedLimit, UserState, Current, Paired, Remembers, Exact, Timed

-----------------------------------------------------------------------------
(* Records of all users. *)

LEMMA AllCurrentLater ==
    ASSUME NEW m \in States, NEW now \in Clock, NEW then \in Clock, now <= then,
           NEW e, NEW l, NEW k, AllCurrent(m, now, e, l, k)
    PROVE  AllCurrent(m, then, e, l, k)
<1>1. \A s \in Student : m[s] \in UserState
    BY DEF States
<1>2. QED
    BY <1>1, CurrentLater DEF AllCurrent

\* What the server records of one user concerns the records of no other.
LEMMA PutCurrent ==
    ASSUME NEW m \in States, NEW now, NEW e, NEW l, NEW k, NEW e2, NEW l2, NEW k2,
           NEW s \in Student, NEW r, Current(r, now, e2[s], l2[s], k2[s]),
           \A x \in Student \ {s} :
              /\ Current(m[x], now, e[x], l[x], k[x])
              /\ e2[x] = e[x] /\ l2[x] = l[x] /\ k2[x] = k[x]
    PROVE  AllCurrent([m EXCEPT ![s] = r], now, e2, l2, k2)
<1> DEFINE n == [m EXCEPT ![s] = r]
<1>1. n[s] = r /\ \A x \in Student \ {s} : n[x] = m[x]
    BY DEF States
<1> HIDE DEF n
<1>2. ASSUME NEW x \in Student PROVE Current(n[x], now, e2[x], l2[x], k2[x])
    <2>1. CASE x = s
        BY <1>1, <2>1
    <2>2. CASE x # s
        BY <1>1, <2>2
    <2>3. QED
        BY <2>1, <2>2
<1>3. QED
    BY <1>2 DEF AllCurrent, n

-----------------------------------------------------------------------------
(* One command at work. *)

\* The one command at work, and what it finds.
Finds(p) ==
    /\ \A q \in Proc : q # p => Asleep(proc[q])
    /\ overlaid = {}
    /\ torn => proc[p].pc = "write"
    /\ \A s \in Student :
        Outdates(proc[p], s) \/ Current(file[s], clock, entered[s], left[s], told[s])

LEMMA AsleepOutdatesNothing ==
    ASSUME NEW P, Asleep(P), NEW s
    PROVE  ~Outdates(P, s)
BY DEF Asleep, Outdates, Busy

LEMMA FindsAtWork ==
    ASSUME AloneInv, NEW p \in Proc, ~Asleep(proc[p])
    PROVE  Finds(p)
<1>1. \A q \in Proc : q # p => Asleep(proc[q])
    BY DEF AloneInv, AtMostOne
<1>2. torn => proc[p].pc = "write"
    BY <1>1 DEF AloneInv, Asleep
<1>3. \A s \in Student :
        Outdates(proc[p], s) \/ Current(file[s], clock, entered[s], left[s], told[s])
    BY <1>1, AsleepOutdatesNothing DEF AloneInv
<1>4. QED
    BY <1>1, <1>2, <1>3 DEF AloneInv, Finds

\* A command starts to work only when no other does.
LEMMA FindsAtStart ==
    ASSUME Alone, AloneInv, MayWork, NEW p \in Proc
    PROVE  Finds(p) /\ Asleep(proc[p])
<1> DEFINE W == {q \in Proc : ~Asleep(proc[q])}
<1>1. W = {}
    <2>1. SUFFICES ASSUME NEW x \in W PROVE FALSE
        OBVIOUS
    <2>2. W = {x}
        BY DEF AloneInv, AtMostOne
    <2>3. Cardinality(W) = 1
        BY <2>2, FS_Singleton
    <2>4. QED
        BY <2>3 DEF MayWork, Alone
<1>2. \A q \in Proc : Asleep(proc[q])
    BY <1>1
<1>3. \A s \in Student : Current(file[s], clock, entered[s], left[s], told[s])
    BY <1>2, AsleepOutdatesNothing DEF AloneInv
<1>4. ~torn
    BY <1>2 DEF AloneInv, Asleep
<1>5. QED
    BY <1>2, <1>3, <1>4 DEF AloneInv, Finds

\* A step of the command at work, or of one that starts alone.
LEMMA AloneStep ==
    ASSUME AloneInv, Inductive', NEW p \in Proc, Finds(p), NEW Q, Become(p, Q),
           UNCHANGED <<clock, users>>,
           overlaid' = {}, torn' => Q.pc = "write",
           ServerFacts(clock, users, entered', left', term', told'),
           \A s \in Student :
              Outdates(Q, s) \/ Current(file'[s], clock, entered'[s], left'[s], told'[s]),
           Working(Q, clock, users, entered', left', told'), Spares(Q, file')
    PROVE  AloneInv'
<1>1. proc'[p] = Q /\ \A q \in Proc : q # p => proc'[q] = proc[q] /\ Asleep(proc'[q])
    BY InductiveParts DEF AloneInv, Become, Finds
<1>2. AtMostOne'
    BY <1>1 DEF AtMostOne
<1>3. torn' => \E q \in Proc : proc'[q].pc = "write"
    BY <1>1
<1>4. \A s \in Student :
        \/ Current(file'[s], clock', entered'[s], left'[s], told'[s])
        \/ \E q \in Proc : Outdates(proc'[q], s)
    BY <1>1
<1>5. ASSUME NEW q \in Proc
      PROVE  Working(proc'[q], clock', users', entered', left', told') /\ Spares(proc'[q], file')
    <2>1. CASE q = p
        BY <1>1, <2>1
    <2>2. CASE q # p
        <3>1. proc'[q] = proc[q] /\ proc[q].pc \in {"off", "sleep"}
            BY <1>1, <2>2 DEF Asleep
        <3>2. Working(proc[q], clock, users, entered, left, told)
            BY DEF AloneInv
        <3>3. Working(proc[q], clock, users, entered', left', told')
            BY <3>1, <3>2 DEF Working, Busy
        <3>4. Spares(proc[q], file')
            BY <3>1 DEF Spares, Busy
        <3>5. QED
            BY <3>1, <3>3, <3>4
    <2>3. QED
        BY <2>1, <2>2
<1>6. ServerFacts(clock', users', entered', left', term', told')
    OBVIOUS
<1>7. QED
    BY <1>2, <1>3, <1>4, <1>5, <1>6 DEF AloneInv

\* The same, when nothing but the process changes.
LEMMA AloneQuietStep ==
    ASSUME AloneInv, Inductive', NEW p \in Proc, Finds(p), NEW Q, Become(p, Q),
           UNCHANGED <<users, store, clock, server>>,
           proc[p].pc # "write",
           \A s \in Student : Outdates(proc[p], s) => Outdates(Q, s),
           Working(Q, clock, users, entered, left, told), Spares(Q, file)
    PROVE  AloneInv'
<1>1. /\ overlaid' = {} /\ ~torn'
      /\ ServerFacts(clock, users, entered', left', term', told')
      /\ Working(Q, clock, users, entered', left', told') /\ Spares(Q, file')
    BY DEF AloneInv, Finds, store, server
<1>2. \A s \in Student :
        Outdates(Q, s) \/ Current(file'[s], clock, entered'[s], left'[s], told'[s])
    BY DEF Finds, store, server
<1>3. UNCHANGED <<clock, users>>
    OBVIOUS
<1>4. QED
    BY <1>1, <1>2, <1>3, AloneStep

\* What holds of the command in hand.
LEMMA Mine ==
    ASSUME AloneInv, NEW p \in Proc
    PROVE  /\ ProcOK(proc[p], entered, left, term) /\ proc[p] \in Process
           /\ Working(proc[p], clock, users, entered, left, told)
           /\ Spares(proc[p], file)
           /\ file \in States /\ clock \in Clock
           /\ Recorded(entered, left, term) /\ told \in [Student -> BOOLEAN]
BY InductiveParts DEF AloneInv, ProcOK, Surroundings

-----------------------------------------------------------------------------
(* Starting and loading. *)

LEMMA StartAlone ==
    ASSUME Alone, AloneInv, Inductive', NEW p \in Proc, NEW c \in Commands, Start(p, c)
    PROVE  AloneInv'
<1> DEFINE Q == [Idle EXCEPT !.pc = IF c = "clear" THEN "states" ELSE "users",
                             !.cmd = c, !.now = clock]
<1>1. Finds(p) /\ Asleep(proc[p]) /\ clock \in Clock
    BY FindsAtStart, Mine DEF Start
<1>2. Become(p, Q) /\ UNCHANGED <<users, store, clock, server>>
    BY DEF Start
<1>3. /\ Q.cmd = c /\ Q.now = clock
      /\ Q.pc = IF c = "clear" THEN "states" ELSE "users"
    BY DEF Idle
<1> HIDE DEF Q
<1>4. Working(Q, clock, users, entered, left, told) /\ Spares(Q, file)
    BY <1>1, <1>3, RulesAssumption DEF Working, Spares, Busy, Clock
<1>5. QED
    BY <1>1, <1>2, <1>4, AsleepOutdatesNothing, AloneQuietStep DEF Asleep

LEMMA WakeAlone ==
    ASSUME Alone, AloneInv, Inductive', NEW p \in Proc, Wake(p)
    PROVE  AloneInv'
<1> DEFINE P == proc[p]
           Q == [P EXCEPT !.pc = "users"]
<1>1. Finds(p) /\ Asleep(P)
    BY FindsAtStart DEF Wake
<1>2. Become(p, Q) /\ UNCHANGED <<users, store, clock, server>>
    BY DEF Wake
<1>3. P \in Process /\ Working(P, clock, users, entered, left, told)
    BY Mine
<1> HIDE DEF P
<1>4. Q.cmd = P.cmd /\ Q.now = P.now /\ Q.pc = "users"
    BY <1>3 DEF Process
<1> HIDE DEF Q
<1>5. Working(Q, clock, users, entered, left, told) /\ Spares(Q, file)
    BY <1>3, <1>4 DEF Working, Spares, Busy
<1>6. QED
    BY <1>1, <1>2, <1>5, AsleepOutdatesNothing, AloneQuietStep DEF Asleep, P

LEMMA LoadUsersAlone ==
    ASSUME AloneInv, Inductive', NEW p \in Proc, LoadUsers(p)
    PROVE  AloneInv'
<1> DEFINE P == proc[p]
           Q == [P EXCEPT !.pc = "states", !.known = users]
<1>1. P.pc = "users" /\ Finds(p)
    BY FindsAtWork DEF LoadUsers, Asleep
<1>2. Become(p, Q) /\ UNCHANGED <<users, store, clock, server>>
    BY DEF LoadUsers
<1>3. P \in Process /\ Working(P, clock, users, entered, left, told)
    BY Mine
<1>4. \A s \in Student : ~Outdates(P, s)
    BY <1>1 DEF Outdates, Busy
<1> HIDE DEF P
<1>5. Q.cmd = P.cmd /\ Q.now = P.now /\ Q.pc = "states" /\ Q.known = users
    BY <1>3 DEF Process
<1> HIDE DEF Q
<1>6. Working(Q, clock, users, entered, left, told) /\ Spares(Q, file)
    BY <1>3, <1>5 DEF Working, Spares, Busy
<1>7. QED
    BY <1>1, <1>2, <1>4, <1>6, AloneQuietStep DEF P

\* A lone command never finds a damaged file.
LEMMA UnreadableStatesAlone ==
    ASSUME AloneInv, NEW p \in Proc
    PROVE  ~UnreadableStates(p)
BY FindsAtWork DEF UnreadableStates, Asleep, Finds

\* What is loaded is in force.
LEMMA LoadedCurrent ==
    ASSUME AloneInv, NEW P, P.known \subseteq Student, P.now = clock,
           P.cmd \in {"watch", "once", "run", "refresh"}, P.cmd \in Commands,
           NoEdit => P.known = users,
           NEW s \in Student, Current(file[s], clock, entered[s], left[s], told[s])
    PROVE  Current(Loaded(P, s), clock, entered[s], left[s], told[s])
<1> DEFINE r == file[s]
           d == DayOf(clock)
<1>1. /\ r \in UserState /\ clock \in Clock
      /\ r.count \in {NoCount} \cup 0 .. MaxTerm /\ d \in Day /\ Date(P) = d
      /\ Recorded(entered, left, term)
    BY Mine, InductiveParts, RecordTypes DEF AloneInv, Surroundings, States, UserState, Date
<1>2. OnlyTicks => NoEdit /\ P.cmd \in {"watch", "once"}
    BY DEF OnlyTicks, NoEdit
<1>3. CASE s \notin P.known
    <2>1. /\ NoEdit => ~told[s]
          /\ OnlyTicks => \A x \in Day : left[s][x] = 0
        BY <1>2, <1>3 DEF AloneInv, ServerFacts
    <2>2. NoDate \in Day /\ NoDate <= d
        BY <1>1, AbsentType, RecordTypes DEF UserState, NoDate
    <2>3. Current(Absent, clock, entered[s], left[s], told[s])
        BY <1>1, <2>1, <2>2, AbsentType DEF Current, Paired, Remembers, Exact, Timed
    <2>4. QED
        BY <1>3, <2>3 DEF Loaded
<1>4. CASE s \in P.known /\ P.cmd = "run"
    <2>1. Current(NewState(d, r.count), clock, entered[s], left[s], told[s])
        <3>1. d <= DayOf(clock)
            BY <1>1, RecordTypes
        <3>2. QED
            BY <1>1, <1>2, <1>4, <3>1, NewStateCurrent DEF Current, Remembers
    <2>2. QED
        BY <1>1, <1>4, <2>1 DEF Loaded, Ticks
<1>5. CASE s \in P.known /\ P.cmd = "refresh"
    <2>1. ~OnlyTicks /\ ~NoRefresh
        BY <1>2, <1>5 DEF NoRefresh
    <2>2. Current(PreviousState(r), clock, entered[s], left[s], told[s])
        BY <1>1, <2>1, PreviousCurrent
    <2>3. QED
        BY <1>5, <2>2 DEF Loaded, Ticks
<1>6. CASE s \in P.known /\ Ticks(P)
    <2>1. Current(TodayState(r, d), clock, entered[s], left[s], told[s])
        BY <1>1, TodayCurrent
    <2>2. QED
        BY <1>1, <1>6, <2>1 DEF Loaded, Ticks
<1>7. QED
    BY <1>3, <1>4, <1>5, <1>6 DEF Ticks

LEMMA LoadStatesAlone ==
    ASSUME AloneInv, Inductive', NEW p \in Proc, LoadStates(p)
    PROVE  AloneInv'
<1> DEFINE P == [proc[p] EXCEPT !.now = clock]
           m == [s \in Student |-> Loaded(P, s)]
<1>1. /\ ProcOK(proc[p], entered, left, term) /\ clock \in Clock
      /\ proc[p].pc = "states" /\ proc[p].cmd # "clear"
      /\ Working(proc[p], clock, users, entered, left, told) /\ Finds(p)
    BY Mine, FindsAtWork DEF LoadStates, Asleep
<1>2. /\ P \in Process /\ P.known = proc[p].known /\ P.now = clock
      /\ P.cmd = proc[p].cmd /\ P.known \subseteq Student
      /\ P.cmd \in {"watch", "once", "run", "refresh"} /\ P.cmd \in Commands
      /\ NoEdit => P.known = users
    BY <1>1 DEF ProcOK, Process, Command, Sound, Serving, Working
<1>3. PICK work \in SUBSET P.known :
          Become(p, [P EXCEPT !.pc = "decide", !.todo = work, !.mem = m])
    BY <1>2 DEF LoadStates
<1> DEFINE Q == [P EXCEPT !.pc = "decide", !.todo = work, !.mem = m]
<1> HIDE DEF P
<1>4. \A s \in Student : Current(file[s], clock, entered[s], left[s], told[s])
    BY <1>1 DEF Finds, Outdates, Busy
<1>5. AllCurrent(m, clock, entered, left, told)
    BY <1>2, <1>4, LoadedCurrent DEF AllCurrent
<1>6. ASSUME P.cmd = "run", NEW s \in P.known PROVE m[s].next = "entrance"
    <2>1. m[s] = NewState(Date(P), file[s].count)
        BY <1>2, <1>6 DEF Loaded, Ticks
    <2>2. QED
        BY <2>1 DEF NewState, Fresh
<1>7. ASSUME Ticks(P), NEW s \in P.known, file[s].status = "error"
      PROVE  DayOf(clock) > file[s].date \/ m[s].status = "error"
    <2>1. m[s] = TodayState(file[s], DayOf(clock))
        BY <1>2, <1>7 DEF Loaded, Ticks, Date
    <2>2. /\ s \in Student /\ file[s] \in UserState
          /\ file[s].date \in Nat /\ DayOf(clock) \in Nat /\ file[s].date <= DayOf(clock)
        BY <1>1, <1>2, <1>4, <1>7, Mine, RecordTypes DEF States, Current
    <2>3. QED
        BY <1>7, <2>1, <2>2 DEF TodayState
<1> HIDE DEF m
<1>8. /\ Q.cmd = P.cmd /\ Q.now = clock /\ Q.pc = "decide" /\ Q.known = P.known
      /\ Q.mem = m /\ Q.todo = work
    BY <1>2 DEF Process
<1>9. Become(p, Q) /\ UNCHANGED <<users, store, clock, server>>
    BY <1>3 DEF LoadStates
<1> HIDE DEF Q
<1>10. clock <= clock
    BY <1>1, RulesAssumption DEF Clock
<1>11. Working(Q, clock, users, entered, left, told)
    BY <1>2, <1>5, <1>6, <1>8, <1>10 DEF Working
<1>12. Spares(Q, file)
    BY <1>7, <1>8 DEF Spares, Ticks, Date
<1>13. \A s \in Student : ~Outdates(proc[p], s)
    BY <1>1 DEF Outdates, Busy
<1>14. QED
    BY <1>1, <1>9, <1>11, <1>12, <1>13, AloneQuietStep

LEMMA EndedWorks ==
    ASSUME NEW P, NEW ok \in BOOLEAN, NEW c \in Clock, P.cmd \in {"none"} \cup Commands,
           P.now <= c, NEW u, NEW e, NEW l, NEW k, NEW f
    PROVE  /\ Asleep(Ended(P, ok))
           /\ Working(Ended(P, ok), c, u, e, l, k)
           /\ Spares(Ended(P, ok), f)
<1> DEFINE Q == Ended(P, ok)
<1>1. /\ Q.pc \in {"off", "sleep"} /\ Q.cmd \in {"none", P.cmd}
      /\ Q.now = 0 \/ Q.now = P.now
    BY DEF Ended, Idle
<1> HIDE DEF Q
<1>2. 0 <= c
    BY RulesAssumption DEF Clock
<1>3. Asleep(Q) /\ Working(Q, c, u, e, l, k) /\ Spares(Q, f)
    BY <1>1, <1>2 DEF Asleep, Working, Spares, Busy
<1>4. QED
    BY <1>3 DEF Q

LEMMA LoadErrorsAlone ==
    ASSUME AloneInv, Inductive', NEW p \in Proc, LoadErrors(p)
    PROVE  AloneInv'
<1> DEFINE P == proc[p]
           m == [s \in Student |-> ClearError(file[s], Date(P))]
           Q == [P EXCEPT !.pc = "truncate", !.buf = m]
<1>1. /\ P \in Process /\ clock \in Clock /\ file \in States
      /\ P.pc = "states" /\ P.cmd = "clear" /\ Finds(p)
      /\ Working(P, clock, users, entered, left, told)
    BY Mine, FindsAtWork DEF LoadErrors, Asleep
<1>2. Become(p, IF m = file THEN Ended(P, TRUE) ELSE Q)
    BY DEF LoadErrors
<1>3. UNCHANGED <<users, store, clock, server>>
    BY DEF LoadErrors
<1>4. \A s \in Student : ~Outdates(P, s)
    BY <1>1 DEF Outdates, Busy
<1>5. \A s \in Student : Current(file[s], clock, entered[s], left[s], told[s])
    BY <1>1, <1>4 DEF Finds
<1>6. AllCurrent(m, clock, entered, left, told)
    <2>1. ASSUME NEW s \in Student
          PROVE  Current(m[s], clock, entered[s], left[s], told[s])
        BY <1>1, <1>5, ClearErrorCurrent DEF States
    <2>2. QED
        BY <2>1 DEF AllCurrent
<1> HIDE DEF m
<1>7. /\ Asleep(Ended(P, TRUE)) /\ Working(Ended(P, TRUE), clock, users, entered, left, told)
      /\ Spares(Ended(P, TRUE), file)
    BY <1>1, EndedWorks DEF Working
<1>8. CASE m = file
    BY <1>1, <1>2, <1>3, <1>4, <1>7, <1>8, AloneQuietStep
<1>9. CASE m # file
    <2>1. Become(p, Q)
        BY <1>2, <1>9
    <2> HIDE DEF P
    <2>2. Q.cmd = "clear" /\ Q.now = P.now /\ Q.pc = "truncate" /\ Q.buf = m
        BY <1>1 DEF Process
    <2> HIDE DEF Q
    <2>3. Working(Q, clock, users, entered, left, told)
        BY <1>1, <1>6, <2>2 DEF Working, Busy
    <2>4. Spares(Q, file)
        BY <2>2 DEF Spares, Ticks
    <2>5. QED
        BY <1>1, <1>3, <1>4, <2>1, <2>3, <2>4, AloneQuietStep DEF P
<1>10. QED
    BY <1>8, <1>9

-----------------------------------------------------------------------------
(* Serving one user. *)

\* The command in hand gives s the record r and goes on as Q.
LEMMA RecordStep ==
    ASSUME AloneInv, Inductive', NEW p \in Proc, NEW s \in Student, NEW r, NEW Q,
           proc[p].pc \in {"decide", "check", "upload"},
           proc[p].pc = "decide" \/ proc[p].cur = s,
           Become(p, Q), UNCHANGED <<users, store, clock>>,
           Q.cmd = proc[p].cmd, Q.now = proc[p].now, Q.known = proc[p].known,
           Q.todo \subseteq proc[p].todo,
           Q.mem[s] = r, \A x \in Student \ {s} : Q.mem[x] = proc[p].mem[x],
           \/ Ticks(Q) /\ Q.pc = "decide"
           \/ Q.cur = s /\ Q.pc \in {"check", "upload", "merge"},
           Q.pc \in {"check", "upload"} => Asking(Q, entered', left'),
           Current(r, Q.now, entered'[s], left'[s], told'[s]),
           \A x \in Student \ {s} :
              entered'[x] = entered[x] /\ left'[x] = left[x] /\ told'[x] = told[x],
           Ticks(Q) /\ proc[p].mem[s].status = "error" => r.status = "error",
           ServerFacts(clock, users, entered', left', term', told')
    PROVE  AloneInv'
<1> DEFINE P == proc[p]
<1>1. /\ P \in Process /\ Serving(P)
      /\ Working(P, clock, users, entered, left, told) /\ Spares(P, file)
      /\ Finds(p)
    BY Mine, FindsAtWork DEF ProcOK, Sound, Asleep
<1>2. P.cmd \in {"watch", "once", "run", "refresh"} /\ P.pc \in Busy
    BY <1>1 DEF Serving, Process, Command, Busy
<1>3. Q.cmd # "clear" /\ Q.pc \in Busy /\ Q.pc \notin {"truncate", "write"}
    BY <1>2 DEF Busy
<1>4. AllCurrent(Q.mem, Q.now, entered', left', told')
    <2>1. ASSUME NEW x \in Student
          PROVE  Current(Q.mem[x], Q.now, entered'[x], left'[x], told'[x])
        <3>1. CASE x = s
            BY <3>1
        <3>2. CASE x # s
            <4>1. Current(P.mem[x], P.now, entered[x], left[x], told[x])
                BY <1>1, <1>2 DEF Working, AllCurrent
            <4>2. QED
                BY <3>2, <4>1
        <3>3. QED
            BY <3>1, <3>2
    <2>2. QED
        BY <2>1 DEF AllCurrent
<1>5. Q.cmd = "run" => \A x \in Q.todo : x # Q.cur => Q.mem[x].next = "entrance"
    <2>1. SUFFICES ASSUME Q.cmd = "run", NEW x \in Q.todo, x # Q.cur
                   PROVE  Q.mem[x].next = "entrance"
        OBVIOUS
    <2>2. Q.cur = s /\ x \in P.todo /\ x \in Student
        BY <1>1, <2>1 DEF Ticks, Process
    <2>3. P.mem[x].next = "entrance"
        BY <1>1, <1>2, <2>1, <2>2 DEF Working
    <2>4. QED
        BY <2>1, <2>2, <2>3
<1>6. Working(Q, clock, users, entered', left', told')
    <2>1. Q.cmd = "run" => Q.pc # "decide"
        BY DEF Ticks
    <2>2. /\ Q.cmd \in Commands /\ Q.now <= clock
          /\ NoEdit => Q.known = users
        BY <1>1, <1>2 DEF Working
    <2>3. QED
        BY <1>3, <1>4, <1>5, <2>1, <2>2 DEF Working
<1>7. Spares(Q, file')
    <2>1. SUFFICES ASSUME Ticks(Q), NEW x \in P.known, file[x].status = "error"
                   PROVE  Date(P) > file[x].date \/ Q.mem[x].status = "error"
        <3>1. file' = file /\ Date(Q) = Date(P)
            BY DEF store, Date
        <3>2. QED
            BY <1>3, <2>1, <3>1 DEF Spares
    <2>2. x \in Student /\ (Date(P) > file[x].date \/ P.mem[x].status = "error")
        BY <1>1, <1>2, <2>1 DEF Spares, Process, Ticks
    <2>3. QED
        BY <2>1, <2>2
<1>8. ASSUME NEW x \in Student
      PROVE  Outdates(Q, x) \/ Current(file'[x], clock, entered'[x], left'[x], told'[x])
    <2>1. CASE Ticks(Q)
        BY <1>3, <2>1 DEF Outdates
    <2>2. CASE ~Ticks(Q) /\ x = s
        BY <1>2, <1>3, <2>2 DEF Outdates, Ticks
    <2>3. CASE ~Ticks(Q) /\ x # s
        <3>1. ~Outdates(P, x)
            BY <1>2, <2>3 DEF Outdates, Ticks
        <3>2. Current(file[x], clock, entered[x], left[x], told[x])
            BY <1>1, <3>1 DEF Finds
        <3>3. QED
            BY <2>3, <3>2 DEF store
    <2>4. QED
        BY <2>1, <2>2, <2>3
<1>9. overlaid' = {} /\ (torn' => Q.pc = "write")
    BY <1>1 DEF Finds, store
<1>10. QED
    BY <1>1, <1>6, <1>7, <1>8, <1>9, AloneStep

\* The same, when the record is thereby decided.
LEMMA DecidedAlone ==
    ASSUME AloneInv, Inductive', NEW p \in Proc, NEW s \in Student, NEW r, NEW P,
           P \in {proc[p], [proc[p] EXCEPT !.cur = s]}, P.cur = s,
           proc[p].pc \in {"decide", "check", "upload"},
           proc[p].pc = "decide" \/ proc[p].cur = s,
           Become(p, Decided(P, r)), UNCHANGED <<users, store, clock>>,
           Current(r, P.now, entered'[s], left'[s], told'[s]),
           \A x \in Student \ {s} :
              entered'[x] = entered[x] /\ left'[x] = left[x] /\ told'[x] = told[x],
           Ticks(P) /\ P.mem[s].status = "error" => r.status = "error",
           ServerFacts(clock, users, entered', left', term', told')
    PROVE  AloneInv'
<1> DEFINE Q == Decided(P, r)
<1>1. proc[p] \in Process
    BY Mine
<1>2. /\ P.cmd = proc[p].cmd /\ P.now = proc[p].now /\ P.known = proc[p].known
      /\ P.todo = proc[p].todo /\ P.mem = proc[p].mem /\ P.mem \in States /\ P \in Process
    BY <1>1 DEF Process
<1>3. /\ Q.cmd = P.cmd /\ Q.now = P.now /\ Q.known = P.known /\ Q.todo \subseteq P.todo
      /\ Q.mem = [P.mem EXCEPT ![s] = r]
    BY <1>2 DEF Decided, Process
<1>4. \/ Ticks(P) /\ Q.pc = "decide"
      \/ Q.cur = s /\ Q.pc = "merge"
    BY <1>2 DEF Decided, Process
<1> HIDE DEF Q
<1>5. Q.mem[s] = r /\ \A x \in Student \ {s} : Q.mem[x] = proc[p].mem[x]
    BY <1>2, <1>3 DEF States
<1>6. Ticks(Q) <=> Ticks(P)
    BY <1>3 DEF Ticks
<1>7. Become(p, Q)
    BY DEF Q
<1>8. /\ Q.cmd = proc[p].cmd /\ Q.now = proc[p].now /\ Q.known = proc[p].known
      /\ Q.todo \subseteq proc[p].todo
    BY <1>2, <1>3
<1>9. /\ \/ Ticks(Q) /\ Q.pc = "decide"
         \/ Q.cur = s /\ Q.pc \in {"check", "upload", "merge"}
      /\ Q.pc \notin {"check", "upload"}
    BY <1>4, <1>6
<1>10. Ticks(Q) /\ proc[p].mem[s].status = "error" => r.status = "error"
    BY <1>2, <1>6
<1>11. Current(r, Q.now, entered'[s], left'[s], told'[s])
    BY <1>3
<1>12. QED
    BY <1>5, <1>7, <1>8, <1>9, <1>10, <1>11, RecordStep

\* What a command that serves its users holds of each of them.
LEMMA Holds ==
    ASSUME AloneInv, NEW p \in Proc, NEW s \in Student, proc[p].pc \in Busy,
           proc[p].cmd # "clear"
    PROVE  /\ proc[p] \in Process /\ proc[p].mem \in States
           /\ proc[p].mem[s] \in UserState /\ proc[p].now \in Clock
           /\ Current(proc[p].mem[s], proc[p].now, entered[s], left[s], told[s])
<1>1. /\ proc[p] \in Process
      /\ AllCurrent(proc[p].mem, proc[p].now, entered, left, told)
    BY Mine DEF Working
<1>2. QED
    BY <1>1 DEF Process, States, AllCurrent

\* A failed request leaves an error record in force; only where answers are
\* lost may the server have recorded something meanwhile.
LEMMA FailedCurrent ==
    ASSUME NEW P, P.cmd \in {"watch", "once", "run", "refresh"}, P.cmd \in Commands,
           NEW r \in UserState, NEW now \in Clock, NEW E, NEW L, NEW K,
           Current(r, now, E, L, K), NEW E2, NEW L2,
           ~OnlyTicks \/ (E2 = E /\ L2 = L),
           OnlyTicks => r.due <= now /\ r.status # "completed"
    PROVE  Current(Failed(P, r), now, E2, L2, K) /\ Failed(P, r).status = "error"
<1>1. CASE Ticks(P)
    <2>1. Failed(P, r) = MarkError(r)
        BY <1>1 DEF Failed, Ticks
    <2>2. /\ MarkError(r).date = r.date /\ MarkError(r).count = r.count
          /\ MarkError(r).status = "error"
        BY DEF MarkError, UserState
    <2>3. CASE OnlyTicks
        BY <2>1, <2>2, <2>3, MarkErrorCurrent
    <2>4. CASE ~OnlyTicks
        BY <2>1, <2>2, <2>4, UntimedCurrent
    <2>5. QED
        BY <2>3, <2>4
<1>2. CASE ~Ticks(P)
    <2>1. Failed(P, r) \in {RunFailed(r, P.act), RefreshFailed(r)}
        BY <1>2 DEF Failed, Ticks
    <2>2. /\ Failed(P, r).date = r.date /\ Failed(P, r).count = r.count
          /\ Failed(P, r).status = "error"
        BY <2>1 DEF RunFailed, RefreshFailed, UserState
    <2>3. ~OnlyTicks
        BY <1>2 DEF OnlyTicks, Ticks
    <2>4. QED
        BY <2>2, <2>3, UntimedCurrent
<1>3. QED
    BY <1>1, <1>2

LEMMA SettleLocallyAlone ==
    ASSUME AloneInv, Inductive', NEW p \in Proc, NEW s \in Student, SettleLocally(p, s)
    PROVE  AloneInv'
<1> DEFINE P == proc[p]
           r == Settled(P.mem[s], P.now)
           Q == [P EXCEPT !.mem[s] = Settled(@, P.now), !.todo = @ \ {s}]
<1>1. P.pc = "decide" /\ Ticks(P) /\ Become(p, Q) /\ UNCHANGED <<users, store, clock, server>>
    BY DEF SettleLocally
<1>2. /\ P \in Process /\ P.mem \in States /\ P.mem[s] \in UserState /\ P.now \in Clock
      /\ Current(P.mem[s], P.now, entered[s], left[s], told[s])
    BY <1>1, Holds DEF Busy, Ticks
<1>3. Current(r, P.now, entered[s], left[s], told[s])
    BY <1>2, SettledCurrent
<1>4. P.mem[s].status = "error" => r.status = "error"
    BY DEF Settled, ExpireDue
<1>5. /\ Q.cmd = P.cmd /\ Q.now = P.now /\ Q.known = P.known /\ Q.todo \subseteq P.todo
      /\ Q.mem = [P.mem EXCEPT ![s] = r] /\ Q.pc = "decide"
    BY <1>1, <1>2 DEF Process
<1> HIDE DEF Q, r
<1>6. Q.mem[s] = r /\ \A x \in Student \ {s} : Q.mem[x] = P.mem[x]
    BY <1>2, <1>5 DEF States
<1>7. Ticks(Q)
    BY <1>1, <1>5 DEF Ticks
<1>8. /\ ServerFacts(clock, users, entered', left', term', told')
      /\ Current(r, Q.now, entered'[s], left'[s], told'[s])
      /\ \A x \in Student \ {s} :
            entered'[x] = entered[x] /\ left'[x] = left[x] /\ told'[x] = told[x]
    BY <1>1, <1>3, <1>5 DEF AloneInv, server
<1>9. /\ Q.cmd = P.cmd /\ Q.now = P.now /\ Q.known = P.known /\ Q.todo \subseteq P.todo
      /\ Ticks(Q) /\ Q.pc = "decide" /\ Q.pc \notin {"check", "upload"}
    BY <1>5, <1>7
<1>10. QED
    BY <1>1, <1>4, <1>6, <1>8, <1>9, RecordStep

LEMMA SkipAtLimitAlone ==
    ASSUME AloneInv, Inductive', NEW p \in Proc, NEW s \in Student, SkipAtLimit(p, s)
    PROVE  AloneInv'
<1> DEFINE P == [proc[p] EXCEPT !.cur = s]
           r == MarkCompleted(P.mem[s])
<1>1. /\ proc[p].pc = "decide" /\ P.cmd = "run" /\ Become(p, Decided(P, r))
      /\ UNCHANGED <<users, store, clock, server>>
    BY Mine DEF SkipAtLimit, Process
<1>2. /\ proc[p] \in Process /\ proc[p].cmd = "run" /\ P.cur = s /\ P.pc = proc[p].pc
      /\ P.mem = proc[p].mem /\ P.now = proc[p].now
    BY <1>1, Mine DEF Process
<1> HIDE DEF P
<1>3. Current(r, P.now, entered[s], left[s], told[s])
    <2>1. /\ P.mem[s] \in UserState /\ P.now \in Clock
          /\ Current(P.mem[s], P.now, entered[s], left[s], told[s])
        BY <1>1, <1>2, Holds DEF Busy
    <2>2. QED
        BY <2>1, MarkCompletedCurrent
<1> HIDE DEF r
<1>4. /\ ServerFacts(clock, users, entered', left', term', told')
      /\ Current(r, P.now, entered'[s], left'[s], told'[s])
      /\ \A x \in Student \ {s} :
            entered'[x] = entered[x] /\ left'[x] = left[x] /\ told'[x] = told[x]
    BY <1>1, <1>3 DEF AloneInv, server
<1>5. ~Ticks(P) /\ P \in {proc[p], [proc[p] EXCEPT !.cur = s]}
    BY <1>1 DEF Ticks, P
<1>6. QED
    BY <1>1, <1>2, <1>4, <1>5, DecidedAlone

LEMMA RunPhotoMissingAlone ==
    ASSUME AloneInv, Inductive', NEW p \in Proc, NEW s \in Student, RunPhotoMissing(p, s)
    PROVE  AloneInv'
<1> DEFINE P == [proc[p] EXCEPT !.cur = s]
           r == RunFailed(P.mem[s], "entrance")
<1>1. /\ proc[p].pc = "decide" /\ P.cmd = "run" /\ Become(p, Decided(P, r))
      /\ UNCHANGED <<users, store, clock, server>>
    BY Mine DEF RunPhotoMissing, Process
<1>2. /\ proc[p] \in Process /\ proc[p].cmd = "run" /\ P.cur = s /\ P.pc = proc[p].pc
      /\ P.mem = proc[p].mem /\ P.now = proc[p].now
    BY <1>1, Mine DEF Process
<1> HIDE DEF P
<1>3. Current(r, P.now, entered[s], left[s], told[s])
    <2>1. /\ P.mem[s] \in UserState
          /\ Current(P.mem[s], P.now, entered[s], left[s], told[s])
        BY <1>1, <1>2, Holds DEF Busy
    <2>2. r.date = P.mem[s].date /\ r.count = P.mem[s].count /\ r.status = "error"
        BY <2>1 DEF RunFailed, UserState
    <2>3. ~OnlyTicks
        BY <1>1, <1>2, Mine DEF Working, OnlyTicks
    <2>4. QED
        BY <2>1, <2>2, <2>3, UntimedCurrent
<1> HIDE DEF r
<1>4. /\ ServerFacts(clock, users, entered', left', term', told')
      /\ Current(r, P.now, entered'[s], left'[s], told'[s])
      /\ \A x \in Student \ {s} :
            entered'[x] = entered[x] /\ left'[x] = left[x] /\ told'[x] = told[x]
    BY <1>1, <1>3 DEF AloneInv, server
<1>5. ~Ticks(P) /\ P \in {proc[p], [proc[p] EXCEPT !.cur = s]}
    BY <1>1 DEF Ticks, P
<1>6. QED
    BY <1>1, <1>2, <1>4, <1>5, DecidedAlone

LEMMA BeginAlone ==
    ASSUME AloneInv, Inductive', NEW p \in Proc, NEW s \in Student, Begin(p, s)
    PROVE  AloneInv'
<1> DEFINE P == proc[p]
           r == P.mem[s]
           a == IF Ticks(P) THEN DueAction(r) ELSE "entrance"
           Q == [P EXCEPT !.pc = "check", !.cur = s, !.act = a]
<1>1. /\ P.pc = "decide" /\ s \in P.todo /\ Become(p, Q)
      /\ UNCHANGED <<users, store, clock, server>>
      /\ Ticks(P) => AsksServer(r, P.now)
      /\ P.cmd = "run" => ~ReachedLimit(r.count)
    BY DEF Begin
<1>2. P \in Process /\ Serving(P) /\ Working(P, clock, users, entered, left, told)
    BY Mine DEF ProcOK, Sound
<1>3. P.cmd \in {"watch", "once", "run", "refresh"}
    BY <1>1, <1>2 DEF Serving, Process, Command
<1>4. /\ r \in UserState /\ P.now \in Clock
      /\ Current(r, P.now, entered[s], left[s], told[s])
    BY <1>1, <1>3, Holds DEF Busy
<1>5. /\ Q.cmd = P.cmd /\ Q.now = P.now /\ Q.known = P.known /\ Q.todo = P.todo
      /\ Q.mem = P.mem /\ Q.pc = "check" /\ Q.cur = s /\ Q.act = a
    BY <1>2 DEF Process
<1>6. P.cmd = "run" => r.next = "entrance"
    BY <1>1, <1>2 DEF Working, Busy
<1> HIDE DEF Q, r
<1>7. Record(Q) = r
    BY <1>5 DEF Record, r
<1>8. Asking(Q, entered', left')
    <2>1. ASSUME Ticks(Q)
          PROVE  /\ r.status \notin {"completed", "error"} /\ Q.act = DueAction(r)
                 /\ r.due <= Q.now /\ InAnyWindow(Q.now) /\ r.rounds < Rounds
                 /\ ~ReachedLimit(r.count)
        <3>1. Ticks(P)
            BY <1>5, <2>1 DEF Ticks
        <3>2. r.due \in Int /\ P.now \in Nat
            BY <1>4, RecordTypes
        <3>3. QED
            BY <1>1, <1>5, <3>1, <3>2 DEF AsksServer, DueAfterNow
    <2>2. Q.cmd = "run" => Q.act = "entrance" /\ r.next = "entrance" /\ ~ReachedLimit(r.count)
        BY <1>1, <1>5, <1>6 DEF Ticks
    <2>3. Q.cmd # "refresh" => ~ReachedLimit(r.count)
        BY <1>3, <1>5, <2>1, <2>2 DEF Ticks
    <2>4. Q.cmd = "refresh" => Q.pc = "check"
        BY <1>5
    <2>5. QED
        BY <1>7, <2>1, <2>2, <2>3 DEF Asking
<1>9. /\ ServerFacts(clock, users, entered', left', term', told')
      /\ Current(r, Q.now, entered'[s], left'[s], told'[s])
      /\ \A x \in Student \ {s} :
            entered'[x] = entered[x] /\ left'[x] = left[x] /\ told'[x] = told[x]
    BY <1>1, <1>4, <1>5 DEF AloneInv, server
<1>10. Q.mem[s] = r /\ \A x \in Student \ {s} : Q.mem[x] = P.mem[x]
    BY <1>5 DEF r
<1>11. Ticks(Q) /\ P.mem[s].status = "error" => r.status = "error"
    BY DEF r
<1>12. QED
    BY <1>1, <1>5, <1>8, <1>9, <1>10, <1>11, RecordStep

-----------------------------------------------------------------------------
(* Requests. *)

\* A command that awaits an answer.
LEMMA Requests ==
    ASSUME AloneInv, NEW p \in Proc, NEW P, P = proc[p], P.pc \in {"check", "upload"}
    PROVE  /\ P \in Process /\ P.mem \in States /\ P.cur \in Student
           /\ P.cmd \in {"watch", "once", "run", "refresh"} /\ P.cmd \in Commands
           /\ Record(P) = P.mem[P.cur] /\ Record(P) \in UserState
           /\ P.now \in Clock /\ P.now <= clock
           /\ Current(Record(P), P.now, entered[P.cur], left[P.cur], told[P.cur])
           /\ Asking(P, entered, left)
           /\ NoEdit => P.cur \in users
           /\ P.cmd # "refresh" => /\ Record(P).date = Date(P)
                                   /\ Record(P).status # "absent"
           /\ P.cmd = "refresh" => ~NoRefresh /\ ~OnlyTicks /\ P.pc = "check"
           /\ P.cmd = "run" => ~OnlyTicks
<1>1. /\ P \in Process /\ Sound(P, entered, left, term)
      /\ Working(P, clock, users, entered, left, told)
    BY Mine DEF ProcOK
<1>2. /\ P.cur \in P.known /\ P.known \subseteq Student /\ P.mem \in States
      /\ P.cmd \in {"watch", "once", "run", "refresh"} /\ P.now \in Clock
    BY <1>1 DEF Sound, Serving, Process, Command
<1>3. /\ P.cmd \in Commands /\ P.now <= clock /\ Asking(P, entered, left)
      /\ NoEdit => P.known = users
      /\ AllCurrent(P.mem, P.now, entered, left, told)
    BY <1>1, <1>2 DEF Working, Busy
<1>4. /\ Record(P) = P.mem[P.cur] /\ Record(P) \in UserState
      /\ Current(Record(P), P.now, entered[P.cur], left[P.cur], told[P.cur])
    BY <1>2, <1>3 DEF Record, States, AllCurrent
<1>5. ASSUME P.cmd # "refresh"
      PROVE  Record(P).date = Date(P) /\ Record(P).status # "absent"
    <2>1. Record(P).date = Date(P)
        BY <1>1, <1>2, <1>4, <1>5 DEF Sound, Dated
    <2>2. Date(P) # NoDate
        BY <1>2, DayOfClock DEF Date
    <2>3. QED
        BY <1>4, <2>1, <2>2 DEF Current
<1>6. /\ P.cmd = "refresh" => ~NoRefresh /\ ~OnlyTicks
      /\ P.cmd = "run" => ~OnlyTicks
    BY <1>3 DEF NoRefresh, OnlyTicks
<1>7. P.cmd = "refresh" => P.pc = "check"
    BY <1>1 DEF Sound, Serving
<1>8. NoEdit => P.cur \in users
    BY <1>2, <1>3
<1>9. P.cur \in Student
    BY <1>2
<1>10. QED
    BY <1>1, <1>2, <1>3, <1>4, <1>5, <1>6, <1>7, <1>8, <1>9

\* Counts only grow, and nobody is told of more than the server counted.
LEMMA CountsFacts ==
    ASSUME NEW c, NEW u, NEW e, NEW l, NEW t, NEW k, NEW t2, NEW k2,
           ServerFacts(c, u, e, l, t, k),
           \A s \in Student : t[s] \in Int /\ t2[s] \in Int /\ t[s] <= t2[s],
           \A s \in Student : k2[s] => k[s] \/ (t2[s] >= Limit /\ (NoEdit => s \in u))
    PROVE  ServerFacts(c, u, e, l, t2, k2)
<1>1. \A s \in Student : k2[s] => t2[s] >= Limit
    BY RulesAssumption DEF ServerFacts
<1>2. QED
    BY <1>1 DEF ServerFacts

\* The count of an answer is the server's; K is what the user was told before.
LEMMA Answers ==
    ASSUME AloneInv, Inductive', NEW s \in Student, NoEdit => s \in users,
           ServerCounts(s) \/ term' = term, NEW c, AnswerCounts(s, c),
           UNCHANGED <<users, clock, entered, left>>
    PROVE  /\ ServerFacts(clock, users, entered', left', term', told')
           /\ told[s] \in BOOLEAN /\ told'[s] = (told[s] \/ ReachedLimit(c))
           /\ c \in {NoCount} \cup 0 .. MaxTerm
           /\ told[s] /\ c # NoCount => c >= Limit
           /\ \A x \in Student \ {s} :
                entered'[x] = entered[x] /\ left'[x] = left[x] /\ told'[x] = told[x]
<1>1. /\ Recorded(entered, left, term) /\ told \in [Student -> BOOLEAN]
      /\ term' \in [Student -> 0 .. MaxTerm]
    BY DEF AloneInv, Inductive, TypeOK, Recorded
<1>2. \A x \in Student : /\ term[x] \in 0 .. MaxTerm /\ term'[x] \in 0 .. MaxTerm
                         /\ term[x] \in Int /\ term'[x] \in Int /\ term[x] <= term'[x]
    <2>1. \A x \in Student : term[x] \in 0 .. MaxTerm /\ term'[x] \in 0 .. MaxTerm
        BY <1>1 DEF Recorded
    <2>2. CASE term' = term
        BY <2>1, <2>2, RulesAssumption
    <2>3. CASE ServerCounts(s)
        <3>1. PICK n \in {term[s], term[s] + 1} : term' = [term EXCEPT ![s] = n]
            BY <2>3 DEF ServerCounts
        <3>2. \A x \in Student : term'[x] = IF x = s THEN n ELSE term[x]
            BY <1>1, <3>1 DEF Recorded
        <3>3. QED
            BY <2>1, <3>1, <3>2, RulesAssumption
    <2>4. QED
        BY <2>2, <2>3
<1>3. \A x \in Student : told'[x] = IF x = s THEN told[s] \/ ReachedLimit(c) ELSE told[x]
    BY <1>1 DEF AnswerCounts
<1>4. c \in {NoCount, term'[s]} /\ ~ReachedLimit(NoCount)
    BY RulesAssumption DEF AnswerCounts, ReachedLimit, NoCount
<1>5. ServerFacts(clock, users, entered, left, term, told)
    BY DEF AloneInv
<1>6. \A x \in Student :
        told'[x] => told[x] \/ (term'[x] >= Limit /\ (NoEdit => x \in users))
    BY <1>3, <1>4 DEF ReachedLimit
<1>7. ServerFacts(clock, users, entered, left, term', told')
    BY <1>2, <1>5, <1>6, CountsFacts
<1>8. told[s] /\ c # NoCount => c >= Limit
    <2>1. told[s] => term[s] >= Limit
        BY <1>5 DEF ServerFacts
    <2>2. QED
        BY <1>2, <1>4, <2>1, RulesAssumption
<1>9. c \in {NoCount} \cup 0 .. MaxTerm
    BY <1>2, <1>4
<1>10. told[s] \in BOOLEAN /\ told'[s] = (told[s] \/ ReachedLimit(c))
    BY <1>1, <1>3
<1>11. QED
    BY <1>3, <1>7, <1>8, <1>9, <1>10

LEMMA CheckLostAlone ==
    ASSUME AloneInv, Inductive', NEW p \in Proc, CheckLost(p)
    PROVE  AloneInv'
<1> DEFINE P == proc[p]
           s == P.cur
           r == Failed(P, Record(P))
<1>1. /\ P.pc = "check" /\ Become(p, Decided(P, r)) /\ ServerCounts(s)
      /\ UNCHANGED <<users, store, clock, entered, left, told>>
    BY DEF CheckLost
<1>2. ~OnlyTicks
    BY DEF CheckLost, OnlyTicks
<1>3. s \in Student /\ Current(r, P.now, entered[s], left[s], told[s]) /\ r.status = "error"
    BY <1>1, <1>2, Requests, FailedCurrent
<1>4. ServerFacts(clock, users, entered', left', term', told')
    <2>1. PICK n \in {term[s], term[s] + 1} : term' = [term EXCEPT ![s] = n]
        BY <1>1 DEF ServerCounts
    <2>2. term \in [Student -> 0 .. MaxTerm]
        BY Mine DEF Recorded
    <2>3. \A x \in Student : term[x] \in Int /\ term'[x] \in Int /\ term[x] <= term'[x]
        BY <2>1, <2>2, RulesAssumption
    <2>4. ServerFacts(clock, users, entered, left, term, told)
        BY DEF AloneInv
    <2>5. QED
        BY <1>1, <2>3, <2>4, CountsFacts
<1> HIDE DEF r
<1>5. Current(r, P.now, entered'[s], left'[s], told'[s])
    BY <1>1, <1>3
<1>6. QED
    BY <1>1, <1>3, <1>4, <1>5, DecidedAlone

LEMMA CountAnsweredAlone ==
    ASSUME AloneInv, Inductive', NEW p \in Proc, NEW c \in Answer, CountAnswered(p, c)
    PROVE  AloneInv'
<1> DEFINE P == proc[p]
           s == P.cur
           r == IF c = NoCount THEN RefreshFailed(Record(P)) ELSE Refreshed(Record(P), c)
<1>1. /\ P.pc = "check" /\ P.cmd = "refresh" /\ Become(p, Decided(P, r))
      /\ ServerCounts(s) /\ AnswerCounts(s, c)
      /\ UNCHANGED <<users, store, clock, entered, left>>
    BY DEF CountAnswered
<1>2. /\ s \in Student /\ (NoEdit => s \in users) /\ Record(P) \in UserState
      /\ ~OnlyTicks /\ ~NoRefresh
      /\ Current(Record(P), P.now, entered[s], left[s], told[s])
    BY <1>1, Requests
<1>3. /\ ServerFacts(clock, users, entered', left', term', told')
      /\ told[s] \in BOOLEAN /\ told'[s] = (told[s] \/ ReachedLimit(c))
      /\ c \in {NoCount} \cup 0 .. MaxTerm
      /\ told[s] /\ c # NoCount => c >= Limit
      /\ \A x \in Student \ {s} :
            entered'[x] = entered[x] /\ left'[x] = left[x] /\ told'[x] = told[x]
    BY <1>1, <1>2, Answers
<1>4. Current(r, P.now, entered[s], left[s], told[s] \/ ReachedLimit(c))
    <2>1. CASE c = NoCount
        <3>1. ~ReachedLimit(c)
            BY <2>1, RulesAssumption DEF ReachedLimit, NoCount
        <3>2. r.date = Record(P).date /\ r.count = Record(P).count /\ r.status = "error"
            BY <1>2, <2>1 DEF RefreshFailed, UserState
        <3>3. Current(r, P.now, entered[s], left[s], told[s])
            BY <1>2, <3>2, UntimedCurrent
        <3>4. QED
            BY <3>1, <3>3 DEF Current, Remembers
    <2>2. CASE c # NoCount
        <3>1. c \in 0 .. MaxTerm /\ (told[s] => c >= Limit)
            BY <1>3, <2>2
        <3>2. Current(Refreshed(Record(P), c), P.now, entered[s], left[s],
                      told[s] \/ ReachedLimit(c))
            BY <1>2, <1>3, <3>1, RefreshedCurrent
        <3>3. QED
            BY <2>2, <3>2
    <2>3. QED
        BY <2>1, <2>2
<1> HIDE DEF r
<1>5. Current(r, P.now, entered'[s], left'[s], told'[s])
    BY <1>1, <1>3, <1>4
<1>6. ~Ticks(P)
    BY <1>1 DEF Ticks
<1>7. QED
    BY <1>1, <1>2, <1>3, <1>5, <1>6, DecidedAlone

LEMMA CountedSame ==
    ASSUME NEW r \in UserState, NEW c \in {NoCount} \cup 0 .. MaxTerm
    PROVE  /\ Counted(r, c) \in UserState
           /\ Counted(r, c).date = r.date /\ Counted(r, c).status = r.status
           /\ Counted(r, c).next = r.next /\ Counted(r, c).rounds = r.rounds
           /\ Counted(r, c).due = r.due
BY DEF Counted, UserState

\* An answer of the server to a tick or to run --once.
LEMMA AnsweredAlone ==
    ASSUME AloneInv, Inductive', NEW p \in Proc, NEW P, P = proc[p],
           P.pc = "check", P.cmd # "refresh",
           ServerCounts(P.cur) \/ term' = term, NEW c, AnswerCounts(P.cur, c),
           UNCHANGED <<users, clock, entered, left>>, NEW r, r = Counted(Record(P), c)
    PROVE  /\ P \in Process /\ P.mem \in States /\ P.cur \in Student /\ P.now \in Clock
           /\ P.cmd \in {"watch", "once", "run", "refresh"} /\ P.cmd \in Commands
           /\ ServerFacts(clock, users, entered', left', term', told')
           /\ \A x \in Student \ {P.cur} :
                entered'[x] = entered[x] /\ left'[x] = left[x] /\ told'[x] = told[x]
           /\ r \in UserState
           /\ Current(r, P.now, entered'[P.cur], left'[P.cur], told'[P.cur])
           /\ r.status = Record(P).status /\ r.next = Record(P).next
           /\ r.rounds = Record(P).rounds /\ r.due = Record(P).due
           /\ Ticks(P) => r.status \notin {"completed", "error"} /\ r.due <= P.now
           /\ P.mem[P.cur] = Record(P)
<1> DEFINE s == P.cur
<1>1. /\ P \in Process /\ P.mem \in States /\ s \in Student /\ P.now \in Clock
      /\ P.cmd \in {"watch", "once", "run", "refresh"} /\ P.cmd \in Commands
      /\ (NoEdit => s \in users) /\ Record(P) \in UserState /\ Record(P).status # "absent"
      /\ Current(Record(P), P.now, entered[s], left[s], told[s])
      /\ Asking(P, entered, left) /\ P.mem[s] = Record(P)
    BY Requests
<1>2. /\ ServerFacts(clock, users, entered', left', term', told')
      /\ told[s] \in BOOLEAN /\ told'[s] = (told[s] \/ ReachedLimit(c))
      /\ c \in {NoCount} \cup 0 .. MaxTerm
      /\ told[s] /\ c # NoCount => c >= Limit
      /\ \A x \in Student \ {s} :
            entered'[x] = entered[x] /\ left'[x] = left[x] /\ told'[x] = told[x]
    BY <1>1, Answers
<1>3. /\ r \in UserState /\ r.status = Record(P).status /\ r.next = Record(P).next
      /\ r.rounds = Record(P).rounds /\ r.due = Record(P).due
    BY <1>1, <1>2, CountedSame
<1>4. Current(r, P.now, entered[s], left[s], told[s] \/ ReachedLimit(c))
    BY <1>1, <1>2, CountedCurrent
<1>5. Current(r, P.now, entered'[s], left'[s], told'[s])
    BY <1>2, <1>4
<1>6. Ticks(P) => r.status \notin {"completed", "error"} /\ r.due <= P.now
    BY <1>1, <1>3 DEF Asking
<1>7. QED
    BY <1>1, <1>2, <1>3, <1>5, <1>6

LEMMA CheckRefusedAlone ==
    ASSUME AloneInv, Inductive', NEW p \in Proc, NEW c \in Answer, NEW illegal \in BOOLEAN,
           CheckRefused(p, c, illegal)
    PROVE  AloneInv'
<1> DEFINE P == proc[p]
           s == P.cur
           r == Counted(Record(P), c)
           q == IF illegal /\ Ticks(P) THEN DiscardRound(r) ELSE Failed(P, r)
<1>1. /\ P.pc = "check" /\ P.cmd # "refresh" /\ Become(p, Decided(P, q))
      /\ term' = term /\ AnswerCounts(s, c)
      /\ UNCHANGED <<users, store, clock, entered, left>>
    BY DEF CheckRefused
<1>2. /\ s \in Student /\ P.now \in Clock
      /\ P.cmd \in {"watch", "once", "run", "refresh"} /\ P.cmd \in Commands
      /\ ServerFacts(clock, users, entered', left', term', told')
      /\ \A x \in Student \ {s} :
            entered'[x] = entered[x] /\ left'[x] = left[x] /\ told'[x] = told[x]
      /\ r \in UserState
      /\ Current(r, P.now, entered'[s], left'[s], told'[s])
      /\ r.status = Record(P).status
      /\ Ticks(P) => r.status \notin {"completed", "error"} /\ r.due <= P.now
      /\ P.mem[s] = Record(P)
    BY <1>1, AnsweredAlone
<1>3. OnlyTicks => r.due <= P.now /\ r.status # "completed"
    BY <1>2 DEF OnlyTicks, Ticks
<1> HIDE DEF r
<1>4. Current(q, P.now, entered'[s], left'[s], told'[s])
    BY <1>2, <1>3, RestartCurrent, FailedCurrent DEF DiscardRound
<1>5. Ticks(P) /\ P.mem[s].status = "error" => q.status = "error"
    BY <1>2
<1> HIDE DEF q
<1>6. QED
    BY <1>1, <1>2, <1>4, <1>5, DecidedAlone

LEMMA CheckAcceptedAlone ==
    ASSUME AloneInv, Inductive', NEW p \in Proc, NEW c \in Answer, CheckAccepted(p, c)
    PROVE  AloneInv'
<1> DEFINE P == proc[p]
           s == P.cur
           r == Counted(Record(P), c)
           Q == [P EXCEPT !.pc = "upload", !.mem[P.cur] = r]
           done == P.act = "entrance" /\ ReachedLimit(r.count)
<1>1. /\ P.pc = "check" /\ P.cmd # "refresh"
      /\ Become(p, IF done THEN Decided(P, MarkCompleted(r)) ELSE Q)
      /\ ServerCounts(s) /\ AnswerCounts(s, c)
      /\ UNCHANGED <<users, store, clock, entered, left>>
    BY DEF CheckAccepted
<1>2. /\ P \in Process /\ P.mem \in States /\ s \in Student /\ P.now \in Clock
      /\ ServerFacts(clock, users, entered', left', term', told')
      /\ \A x \in Student \ {s} :
            entered'[x] = entered[x] /\ left'[x] = left[x] /\ told'[x] = told[x]
      /\ r \in UserState
      /\ Current(r, P.now, entered'[s], left'[s], told'[s])
      /\ r.status = Record(P).status /\ r.next = Record(P).next
      /\ r.rounds = Record(P).rounds /\ r.due = Record(P).due
      /\ Ticks(P) => r.status \notin {"completed", "error"} /\ r.due <= P.now
      /\ P.mem[s] = Record(P)
    BY <1>1, AnsweredAlone
<1>3. Asking(P, entered', left')
    BY <1>1, Requests
<1> HIDE DEF r
<1>4. CASE done
    <2>1. Become(p, Decided(P, MarkCompleted(r)))
        BY <1>1, <1>4
    <2>2. Current(MarkCompleted(r), P.now, entered'[s], left'[s], told'[s])
        BY <1>2, MarkCompletedCurrent
    <2>3. ~(Ticks(P) /\ P.mem[s].status = "error")
        BY <1>2
    <2>4. QED
        BY <1>1, <1>2, <2>1, <2>2, <2>3, DecidedAlone
<1>5. CASE ~done
    <2>1. Become(p, Q)
        BY <1>1, <1>5
    <2>2. /\ Q.cmd = P.cmd /\ Q.now = P.now /\ Q.known = P.known /\ Q.todo = P.todo
          /\ Q.mem = [P.mem EXCEPT ![s] = r] /\ Q.pc = "upload" /\ Q.cur = s /\ Q.act = P.act
        BY <1>2 DEF Process
    <2> HIDE DEF Q
    <2>3. Q.mem[s] = r /\ \A x \in Student \ {s} : Q.mem[x] = P.mem[x]
        BY <1>2, <2>2 DEF States
    <2>4. Record(Q) = r
        BY <2>2, <2>3 DEF Record
    <2>5. Asking(Q, entered', left')
        <3>1. Ticks(Q) =>
                /\ r.status \notin {"completed", "error"} /\ Q.act = DueAction(r)
                /\ r.due <= Q.now /\ InAnyWindow(Q.now) /\ r.rounds < Rounds
            BY <1>2, <1>3, <2>2 DEF Asking, Ticks, DueAction
        <3>2. Q.cmd = "run" =>
                /\ r.next = "entrance"
                /\ NoRefresh /\ Q.act = "exit" =>
                      left'[Q.cur][Date(Q)] < entered'[Q.cur][Date(Q)]
            BY <1>2, <1>3, <2>2 DEF Asking, Date
        <3>3. Q.pc # "check" /\ (Q.act = "entrance" => ~ReachedLimit(r.count))
            BY <1>5, <2>2
        <3>4. QED
            BY <2>4, <3>1, <3>2, <3>3 DEF Asking
    <2>6. Ticks(Q) => P.mem[s].status # "error"
        BY <1>2, <2>2 DEF Ticks
    <2>7. /\ Q.cmd = P.cmd /\ Q.now = P.now /\ Q.known = P.known /\ Q.todo \subseteq P.todo
          /\ Q.pc \in {"check", "upload", "merge"} /\ Q.cur = s
        BY <2>2
    <2>8. Current(r, Q.now, entered'[s], left'[s], told'[s])
        BY <1>2, <2>2
    <2>9. QED
        BY <1>1, <1>2, <2>1, <2>3, <2>5, <2>6, <2>7, <2>8, RecordStep
<1>6. QED
    BY <1>4, <1>5

-----------------------------------------------------------------------------
(* Uploads. *)

\* One more entrance or exit of s on date d.
LEMMA OneMore ==
    ASSUME NEW f \in [Student -> [Day -> Nat]], NEW s \in Student, NEW d \in Day,
           NEW g, g = [f EXCEPT ![s][d] = @ + 1]
    PROVE  /\ g \in [Student -> [Day -> Nat]]
           /\ g[s][d] = f[s][d] + 1
           /\ \A x \in Day : x # d => g[s][x] = f[s][x]
           /\ \A u \in Student \ {s} : g[u] = f[u]
<1>1. f[s] \in [Day -> Nat] /\ f[s][d] \in Nat
    OBVIOUS
<1>2. g[s] = [f[s] EXCEPT ![d] = f[s][d] + 1] /\ \A u \in Student \ {s} : g[u] = f[u]
    OBVIOUS
<1>3. g[s][d] = f[s][d] + 1 /\ \A x \in Day : x # d => g[s][x] = f[s][x]
    BY <1>1, <1>2
<1>4. f[s][d] + 1 \in Nat
    BY <1>1
<1>5. [f[s] EXCEPT ![d] = f[s][d] + 1] \in [Day -> Nat]
    BY <1>1, <1>4
<1>6. g \in [Student -> [Day -> Nat]]
    BY <1>2, <1>5
<1>7. QED
    BY <1>2, <1>3, <1>6

\* The server records an entrance or an exit.
LEMMA RecordsFacts ==
    ASSUME AloneInv, NEW p \in Proc, NEW P, P = proc[p], P.pc = "upload",
           ServerRecords(P), UNCHANGED <<users, clock, term, told>>,
           NEW s, s = P.cur, NEW d, d = Date(P)
    PROVE  /\ ServerFacts(clock, users, entered', left', term', told')
           /\ \A x \in Student \ {s} :
                entered'[x] = entered[x] /\ left'[x] = left[x] /\ told'[x] = told[x]
           /\ entered[s] \in [Day -> Nat] /\ left[s] \in [Day -> Nat]
           /\ left'[s] \in [Day -> Nat] /\ d \in Day
           /\ P.act = "entrance" => /\ entered'[s][d] = entered[s][d] + 1
                                    /\ left' = left
           /\ P.act # "entrance" => /\ left'[s][d] = left[s][d] + 1
                                    /\ \A x \in Day : x # d => left'[s][x] = left[s][x]
                                    /\ entered' = entered
           /\ NoRefresh => left[s][d] <= entered[s][d]
<1>1. /\ P \in Process /\ s \in Student /\ P.now \in Clock /\ P.now <= clock
      /\ P.cmd \in {"watch", "once", "run"} /\ P.cmd \in Commands
      /\ Record(P) \in UserState /\ Record(P).date = d
      /\ Current(Record(P), P.now, entered[s], left[s], told[s])
      /\ Asking(P, entered, left) /\ (NoEdit => s \in users)
      /\ P.cmd = "run" => ~OnlyTicks
    BY Requests
<1>2. /\ entered \in [Student -> [Day -> Nat]] /\ left \in [Student -> [Day -> Nat]]
      /\ clock \in Clock
    BY Mine DEF Recorded
<1>3. d \in Day
    BY <1>1, DayOfClock DEF Date
<1>4. ServerFacts(clock, users, entered, left, term, told)
    BY DEF AloneInv
<1>5. CASE P.act = "entrance"
    <2>1. entered' = [entered EXCEPT ![s][d] = @ + 1] /\ left' = left
        BY <1>5 DEF ServerRecords
    <2>2. /\ entered' \in [Student -> [Day -> Nat]]
          /\ entered'[s][d] = entered[s][d] + 1
          /\ \A x \in Day : x # d => entered'[s][x] = entered[s][x]
          /\ \A u \in Student \ {s} : entered'[u] = entered[u]
        BY <1>1, <1>2, <1>3, <2>1, OneMore
    <2>3. \A u \in Student, x \in Day :
            entered[u][x] \in Nat /\ left[u][x] \in Nat /\ entered'[u][x] \in Nat
        BY <1>2, <2>2
    <2>4. \A u \in Student, x \in Day : entered[u][x] <= entered'[u][x]
        <3>1. SUFFICES ASSUME NEW u \in Student, NEW x \in Day
                       PROVE  entered[u][x] <= entered'[u][x]
            OBVIOUS
        <3>2. entered'[u][x] = entered[u][x] \/ entered'[u][x] = entered[u][x] + 1
            BY <2>2
        <3>3. QED
            BY <2>3, <3>2
    <2>5. NoRefresh => \A u \in Student, x \in Day : left'[u][x] <= entered'[u][x]
        BY <1>4, <2>1, <2>3, <2>4 DEF ServerFacts
    <2>6. ServerFacts(clock, users, entered', left', term', told')
        BY <1>4, <2>1, <2>5 DEF ServerFacts
    <2>7. QED
        BY <1>1, <1>2, <1>3, <1>4, <1>5, <2>1, <2>2, <2>6 DEF ServerFacts
<1>6. CASE P.act # "entrance"
    <2>1. left' = [left EXCEPT ![s][d] = @ + 1] /\ entered' = entered
        BY <1>6 DEF ServerRecords
    <2>2. /\ left' \in [Student -> [Day -> Nat]]
          /\ left'[s][d] = left[s][d] + 1
          /\ \A x \in Day : x # d => left'[s][x] = left[s][x]
          /\ \A u \in Student \ {s} : left'[u] = left[u]
        BY <1>1, <1>2, <1>3, <2>1, OneMore
    <2>3. \A u \in Student, x \in Day :
            entered[u][x] \in Nat /\ left[u][x] \in Nat /\ left'[u][x] \in Nat
        BY <1>2, <2>2
    <2>4. P.act = "exit"
        BY <1>1, <1>6 DEF Process
    <2>5. ASSUME NoRefresh PROVE left[s][d] < entered[s][d]
        <3>1. CASE Ticks(P)
            <4>1. Record(P).next = "exit" /\ Record(P).status # "error"
                BY <1>1, <2>4, <3>1 DEF Asking, DueAction
            <4>2. QED
                BY <1>1, <2>5, <4>1 DEF Current, Paired
        <3>2. CASE P.cmd = "run"
            BY <1>1, <2>4, <2>5, <3>2 DEF Asking
        <3>3. QED
            BY <1>1, <3>1, <3>2 DEF Ticks
    <2>6. NoRefresh => \A u \in Student, x \in Day : left'[u][x] <= entered'[u][x]
        <3>1. SUFFICES ASSUME NoRefresh, NEW u \in Student, NEW x \in Day
                       PROVE  left'[u][x] <= entered[u][x]
            BY <2>1
        <3>2. CASE u = s /\ x = d
            BY <2>2, <2>3, <2>5, <3>1, <3>2
        <3>3. CASE ~(u = s /\ x = d)
            <4>1. left'[u][x] = left[u][x]
                BY <2>2, <3>3
            <4>2. QED
                BY <1>4, <3>1, <4>1 DEF ServerFacts
        <3>4. QED
            BY <3>2, <3>3
    <2>7. ASSUME OnlyTicks
          PROVE  left'[s][d] <= Rounds /\ Since(d, clock, 2 * left'[s][d] - 1)
        <3>1. Ticks(P)
            BY <1>1, <2>7 DEF Ticks
        <3>2. /\ Record(P).next = "exit" /\ Record(P).status \notin {"completed", "error"}
              /\ Record(P).due <= P.now /\ Record(P).rounds < Rounds
            BY <1>1, <2>4, <3>1 DEF Asking, DueAction
        <3>3. Record(P).rounds = left[s][d] /\ d = DayOf(P.now)
            BY <1>1, <2>7 DEF Current, Exact, Date
        <3>4. left'[s][d] <= Rounds
            BY <1>3, <1>1, <2>2, <2>3, <3>2, <3>3, RulesAssumption
        <3>5. Since(d, P.now, 2 * left'[s][d] - 1)
            <4> DEFINE r == Record(P)
            <4>1. /\ left[s] \in [Day -> Nat] /\ left'[s][r.date] = left[s][r.date] + 1
                  /\ \A x \in Day : x # r.date => left'[s][x] = left[s][x]
                  /\ r \in UserState /\ P.now \in Clock /\ r.date = DayOf(P.now)
                  /\ Current(r, P.now, entered[s], left[s], told[s])
                BY <1>1, <1>2, <2>2, <3>3
            <4> HIDE DEF r
            <4>2. r.next = "exit" /\ r.status \notin {"completed", "error"} /\ r.due <= P.now
                BY <3>2 DEF r
            <4>3. Since(r.date, P.now, 2 * left'[s][r.date] - 1)
                BY <2>7, <4>1, <4>2, ExitDoneCurrent
            <4>4. r.date = d
                BY <1>1 DEF r
            <4>5. QED
                BY <4>3, <4>4
        <3>6. /\ d \in Int /\ P.now \in Int /\ clock \in Int
              /\ 2 * left'[s][d] - 1 \in Int
            <4>1. left'[s][d] \in Nat
                BY <1>1, <1>3, <2>3
            <4>2. d \in Int /\ P.now \in Int /\ clock \in Int
                BY <1>1, <1>2, RecordTypes DEF Clock
            <4>3. QED
                BY <4>1, <4>2
        <3>7. QED
            BY <1>1, <3>4, <3>5, <3>6, SinceLater
    <2>8. OnlyTicks => \A u \in Student, x \in Day :
            left'[u][x] <= Rounds /\ (left'[u][x] > 0 => Since(x, clock, 2 * left'[u][x] - 1))
        <3>1. SUFFICES ASSUME OnlyTicks, NEW u \in Student, NEW x \in Day
                       PROVE  /\ left'[u][x] <= Rounds
                              /\ left'[u][x] > 0 => Since(x, clock, 2 * left'[u][x] - 1)
            OBVIOUS
        <3>2. CASE u = s /\ x = d
            BY <2>7, <3>1, <3>2
        <3>3. CASE ~(u = s /\ x = d)
            <4>1. left'[u][x] = left[u][x]
                BY <2>2, <3>3
            <4>2. QED
                BY <1>4, <3>1, <4>1 DEF ServerFacts
        <3>4. QED
            BY <3>2, <3>3
    <2>9. NoEdit => \A u \in Student \ users : left'[u] = left[u]
        BY <1>1, <2>2
    <2>10. ServerFacts(clock, users, entered', left', term', told')
        <3>1. NoEdit => \A u \in Student \ users :
                ~told'[u] /\ (OnlyTicks => \A x \in Day : left'[u][x] = 0)
            BY <1>4, <2>9 DEF ServerFacts
        <3>2. \A u \in Student : told'[u] => term'[u] >= Limit
            BY <1>4 DEF ServerFacts
        <3>3. QED
            BY <2>6, <2>8, <3>1, <3>2 DEF ServerFacts
    <2>11. QED
        BY <1>1, <1>2, <1>3, <1>4, <1>6, <2>1, <2>2, <2>10 DEF ServerFacts
<1>7. QED
    BY <1>5, <1>6

LEMMA UploadLostAlone ==
    ASSUME AloneInv, Inductive', NEW p \in Proc, UploadLost(p)
    PROVE  AloneInv'
<1> DEFINE P == proc[p]
           s == P.cur
           r == Failed(P, Record(P))
<1>1. /\ P.pc = "upload" /\ Become(p, Decided(P, r))
      /\ ServerRecords(P) \/ UNCHANGED <<entered, left>>
      /\ UNCHANGED <<users, store, clock, term, told>>
    BY DEF UploadLost
<1>2. ~OnlyTicks
    BY DEF UploadLost, OnlyTicks
<1>3. /\ s \in Student /\ r.status = "error"
      /\ Current(r, P.now, entered'[s], left'[s], told[s])
    BY <1>1, <1>2, Requests, FailedCurrent
<1> HIDE DEF r
<1>4. Current(r, P.now, entered'[s], left'[s], told'[s])
    BY <1>1, <1>3
<1>5. /\ ServerFacts(clock, users, entered', left', term', told')
      /\ \A x \in Student \ {s} :
            entered'[x] = entered[x] /\ left'[x] = left[x] /\ told'[x] = told[x]
    <2>1. CASE ServerRecords(P)
        BY <1>1, <2>1, RecordsFacts
    <2>2. CASE UNCHANGED <<entered, left>>
        BY <1>1, <2>2 DEF AloneInv
    <2>3. QED
        BY <1>1, <2>1, <2>2
<1>6. QED
    BY <1>1, <1>3, <1>4, <1>5, DecidedAlone

LEMMA TickPhotoMissingAlone ==
    ASSUME AloneInv, Inductive', NEW p \in Proc, TickPhotoMissing(p)
    PROVE  AloneInv'
<1> DEFINE P == proc[p]
           s == P.cur
           r == MarkError(Record(P))
<1>1. /\ P.pc = "upload" /\ Ticks(P) /\ Become(p, Decided(P, r))
      /\ UNCHANGED <<users, store, clock, server>>
    BY DEF TickPhotoMissing
<1>2. /\ s \in Student /\ Record(P) \in UserState /\ P.now \in Clock
      /\ Current(Record(P), P.now, entered[s], left[s], told[s])
      /\ Asking(P, entered, left)
    BY <1>1, Requests
<1>3. Current(r, P.now, entered[s], left[s], told[s]) /\ r.status = "error"
    <2>1. Record(P).due <= P.now /\ Record(P).status # "completed"
        BY <1>1, <1>2 DEF Asking
    <2>2. r.status = "error"
        BY <1>2 DEF MarkError, UserState
    <2>3. QED
        BY <1>2, <2>1, <2>2, MarkErrorCurrent
<1> HIDE DEF r
<1>4. /\ ServerFacts(clock, users, entered', left', term', told')
      /\ Current(r, P.now, entered'[s], left'[s], told'[s])
      /\ \A x \in Student \ {s} :
            entered'[x] = entered[x] /\ left'[x] = left[x] /\ told'[x] = told[x]
    BY <1>1, <1>3 DEF AloneInv, server
<1>5. QED
    BY <1>1, <1>2, <1>3, <1>4, DecidedAlone

LEMMA TickUploadedAlone ==
    ASSUME AloneInv, Inductive', NEW p \in Proc, TickUploaded(p)
    PROVE  AloneInv'
<1> DEFINE P == proc[p]
           s == P.cur
           d == Date(P)
           q == Record(P)
           r == IF P.act = "entrance" THEN EntranceDone(q, P.now) ELSE ExitDone(q, P.now)
<1>1. /\ P.pc = "upload" /\ Ticks(P) /\ ServerRecords(P) /\ Become(p, Decided(P, r))
      /\ UNCHANGED <<users, store, clock, term, told>>
    BY DEF TickUploaded
<1>2. /\ s \in Student /\ q \in UserState /\ P.now \in Clock /\ q = P.mem[s]
      /\ Current(q, P.now, entered[s], left[s], told[s])
      /\ Asking(P, entered, left) /\ P.cmd # "refresh" /\ q.date = d
      /\ P \in Process
    BY <1>1, Requests DEF Ticks
<1>3. /\ ServerFacts(clock, users, entered', left', term', told')
      /\ \A x \in Student \ {s} :
           entered'[x] = entered[x] /\ left'[x] = left[x] /\ told'[x] = told[x]
      /\ entered[s] \in [Day -> Nat] /\ left[s] \in [Day -> Nat]
      /\ left'[s] \in [Day -> Nat] /\ d \in Day
      /\ P.act = "entrance" => /\ entered'[s][d] = entered[s][d] + 1
                               /\ left' = left
      /\ P.act # "entrance" => /\ left'[s][d] = left[s][d] + 1
                               /\ \A x \in Day : x # d => left'[s][x] = left[s][x]
                               /\ entered' = entered
      /\ NoRefresh => left[s][d] <= entered[s][d]
    BY <1>1, RecordsFacts
<1>4. /\ q.status \notin {"completed", "error"} /\ P.act = DueAction(q)
      /\ q.due <= P.now /\ InAnyWindow(P.now) /\ d = DayOf(P.now)
    BY <1>1, <1>2 DEF Asking, Date
<1> HIDE DEF q, d
<1>5. Current(r, P.now, entered'[s], left'[s], told[s])
    <2>1. CASE P.act = "entrance"
        <3>1. q.next # "exit"
            BY <1>4, <2>1 DEF DueAction
        <3>2. Current(EntranceDone(q, P.now), P.now, entered'[s], left[s], told[s])
            BY <1>2, <1>3, <1>4, <2>1, <3>1, EntranceDoneCurrent
        <3>3. QED
            BY <1>3, <2>1, <3>2
    <2>2. CASE P.act # "entrance"
        <3>1. q.next = "exit"
            BY <1>4, <2>2 DEF DueAction
        <3>2. Current(ExitDone(q, P.now), P.now, entered[s], left'[s], told[s])
            BY <1>2, <1>3, <1>4, <2>2, <3>1, ExitDoneCurrent
        <3>3. QED
            BY <1>3, <2>2, <3>2
    <2>3. QED
        BY <2>1, <2>2
<1>6. P.mem[s].status # "error"
    BY <1>2, <1>4
<1> HIDE DEF r
<1>7. Current(r, P.now, entered'[s], left'[s], told'[s])
    BY <1>1, <1>5
<1>8. QED
    BY <1>1, <1>2, <1>3, <1>6, <1>7, DecidedAlone

LEMMA RunUploadedAlone ==
    ASSUME AloneInv, Inductive', NEW p \in Proc, RunUploaded(p)
    PROVE  AloneInv'
<1> DEFINE P == proc[p]
           s == P.cur
           d == Date(P)
           q == Record(P)
           r == [q EXCEPT !.rounds = @ + 1]
           done == r.rounds >= Rounds \/ ReachedLimit(r.count)
           X == [P EXCEPT !.pc = "check", !.act = "exit"]
           N == [P EXCEPT !.pc = "check", !.act = "entrance", !.mem[P.cur] = r]
<1>1. /\ P.pc = "upload" /\ P.cmd = "run" /\ ServerRecords(P)
      /\ Become(p, IF P.act = "entrance" THEN X
                   ELSE IF done THEN Decided(P, MarkCompleted(r)) ELSE N)
      /\ UNCHANGED <<users, store, clock, term, told>>
    BY DEF RunUploaded
<1>2. /\ s \in Student /\ q \in UserState /\ P.now \in Clock /\ q = P.mem[s]
      /\ Current(q, P.now, entered[s], left[s], told[s])
      /\ Asking(P, entered, left) /\ ~OnlyTicks /\ q.status # "absent"
      /\ P \in Process /\ P.mem \in States
    BY <1>1, Requests
<1>3. /\ ServerFacts(clock, users, entered', left', term', told')
      /\ \A x \in Student \ {s} :
           entered'[x] = entered[x] /\ left'[x] = left[x] /\ told'[x] = told[x]
      /\ entered[s] \in [Day -> Nat] /\ left[s] \in [Day -> Nat] /\ d \in Day
      /\ P.act = "entrance" => /\ entered'[s][d] = entered[s][d] + 1
                               /\ left' = left
      /\ NoRefresh => left[s][d] <= entered[s][d]
    BY <1>1, RecordsFacts
<1>4. /\ q.next = "entrance"
      /\ P.act = "entrance" => ~ReachedLimit(q.count)
    BY <1>1, <1>2 DEF Asking
<1>5. ~Ticks(P)
    BY <1>1 DEF Ticks
<1>6. /\ r.date = q.date /\ r.status = q.status /\ r.count = q.count /\ r.next = q.next
    BY <1>2 DEF UserState
<1> HIDE DEF q, d, r
<1>7. CASE P.act = "entrance"
    <2>1. Become(p, X)
        BY <1>1, <1>7
    <2>2. /\ X.cmd = P.cmd /\ X.now = P.now /\ X.known = P.known /\ X.todo = P.todo
          /\ X.mem = P.mem /\ X.pc = "check" /\ X.cur = s /\ X.act = "exit"
        BY <1>2 DEF Process
    <2> HIDE DEF X
    <2>3. Record(X) = q /\ Date(X) = d /\ ~Ticks(X)
        BY <1>5, <2>2 DEF Record, Date, Ticks, q, d
    <2>4. Current(q, P.now, entered'[s], left'[s], told[s])
        BY <1>2, <1>4, UntimedCurrent
    <2>5. NoRefresh => left'[s][d] < entered'[s][d]
        BY <1>3, <1>7
    <2>6. Asking(X, entered', left')
        BY <1>4, <1>7, <2>2, <2>3, <2>5 DEF Asking
    <2>7. /\ Current(q, X.now, entered'[s], left'[s], told'[s])
          /\ X.mem[s] = q /\ \A x \in Student \ {s} : X.mem[x] = P.mem[x]
        BY <1>1, <1>2, <2>2, <2>4
    <2>8. QED
        BY <1>1, <1>2, <1>3, <2>1, <2>2, <2>3, <2>6, <2>7, RecordStep
<1>8. CASE P.act # "entrance" /\ done
    <2>1. Become(p, Decided(P, MarkCompleted(r)))
        BY <1>1, <1>8
    <2>2. /\ MarkCompleted(r).date = q.date /\ MarkCompleted(r).count = q.count
          /\ MarkCompleted(r).status = "completed" /\ MarkCompleted(r).next = "none"
        <3>1. r \in UserState
            BY <1>2 DEF r, UserState
        <3>2. QED
            BY <1>6, <3>1 DEF MarkCompleted, UserState
    <2>3. Current(MarkCompleted(r), P.now, entered'[s], left'[s], told'[s])
        BY <1>1, <1>2, <2>2, UntimedCurrent
    <2>4. QED
        BY <1>1, <1>2, <1>3, <1>5, <2>1, <2>3, DecidedAlone
<1>9. CASE P.act # "entrance" /\ ~done
    <2>1. Become(p, N)
        BY <1>1, <1>9
    <2>2. /\ N.cmd = P.cmd /\ N.now = P.now /\ N.known = P.known /\ N.todo = P.todo
          /\ N.mem = [P.mem EXCEPT ![s] = r] /\ N.pc = "check" /\ N.cur = s
          /\ N.act = "entrance"
        BY <1>2 DEF Process
    <2> HIDE DEF N
    <2>3. N.mem[s] = r /\ \A x \in Student \ {s} : N.mem[x] = P.mem[x]
        BY <1>2, <2>2 DEF States
    <2>4. Record(N) = r /\ ~Ticks(N)
        BY <1>5, <2>2, <2>3 DEF Record, Ticks
    <2>5. Current(r, P.now, entered'[s], left'[s], told'[s])
        BY <1>1, <1>2, <1>4, <1>6, UntimedCurrent
    <2>6. Asking(N, entered', left')
        BY <1>4, <1>6, <1>9, <2>2, <2>4 DEF Asking
    <2>7. Current(r, N.now, entered'[s], left'[s], told'[s])
        BY <2>2, <2>5
    <2>8. /\ N.cmd = P.cmd /\ N.now = P.now /\ N.known = P.known /\ N.todo \subseteq P.todo
          /\ N.pc \in {"check", "upload", "merge"} /\ N.cur = s
        BY <2>2
    <2>9. QED
        BY <1>1, <1>2, <1>3, <2>1, <2>3, <2>4, <2>6, <2>7, <2>8, RecordStep
<1>10. QED
    BY <1>7, <1>8, <1>9

-----------------------------------------------------------------------------
(* Saving. *)

LEMMA FinishTickAlone ==
    ASSUME AloneInv, Inductive', NEW p \in Proc, FinishTick(p)
    PROVE  AloneInv'
<1> DEFINE P == proc[p]
           Q == [P EXCEPT !.pc = "truncate", !.buf = P.mem]
<1>1. /\ P.pc = "decide" /\ Ticks(P) /\ Become(p, Q) /\ UNCHANGED <<users, store, clock, server>>
    BY DEF FinishTick
<1>2. /\ P \in Process /\ P.mem \in States /\ P.now \in Clock /\ clock \in Clock
      /\ Working(P, clock, users, entered, left, told) /\ Spares(P, file) /\ Finds(p)
    BY <1>1, Mine, FindsAtWork DEF Process, Asleep
<1>3. AllCurrent(P.mem, clock, entered, left, told)
    BY <1>1, <1>2, AllCurrentLater DEF Working, Ticks, Busy
<1>4. /\ Q.cmd = P.cmd /\ Q.now = P.now /\ Q.known = P.known /\ Q.mem = P.mem
      /\ Q.buf = P.mem /\ Q.pc = "truncate"
    BY <1>2 DEF Process
<1> HIDE DEF Q
<1>5. Working(Q, clock, users, entered, left, told)
    BY <1>1, <1>2, <1>3, <1>4 DEF Working, Ticks, Busy
<1>6. Spares(Q, file)
    BY <1>1, <1>2, <1>4 DEF Spares, Ticks, Busy, Date
<1>7. \A s \in Student : Outdates(Q, s)
    BY <1>1, <1>4 DEF Outdates, Ticks, Busy
<1>8. QED
    BY <1>1, <1>2, <1>5, <1>6, <1>7, AloneQuietStep

LEMMA FinishOthersAlone ==
    ASSUME AloneInv, Inductive', NEW p \in Proc, FinishOthers(p)
    PROVE  AloneInv'
<1> DEFINE P == proc[p]
           Q == Ended(P, TRUE)
<1>1. /\ P.pc = "decide" /\ ~Ticks(P) /\ Become(p, Q) /\ UNCHANGED <<users, store, clock, server>>
    BY DEF FinishOthers
<1>2. Working(P, clock, users, entered, left, told) /\ clock \in Clock /\ Finds(p)
    BY <1>1, Mine, FindsAtWork DEF Asleep
<1>3. \A s \in Student : ~Outdates(P, s)
    BY <1>1 DEF Outdates
<1>4. Working(Q, clock, users, entered, left, told) /\ Spares(Q, file)
    BY <1>2, EndedWorks DEF Working
<1> HIDE DEF Q
<1>5. QED
    BY <1>1, <1>2, <1>3, <1>4, AloneQuietStep

\* run --once and refresh put one record among those of state.json.
LEMMA MergeStateAlone ==
    ASSUME AloneInv, Inductive', NEW p \in Proc, MergeState(p)
    PROVE  AloneInv'
<1> DEFINE P == proc[p]
           s == P.cur
           m == [file EXCEPT ![s] = Record(P)]
           Q == [P EXCEPT !.pc = "truncate", !.buf = m]
<1>1. P.pc = "merge" /\ UNCHANGED <<users, store, clock, server>>
    BY DEF MergeState
<1>2. /\ P \in Process /\ Serving(P) /\ P.mem \in States /\ P.now \in Clock
      /\ clock \in Clock /\ file \in States /\ P.cur \in P.known /\ P.known \subseteq Student
      /\ Working(P, clock, users, entered, left, told) /\ Finds(p)
      /\ P.cmd \in {"run", "refresh"}
    BY <1>1, Mine, FindsAtWork DEF ProcOK, Sound, Serving, Process, Asleep
<1>3. s \in Student /\ P.now <= clock
    BY <1>2 DEF Working
<1>4. Become(p, Q)
    BY <1>1, <1>2 DEF MergeState, Finds
<1>5. Current(Record(P), clock, entered[s], left[s], told[s])
    <2>1. AllCurrent(P.mem, P.now, entered, left, told)
        BY <1>1, <1>2 DEF Working, Busy
    <2>2. AllCurrent(P.mem, clock, entered, left, told)
        BY <1>2, <1>3, <2>1, AllCurrentLater
    <2>3. QED
        BY <1>3, <2>2 DEF AllCurrent, Record
<1>6. \A x \in Student \ {s} : Current(file[x], clock, entered[x], left[x], told[x])
    BY <1>2 DEF Finds, Outdates, Ticks
<1>7. AllCurrent(m, clock, entered, left, told)
    BY <1>2, <1>3, <1>5, <1>6, PutCurrent
<1> HIDE DEF m
<1>8. /\ Q.cmd = P.cmd /\ Q.now = P.now /\ Q.known = P.known /\ Q.mem = P.mem
      /\ Q.todo = P.todo /\ Q.cur = P.cur /\ Q.buf = m /\ Q.pc = "truncate"
    BY <1>2 DEF Process
<1> HIDE DEF Q
<1>9. Working(Q, clock, users, entered, left, told)
    BY <1>1, <1>2, <1>7, <1>8 DEF Working, Busy
<1>10. Spares(Q, file)
    BY <1>2, <1>8 DEF Spares, Ticks
<1>11. \A x \in Student : Outdates(P, x) => Outdates(Q, x)
    BY <1>1, <1>2, <1>8 DEF Outdates, Ticks, Busy
<1>12. P.pc # "write"
    BY <1>1
<1>13. QED
    BY <1>1, <1>2, <1>4, <1>9, <1>10, <1>11, <1>12, AloneQuietStep

LEMMA TruncateAlone ==
    ASSUME AloneInv, Inductive', NEW p \in Proc, Truncate(p)
    PROVE  AloneInv'
<1> DEFINE P == proc[p]
           Q == [P EXCEPT !.pc = "write"]
<1>1. /\ P.pc = "truncate" /\ Become(p, Q) /\ overlaid' = overlaid \ {p}
      /\ UNCHANGED <<users, file, clock, server>>
    BY DEF Truncate
<1>2. /\ P \in Process /\ Working(P, clock, users, entered, left, told)
      /\ Spares(P, file) /\ Finds(p)
    BY <1>1, Mine, FindsAtWork DEF Asleep
<1>3. /\ Q.cmd = P.cmd /\ Q.now = P.now /\ Q.known = P.known /\ Q.mem = P.mem
      /\ Q.todo = P.todo /\ Q.cur = P.cur /\ Q.buf = P.buf /\ Q.pc = "write"
    BY <1>2 DEF Process
<1> HIDE DEF Q
<1>4. Working(Q, clock, users, entered, left, told)
    BY <1>1, <1>2, <1>3 DEF Working, Busy
<1>5. Spares(Q, file)
    BY <1>1, <1>2, <1>3 DEF Spares, Ticks, Busy, Date
<1>6. \A x \in Student : Outdates(P, x) => Outdates(Q, x)
    BY <1>1, <1>3 DEF Outdates, Ticks, Busy
<1>7. overlaid' = {}
    BY <1>1, <1>2 DEF Finds
<1>8. \A x \in Student :
        Outdates(Q, x) \/ Current(file'[x], clock, entered'[x], left'[x], told'[x])
    BY <1>1, <1>2, <1>6 DEF Finds, server
<1>9. ServerFacts(clock, users, entered', left', term', told')
    BY <1>1 DEF AloneInv, server
<1>10. Working(Q, clock, users, entered', left', told') /\ Spares(Q, file')
    BY <1>1, <1>4, <1>5 DEF server
<1>11. QED
    BY <1>1, <1>2, <1>3, <1>7, <1>8, <1>9, <1>10, AloneStep

LEMMA WriteAlone ==
    ASSUME AloneInv, Inductive', NEW p \in Proc, Write(p)
    PROVE  AloneInv'
<1> DEFINE P == proc[p]
<1>1. /\ P.pc = "write" /\ file' = P.buf /\ UNCHANGED <<users, clock, server>>
      /\ overlaid' = (overlaid \cup {q \in Proc : proc[q].pc = "write"}) \ {p}
      /\ torn' \in IF p \in overlaid THEN BOOLEAN ELSE {FALSE}
    BY DEF Write
<1>2. /\ P \in Process /\ Serving(P) /\ P.known \subseteq Student
      /\ Working(P, clock, users, entered, left, told) /\ Finds(p) /\ clock \in Clock
    BY <1>1, Mine, FindsAtWork DEF ProcOK, Sound, Process, Asleep
<1>3. PICK logged \in BOOLEAN :
          Become(p, IF P.cmd \in {"run", "refresh"} THEN Served(P, TRUE) ELSE Ended(P, logged))
    BY DEF Write
<1>4. overlaid' = {} /\ ~torn'
    BY <1>1, <1>2 DEF Finds, Asleep
<1>5. \A s \in Student : Current(file'[s], clock, entered'[s], left'[s], told'[s])
    BY <1>1, <1>2 DEF Working, AllCurrent, server
<1>6. ServerFacts(clock, users, entered', left', term', told')
    BY <1>1 DEF AloneInv, server
<1>7. ASSUME NEW ok \in BOOLEAN
      PROVE  /\ Working(Ended(P, ok), clock, users, entered', left', told')
             /\ Spares(Ended(P, ok), file')
    BY <1>2, EndedWorks DEF Working
<1> DEFINE D == [P EXCEPT !.pc = "decide", !.todo = @ \ {P.cur}, !.cur = NoStudent,
                          !.act = "entrance", !.buf = NoStates]
<1>8. ASSUME P.cmd \in {"run", "refresh"}
      PROVE  Working(D, clock, users, entered', left', told') /\ Spares(D, file')
    <2>1. /\ D.cmd = P.cmd /\ D.now = P.now /\ D.known = P.known /\ D.mem = P.mem
          /\ D.todo = P.todo \ {P.cur} /\ D.pc = "decide"
        BY <1>2 DEF Process
    <2> HIDE DEF D
    <2>2. P.cmd = "run" => \A s \in P.todo \ {P.cur} : P.mem[s].next = "entrance"
        BY <1>1, <1>2 DEF Working, Busy
    <2>3. Working(D, clock, users, entered, left, told)
        BY <1>1, <1>2, <1>8, <2>1, <2>2 DEF Working, Busy
    <2>4. Spares(D, file')
        BY <1>8, <2>1 DEF Spares, Ticks
    <2>5. QED
        BY <1>1, <2>3, <2>4 DEF server
<1>9. PICK Q : /\ Become(p, Q)
               /\ Working(Q, clock, users, entered', left', told') /\ Spares(Q, file')
    <2>1. CASE P.cmd \in {"run", "refresh"}
        <3>1. Served(P, TRUE) \in {Ended(P, FALSE), D}
            BY DEF Served
        <3>2. Become(p, Served(P, TRUE))
            BY <1>3, <2>1
        <3> HIDE DEF D
        <3>3. QED
            BY <1>7, <1>8, <2>1, <3>1, <3>2
    <2>2. CASE P.cmd \notin {"run", "refresh"}
        BY <1>3, <1>7, <2>2
    <2>3. QED
        BY <2>1, <2>2
<1>10. UNCHANGED <<clock, users>>
    BY <1>1
<1>11. QED
    BY <1>2, <1>4, <1>5, <1>6, <1>9, <1>10, AloneStep

-----------------------------------------------------------------------------
(* The surroundings. *)

LEMMA ServerFactsLater ==
    ASSUME NEW c \in Clock, NEW d \in Clock, c <= d, NEW u, NEW e, NEW t, NEW k,
           NEW l \in [Student -> [Day -> Nat]], ServerFacts(c, u, e, l, t, k)
    PROVE  ServerFacts(d, u, e, l, t, k)
<1>1. ASSUME OnlyTicks, NEW s \in Student, NEW x \in Day, l[s][x] > 0
      PROVE  Since(x, d, 2 * l[s][x] - 1)
    <2>1. Since(x, c, 2 * l[s][x] - 1)
        BY <1>1 DEF ServerFacts
    <2>2. l[s][x] \in Nat
        OBVIOUS
    <2>3. x \in Int /\ c \in Int /\ d \in Int /\ 2 * l[s][x] - 1 \in Int
        <3>1. DayOf(MaxClock) \in Nat /\ MaxClock \in Nat
            BY RulesAssumption, DayOfMonotone
        <3>2. x \in Int
            BY <3>1 DEF Day, NoDate
        <3>3. c \in Int /\ d \in Int
            BY <3>1 DEF Clock
        <3>4. QED
            BY <2>2, <3>2, <3>3
    <2>4. QED
        BY <2>1, <2>3, SinceLater
<1>2. QED
    BY <1>1 DEF ServerFacts

LEMMA PassTimeAlone ==
    ASSUME AloneInv, Inductive', PassTime
    PROVE  AloneInv'
<1>1. /\ clock' = clock + 1
      /\ UNCHANGED <<users, store, proc, server>>
    BY DEF PassTime
<1>2. /\ clock \in Clock /\ clock' \in Clock /\ file \in States
      /\ left \in [Student -> [Day -> Nat]] /\ \A p \in Proc : proc[p] \in Process
    BY DEF AloneInv, Inductive, TypeOK
<1>3. clock <= clock'
    BY <1>1, <1>2, RulesAssumption DEF Clock
<1>4. ServerFacts(clock', users', entered', left', term', told')
    BY <1>1, <1>2, <1>3, ServerFactsLater DEF AloneInv, server
<1>5. \A s \in Student :
        \/ Current(file'[s], clock', entered'[s], left'[s], told'[s])
        \/ \E p \in Proc : Outdates(proc'[p], s)
    <2>1. SUFFICES ASSUME NEW s \in Student,
                          Current(file[s], clock, entered[s], left[s], told[s])
                   PROVE  Current(file[s], clock', entered[s], left[s], told[s])
        BY <1>1 DEF AloneInv, store, server
    <2>2. file[s] \in UserState
        BY <1>2 DEF States
    <2>3. QED
        BY <1>2, <1>3, <2>1, <2>2, CurrentLater
<1>6. ASSUME NEW p \in Proc
      PROVE  Working(proc[p], clock', users, entered, left, told)
    <2> DEFINE P == proc[p]
    <2>1. Working(P, clock, users, entered, left, told)
        BY DEF AloneInv
    <2>2. P.now \in Nat /\ P.buf \in States
        BY <1>2 DEF Process, Clock
    <2>3. P.now <= clock'
        <3>1. clock \in Nat /\ P.now <= clock
            BY <1>2, <2>1 DEF Clock, Working
        <3>2. QED
            BY <1>1, <2>2, <3>1
    <2>4. P.pc \in {"truncate", "write"} => AllCurrent(P.buf, clock', entered, left, told)
        BY <1>2, <1>3, <2>1, <2>2, AllCurrentLater DEF Working
    <2> HIDE DEF P
    <2>5. Working(P, clock', users, entered, left, told)
        BY <2>1, <2>3, <2>4 DEF Working
    <2>6. QED
        BY <2>5 DEF P
<1>7. \A p \in Proc : /\ Working(proc'[p], clock', users', entered', left', told')
                      /\ Spares(proc'[p], file')
    BY <1>1, <1>6 DEF AloneInv, store, server
<1>8. /\ AtMostOne' /\ overlaid' = {}
      /\ torn' => \E p \in Proc : proc'[p].pc = "write"
    BY <1>1 DEF AloneInv, AtMostOne, store
<1>9. QED
    BY <1>4, <1>5, <1>7, <1>8 DEF AloneInv

\* A change of users.json concerns only what NoEdit excludes.
LEMMA EditUsersAlone ==
    ASSUME AloneInv, Inductive', NEW s \in Student, EditUsers(s)
    PROVE  AloneInv'
<1>1. UNCHANGED <<store, proc, clock, server>> /\ ~NoEdit
    BY DEF EditUsers, NoEdit
<1>2. ServerFacts(clock', users', entered', left', term', told')
    BY <1>1 DEF AloneInv, ServerFacts, server
<1>3. \A p \in Proc : /\ Working(proc'[p], clock', users', entered', left', told')
                      /\ Spares(proc'[p], file')
    BY <1>1 DEF AloneInv, Working, store, server
<1>4. /\ AtMostOne' /\ overlaid' = {}
      /\ torn' => \E p \in Proc : proc'[p].pc = "write"
    BY <1>1 DEF AloneInv, AtMostOne, store
<1>5. \A x \in Student :
        \/ Current(file'[x], clock', entered'[x], left'[x], told'[x])
        \/ \E p \in Proc : Outdates(proc'[p], x)
    BY <1>1 DEF AloneInv, store, server
<1>6. QED
    BY <1>2, <1>3, <1>4, <1>5 DEF AloneInv

LEMMA StutterAlone ==
    ASSUME AloneInv, Inductive', UNCHANGED vars
    PROVE  AloneInv'
BY DEF AloneInv, AtMostOne, vars, store, server

-----------------------------------------------------------------------------
(* The invariant. *)

LEMMA InitAlone ==
    ASSUME Init
    PROVE  AloneInv
<1>1. Inductive
    BY InitInductive
<1>2. /\ clock = 0 /\ clock \in Clock /\ overlaid = {} /\ torn = FALSE
      /\ \A p \in Proc : proc[p] = Idle
      /\ \A s \in Student :
            /\ file[s] = Absent /\ told[s] = FALSE
            /\ \A d \in Day : entered[s][d] = 0 /\ left[s][d] = 0
    BY RulesAssumption DEF Init, NoStates, Clock
<1>3. Idle.pc = "off" /\ Idle.cmd = "none" /\ Idle.now = 0
    BY DEF Idle
<1>4. AtMostOne
    BY <1>2, <1>3 DEF AtMostOne, Asleep
<1>5. ServerFacts(clock, users, entered, left, term, told)
    BY <1>2, RulesAssumption DEF ServerFacts
<1>6. \A s \in Student : Current(file[s], clock, entered[s], left[s], told[s])
    <2>1. SUFFICES ASSUME NEW s \in Student
                   PROVE  Current(Absent, clock, entered[s], left[s], told[s])
        BY <1>2
    <2>2. NoDate \in Day /\ NoDate <= DayOf(clock)
        BY <1>2, AbsentType, RecordTypes DEF UserState, NoDate
    <2>3. QED
        BY <1>2, <2>2, AbsentType DEF Current, Paired, Remembers, Exact, Timed
<1>7. Working(Idle, clock, users, entered, left, told) /\ Spares(Idle, file)
    BY <1>2, <1>3 DEF Working, Spares, Ticks, Busy
<1>8. QED
    BY <1>1, <1>2, <1>4, <1>5, <1>6, <1>7 DEF AloneInv

LEMMA StepAlone ==
    ASSUME AloneInv, Inductive', NEW p \in Proc, Step(p)
    PROVE  AloneInv'
<1>1. CASE LoadUsers(p) \/ UnreadableStates(p) \/ LoadStates(p) \/ LoadErrors(p)
    BY <1>1, LoadUsersAlone, UnreadableStatesAlone, LoadStatesAlone, LoadErrorsAlone
<1>2. ASSUME NEW s \in Student,
             \/ SettleLocally(p, s) \/ SkipAtLimit(p, s)
             \/ RunPhotoMissing(p, s) \/ Begin(p, s)
      PROVE  AloneInv'
    BY <1>2, SettleLocallyAlone, SkipAtLimitAlone, RunPhotoMissingAlone, BeginAlone
<1>3. CASE CheckLost(p)
    BY <1>3, CheckLostAlone
<1>4. ASSUME NEW c \in Answer,
             \/ CountAnswered(p, c) \/ CheckAccepted(p, c)
             \/ \E illegal \in BOOLEAN : CheckRefused(p, c, illegal)
      PROVE  AloneInv'
    BY <1>4, CountAnsweredAlone, CheckAcceptedAlone, CheckRefusedAlone
<1>5. CASE UploadLost(p) \/ TickPhotoMissing(p) \/ TickUploaded(p) \/ RunUploaded(p)
    BY <1>5, UploadLostAlone, TickPhotoMissingAlone, TickUploadedAlone, RunUploadedAlone
<1>6. CASE FinishTick(p) \/ FinishOthers(p) \/ MergeState(p) \/ Truncate(p) \/ Write(p)
    BY <1>6, FinishTickAlone, FinishOthersAlone, MergeStateAlone, TruncateAlone, WriteAlone
<1>7. QED
    BY <1>1, <1>2, <1>3, <1>4, <1>5, <1>6 DEF Step

LEMMA NextAlone ==
    ASSUME Alone
    PROVE  AloneInv /\ [Next]_vars => AloneInv'
<1> SUFFICES ASSUME AloneInv, [Next]_vars PROVE AloneInv'
    OBVIOUS
<1>1. Inductive'
    BY NextInductive DEF AloneInv
<1>2. CASE PassTime
    BY <1>1, <1>2, PassTimeAlone
<1>3. ASSUME NEW s \in Student, EditUsers(s) PROVE AloneInv'
    BY <1>1, <1>3, EditUsersAlone
<1>4. ASSUME NEW p \in Proc, Step(p) \/ Wake(p) PROVE AloneInv'
    BY <1>1, <1>4, StepAlone, WakeAlone
<1>5. ASSUME NEW p \in Proc PROVE ~Kill(p)
    BY DEF Alone, Kill
<1>6. ASSUME NEW p \in Proc, NEW c \in Commands, Start(p, c) PROVE AloneInv'
    BY <1>1, <1>6, StartAlone
<1>7. CASE UNCHANGED vars
    BY <1>1, <1>7, StutterAlone
<1>8. QED
    BY <1>2, <1>3, <1>4, <1>5, <1>6, <1>7 DEF Next

\* While at most one command works at a time and none is killed, some record is
\* in force for every user, in state.json or with the command at work.
THEOREM RecordsStayInForce ==
    ASSUME Alone
    PROVE  Spec => []AloneInv
<1>1. Init => AloneInv
    BY InitAlone
<1>2. AloneInv /\ [Next]_vars => AloneInv'
    BY NextAlone
<1>3. QED
    BY <1>1, <1>2, PTL DEF Spec

-----------------------------------------------------------------------------
(* What follows. *)

\* Without count --refresh, which may bring a failed record back as one that
\* waits for an exit, each exit the server recorded has an entrance of its own.
THEOREM RoundsAlwaysPaired ==
    ASSUME Alone, NoRefresh
    PROVE  Spec => []RoundsPaired
<1>1. AloneInv => RoundsPaired
    BY DEF AloneInv, ServerFacts, RoundsPaired
<1>2. QED
    BY <1>1, RecordsStayInForce, PTL

\* While nobody is added or deleted, a user once told to be at the limit is not
\* checked in again: ticks, run --once, count --refresh, clear-errors, refusals
\* and lost answers all keep the count that says so.
THEOREM LimitAlwaysRemembered ==
    ASSUME Alone, NoEdit
    PROVE  Spec => []NoCheckAfterLimit
<1>1. ASSUME AloneInv, NEW p \in Proc, proc[p].pc = "check", proc[p].cmd # "refresh",
             told[proc[p].cur]
      PROVE  FALSE
    <2>1. /\ Asking(proc[p], entered, left)
          /\ Current(Record(proc[p]), proc[p].now, entered[proc[p].cur],
                     left[proc[p].cur], told[proc[p].cur])
        BY <1>1, Requests
    <2>2. ~ReachedLimit(Record(proc[p]).count)
        BY <1>1, <2>1 DEF Asking
    <2>3. Record(proc[p]).count >= Limit
        BY <1>1, <2>1 DEF Current, Remembers
    <2>4. QED
        BY <2>2, <2>3 DEF ReachedLimit
<1>2. AloneInv => NoCheckAfterLimit
    BY <1>1 DEF NoCheckAfterLimit
<1>3. QED
    BY <1>2, RecordsStayInForce, PTL

\* Where only ticks and clear-errors run and no answer is lost, nobody is checked
\* out more often in a day than he asked for, nor before the waits are over.
THEOREM RoundsAlwaysInTime ==
    ASSUME Alone, OnlyTicks
    PROVE  Spec => []RoundsInTime
<1>1. ASSUME AloneInv PROVE NoExtraRounds
    BY <1>1 DEF AloneInv, ServerFacts, NoExtraRounds
<1>2. ASSUME AloneInv PROVE DayHoldsItsRounds
    BY <1>2 DEF AloneInv, ServerFacts, DayHoldsItsRounds, Since
<1>3. AloneInv => RoundsInTime
    BY <1>1, <1>2 DEF RoundsInTime
<1>4. QED
    BY <1>3, RecordsStayInForce, PTL

\* No tick lifts an error of its own date: only clear-errors, run --once, a later
\* date or the loss of the user does.
THEOREM ErrorAlwaysHeld ==
    ASSUME Alone, NoRefresh
    PROVE  Spec => ErrorHeld
<1> DEFINE Held == \A s \in Student :
                      file[s].status = "error" /\ file'[s].status # "error" =>
                          \E p \in Proc :
                              /\ proc[p].pc = "write"
                              /\ \/ proc[p].cmd \in {"clear", "run"}
                                 \/ Date(proc[p]) > file[s].date
                                 \/ s \notin proc[p].known
<1>1. ASSUME AloneInv, NEW p \in Proc, Write(p), NEW s \in Student,
             file[s].status = "error", file'[s].status # "error",
             proc[p].cmd \notin {"clear", "run"}, s \in proc[p].known
      PROVE  Date(proc[p]) > file[s].date
    <2> DEFINE P == proc[p]
    <2>1. P.pc = "write" /\ file' = P.buf
        BY <1>1 DEF Write
    <2>2. /\ P \in Process /\ Working(P, clock, users, entered, left, told)
          /\ Spares(P, file)
        BY <1>1, Mine
    <2>3. Ticks(P)
        <3>1. P.cmd \in Commands
            BY <2>1, <2>2 DEF Working, Busy
        <3>2. P.cmd \in Command
            BY <2>2 DEF Process
        <3>3. P.cmd \notin {"clear", "run", "refresh"} /\ P.cmd # "none"
            BY <1>1, <2>1, <2>2, <3>1, SchedulerAssumption DEF NoRefresh
        <3>4. QED
            BY <3>2, <3>3 DEF Command, Ticks
    <2>4. P.buf = P.mem /\ (Date(P) > file[s].date \/ P.mem[s].status = "error")
        BY <1>1, <2>1, <2>2, <2>3 DEF Spares, Busy
    <2>5. QED
        BY <1>1, <2>1, <2>4
<1>2. ASSUME [Next]_vars, ~\E p \in Proc : Write(p)
      PROVE  file' = file
    <2>1. ASSUME NEW p \in Proc, Step(p) PROVE file' = file
        BY <1>2, <2>1 DEF Step, LoadUsers, UnreadableStates, LoadStates, LoadErrors,
           SettleLocally, SkipAtLimit, RunPhotoMissing, Begin, CheckLost, CountAnswered,
           CheckAccepted, CheckRefused, UploadLost, TickPhotoMissing, TickUploaded,
           RunUploaded, FinishTick, FinishOthers, MergeState, Truncate, store
    <2>2. QED
        BY <1>2, <2>1 DEF Next, PassTime, EditUsers, Wake, Kill, Start, vars, store
<1>3. AloneInv /\ [Next]_vars => Held
    <2>1. SUFFICES ASSUME AloneInv, [Next]_vars PROVE Held
        OBVIOUS
    <2>2. CASE \E p \in Proc : Write(p)
        <3>1. PICK p \in Proc : Write(p)
            BY <2>2
        <3>2. proc[p].pc = "write"
            BY <3>1 DEF Write
        <3>3. QED
            BY <1>1, <2>1, <3>1, <3>2
    <2>3. CASE ~\E p \in Proc : Write(p)
        BY <1>2, <2>1, <2>3
    <2>4. QED
        BY <2>2, <2>3
<1>4. AloneInv /\ [Next]_vars => [Held]_vars
    BY <1>3
<1>5. QED
    BY <1>4, RecordsStayInForce, PTL DEF Spec, ErrorHeld
=============================================================================
