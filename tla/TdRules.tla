------------------------------- MODULE TdRules -------------------------------
(***************************************************************************)
(* The rules of the TD check-in scheduler: the record state.json keeps for *)
(* each user and what every outcome of a tick does to it.  The texts       *)
(* last_error and last_message are left out; all that decides a later step *)
(* is kept.  User.cached_term_count is left out: no code of the repository *)
(* writes it, only a hand-edited users.json can hold one.                  *)
(***************************************************************************)
EXTENDS Integers

CONSTANTS
    Rounds,     \* User.rounds, the rounds a user wants per day
    Limit,      \* completion_limit: the check-ins a term asks for
    Wait,       \* wait_time_min_minutes, in slots of the clock
    DaySlots,   \* slots in a day; one slot stands for one poll of the watch loop
    Windows,    \* Config.windows: pairs <<first, last>> of slots, both inclusive
    MaxClock,   \* bound: the last slot of the model
    MaxTerm     \* bound: the largest term count the server reaches

ASSUME RulesAssumption ==
    /\ Rounds \in Nat \ {0}         \* make_user refuses rounds <= 0
    /\ Limit \in Nat \ {0}
    /\ Wait \in Nat
    /\ DaySlots \in Nat \ {0}
    /\ Windows \subseteq Nat \X Nat
    /\ MaxClock \in Nat
    /\ MaxTerm \in Nat

-----------------------------------------------------------------------------
(* Time: an absolute slot; its date and its minute follow from it. *)

Clock == 0 .. MaxClock
DayOf(t) == 1 + t \div DaySlots
NoDate == 0
Day == NoDate .. DayOf(MaxClock)
NoTime == -1
NoCount == -1

InAnyWindow(t) ==
    \E w \in Windows : w[1] <= t % DaySlots /\ t % DaySlots <= w[2]

-----------------------------------------------------------------------------
(* The record of one user.  "absent": state.json has no entry for the user. *)

Status == {"absent", "pending", "waiting", "completed", "error", "refreshed"}
NextAction == {"entrance", "exit", "none"}

UserState == [date   : Day,
              status : Status,
              next   : NextAction,
              rounds : Nat,
              count  : {NoCount} \cup 0 .. MaxTerm,
              due    : {NoTime} \cup Nat]

Fresh(date, status, count) ==
    [date |-> date, status |-> status, next |-> "entrance",
     rounds |-> 0, count |-> count, due |-> NoTime]

Absent == Fresh(NoDate, "absent", NoCount)

\* Mutant: a new day forgets the term count.
NewState_ForgetsCount(date, count) == Fresh(date, "pending", NoCount)

NewState(date, count) == Fresh(date, "pending", count)

TodayState(r, date) == IF r.date = date THEN r ELSE NewState(date, r.count)

\* What td count --refresh works on: the saved record, or a default UserState.
PreviousState(r) == IF r.status = "absent" THEN NewState(NoDate, NoCount) ELSE r

-----------------------------------------------------------------------------
(* What each outcome does to the record. *)

ReachedLimit(c) == c >= Limit

DueAfterNow(due, now) == due > now

MarkCompleted(r) ==
    [r EXCEPT !.status = "completed", !.next = "none", !.due = NoTime]

MarkError(r) == [r EXCEPT !.status = "error", !.due = NoTime]

\* Mutant: a restarted round keeps its next action.
Restart_KeepsNext(r) == [r EXCEPT !.status = "pending", !.due = NoTime]

Restart(r) ==
    [r EXCEPT !.status = "pending", !.next = "entrance", !.due = NoTime]

DiscardRound(r) == Restart(r)

ClearError(r, date) ==
    IF r.date = date /\ r.status = "error" THEN Restart(r) ELSE r

\* Mutant: only a pending action is given up, a waiting one stands.
ExpireDue_PendingOnly(r, now) ==
    IF r.status = "pending" /\ r.due # NoTime /\ ~DueAfterNow(r.due, now)
    THEN Restart(r)
    ELSE r

\* An action that fell due outside every window is given up.
ExpireDue(r, now) ==
    IF /\ r.status \in {"pending", "waiting"}
       /\ r.due # NoTime
       /\ ~DueAfterNow(r.due, now)
    THEN Restart(r)
    ELSE r

Counted(r, c) == IF c = NoCount THEN r ELSE [r EXCEPT !.count = c]

\* Mutant: the next action is due at once.
AwaitNext_NoWait(r, next, now) ==
    [r EXCEPT !.status = "waiting", !.next = next, !.due = now]

AwaitNext(r, next, now) ==
    [r EXCEPT !.status = "waiting", !.next = next, !.due = now + Wait]

EntranceDone(r, now) == AwaitNext(r, "exit", now)

ExitDone(r, now) ==
    LET q == [r EXCEPT !.rounds = @ + 1]
    IN  IF q.rounds >= Rounds \/ ReachedLimit(q.count)
        THEN MarkCompleted(q)
        ELSE AwaitNext(q, "entrance", now)

\* Mutant: a tick retries a user in error.
AsksServer_RetriesErrors(r, now) ==
    /\ InAnyWindow(now)
    /\ r.status # "completed"
    /\ ~ReachedLimit(r.count)
    /\ ~DueAfterNow(r.due, now)
    /\ r.rounds < Rounds

\* A tick asks the server about this user; otherwise it settles him locally.
AsksServer(r, now) ==
    /\ InAnyWindow(now)
    /\ r.status \notin {"completed", "error"}
    /\ ~ReachedLimit(r.count)
    /\ ~DueAfterNow(r.due, now)
    /\ r.rounds < Rounds

Settled(r, now) ==
    IF ~InAnyWindow(now) THEN ExpireDue(r, now)
    ELSE IF r.status \in {"completed", "error"} THEN r
    ELSE IF ReachedLimit(r.count) \/ ~DueAfterNow(r.due, now)
         THEN MarkCompleted(r)
         ELSE r

DueAction(r) == IF r.next = "exit" THEN "exit" ELSE "entrance"

-----------------------------------------------------------------------------
(* The other writers of the record: td run --once and td count --refresh. *)

\* Mutant: a failed round is reported as completed.
RunFailed_CountsRound(r, action) ==
    [r EXCEPT !.status = "error", !.next = action, !.rounds = @ + 1]

RunFailed(r, action) == [r EXCEPT !.status = "error", !.next = action]

RefreshFailed(r) == [r EXCEPT !.status = "error"]

Refreshed(r, c) ==
    IF ReachedLimit(c)
    THEN [r EXCEPT !.count = c, !.status = "completed", !.next = "none"]
    ELSE [r EXCEPT !.count = c, !.status = "refreshed"]
=============================================================================
