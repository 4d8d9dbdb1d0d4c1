---------------------------- MODULE CampusSystems ----------------------------
(***************************************************************************)
(* How each campus service reads what a system sends: the pages and        *)
(* answers met on the way to a session (Enter), the answers to a query     *)
(* (Reading), and the queries a command makes.  A table gives for every    *)
(* outcome the answers that lead to it.                                    *)
(***************************************************************************)
EXTENDS Naturals, Sequences, FiniteSets, Tables

\* What the way to a session ends with: the system lets the client in, sends
\* it to the campus login, shows some other page, a status that is no success,
\* a refusal of its own, or nothing because the connection broke.
Welcomes == {"in", "turned", "page", "down", "refused", "lost"}

\* Answers to a query.  Turned away: a status 401 or 403 ("away"), the login
\* page, or a refusal that speaks of the login (ygdk: code -98).
TurnedAway == {"away", "login", "denied"}
\* Trouble: a success without the list, a refusal, another page, another
\* status, a broken connection.
Trouble == {"odd", "refused", "page", "down", "lost"}
Answers == {"rows", "none"} \cup TurnedAway \cup Trouble

Errors == {"expired", "auth", "network", "unreadable"}

-----------------------------------------------------------------------------
(* BYXT: courses, exams, terms.  Any answer that is not a JSON success of  *)
(* the portal counts as an expiry, a maintenance page included.            *)

\* A refusal is JSON, and JSON is what the probe of the portal looks for.
ByxtEnter == [ready |-> {"in", "refused"}, expired |-> {"turned"}, unreadable |-> {"page", "down"},
              network |-> {"down", "lost"}]
NotReady == TurnedAway \cup {"page", "down"}
CourseReading == [rows |-> {"rows"}, empty |-> {"none", "odd"}, expired |-> NotReady,
                  auth |-> {"refused"}, network |-> {"lost"}]
ExamReading == CourseReading
TermReading == CourseReading

(* app.buaa (free classrooms, grades) and uc (the user, announcements).    *)
(* Classrooms call any answer with the word login an expiry; a refusal     *)
(* with code 1 passes for an empty list.                                   *)

AppEnter == [ready |-> {"in", "page", "refused"}, expired |-> {"turned", "down"}, network |-> {"lost"}]
ClassroomReading ==
    [rows |-> {"rows"}, empty |-> {"none", "odd", "refused"}, expired |-> TurnedAway \cup {"page"},
     network |-> {"refused", "down", "lost"}, unreadable |-> {"page"}]
\* The status of the score entry page is not looked at.
ScoreEnter == [ready |-> {"in", "page", "down", "refused"}, expired |-> {"turned"}, network |-> {"lost"}]
GradeReading ==
    [rows |-> {"rows"}, empty |-> {"none", "odd"}, expired |-> TurnedAway,
     network |-> {"refused", "down", "lost"}, unreadable |-> {"page"}]
UserReading ==
    [rows |-> {"rows"}, expired |-> TurnedAway \cup {"none", "odd", "refused"},
     network |-> {"down", "lost"}, unreadable |-> {"page"}]
\* The code of an announcement answer is not looked at.
AnnouncementReading ==
    [rows |-> {"rows"}, empty |-> {"none", "odd", "refused"}, expired |-> TurnedAway,
     network |-> {"down", "lost"}, unreadable |-> {"page"}]

\* What most parsers make of an answer: an object without the list has an empty
\* one, and what is not JSON cannot be read.
Lenient == [rows |-> {"rows"}, empty |-> {"none", "odd"}, unreadable |-> {"page"}]
\* Of other parsers the list must be there, or not even be empty.
Required == [rows |-> {"rows"}, empty |-> {"none"}, unreadable |-> {"odd", "page"}]
Demanded == [rows |-> {"rows"}, unreadable |-> {"none", "odd", "page"}]
Broken == {"refused", "down", "lost"}

(* SPOC: a token from the redirects of the campus login, then a login with *)
(* it that names the role.  The week and the term are fields that must be  *)
(* there.                                                                  *)

SpocEnter == [ready |-> {"in"}, expired |-> {"turned", "refused"}, unreadable |-> {"page", "down"},
              network |-> {"down", "refused", "lost"}]
SpocParsed == Lenient
SpocTurned == [expired |-> TurnedAway, network |-> Broken]
SpocReading == Joined({SpocParsed, SpocTurned})
SpocFieldReading == Joined({Demanded, SpocTurned})

(* The judge answers in HTML: a page without a list is an empty list.      *)

JudgeEnter == [ready |-> {"in", "page", "refused"}, expired |-> {"turned"}, unreadable |-> {"page"},
               network |-> {"down", "lost"}]
JudgeParsed == [rows |-> {"rows"}, empty |-> {"none", "odd", "page", "refused"}]
JudgeReading ==
    Joined({JudgeParsed, [expired |-> TurnedAway, network |-> {"down", "lost"}, unreadable |-> {"page"}]})

(* BYKC: encrypted calls under a token from the redirects.  The            *)
(* configuration must name the terms.                                      *)

BykcEnter == [ready |-> {"in"}, expired |-> {"turned", "page", "down", "refused"}, network |-> {"lost"}]
BykcParsed == Lenient
BykcTurned == [expired |-> TurnedAway, network |-> Broken \cup {"odd"}]
BykcReading == Joined({BykcParsed, BykcTurned})
BykcConfigReading == Joined({Demanded, BykcTurned})

(* CGYY venues and LIBBOOK seats, both through send_authorized_request.    *)

\* Without a new cookie the one in the jar is tried, and its refusal is the error.
VenueEnter == [ready |-> {"in"}, expired |-> {"turned", "page", "down"},
               network |-> {"turned", "refused", "lost"}]
VenueParsed == Lenient
\* A refusal that speaks of the login is one like any other here.
VenueReading == Joined({VenueParsed, [expired |-> {"away", "login"}, network |-> Broken \cup {"denied"}]})

SeatEnter == [ready |-> {"in"}, expired |-> {"turned", "page", "down"}, network |-> {"refused", "lost"}]
\* The login page is not recognised when it comes with status 200.
SeatParsed == [Lenient EXCEPT !.unreadable = {"page", "login"}]
SeatReading == Joined({SeatParsed, [expired |-> {"away", "denied"}, network |-> Broken]})

(* YGDK looks at the code in the JSON only, whatever the status.           *)

YgdkEnter == [ready |-> {"in"}, expired |-> {"turned", "down"}, unreadable |-> {"page", "down"},
              network |-> {"refused", "lost"}]
YgdkParsed == [rows |-> {"rows"}, empty |-> {"none", "odd"}]
YgdkTurned == [expired |-> {"denied"}, network |-> Broken \cup {"away", "login", "page"}]
YgdkReading == Joined({YgdkParsed, YgdkTurned})
YgdkClassReading == Joined({[rows |-> {"rows"}, unreadable |-> {"none", "odd"}], YgdkTurned})

(* Sign-in: the user's number, a login name, a login at iclass; a refusal  *)
(* is taken for an expiry, a status is not.                                *)

SigninEnter == [ready |-> {"in"}, expired |-> {"turned", "refused"}, unreadable |-> {"page"},
                network |-> {"down", "lost"}]
SigninParsed == [Lenient EXCEPT !.unreadable = {"login", "page"}]
SigninReading ==
    Joined({SigninParsed, [expired |-> {"denied", "refused"}, network |-> {"away", "down", "lost"}]})

(* Evaluation: its session is a cookie of the SPOC site.                   *)

EvaluationEnter == [ready |-> {"in", "page", "refused"}, expired |-> {"turned"}, unreadable |-> {"page"},
                    network |-> {"down", "lost"}]
EvaluationTurned == [expired |-> TurnedAway, network |-> Broken]
TasksReading == Joined({Lenient, EvaluationTurned})
ArrayReading == Joined({Required, EvaluationTurned})
YearReading == Joined({Demanded, EvaluationTurned})

(* SRS course selection: the token is a cookie, and the one that is there  *)
(* already is taken for new.  The batch needs none, and its answer is not  *)
(* examined for an expiry.                                                 *)

SrsEnter(cookie) ==
    LET untold == {"turned", "page", "refused"}
    IN  [ready |-> {"in"} \cup (IF cookie THEN untold ELSE {}),
         expired |-> IF cookie THEN {} ELSE untold,
         network |-> {"turned", "down", "lost"}]
SrsParsed == Lenient
SrsReading == Joined({SrsParsed, [expired |-> TurnedAway, network |-> Broken]})
BatchReading == [rows |-> {"rows"}, unreadable |-> {"none", "odd", "login", "page"},
                 network |-> Broken \cup {"away", "denied"}]

-----------------------------------------------------------------------------
(* A kind of request: how its service enters the system, reads the answer, *)
(* whether it renews the session once, and whether the command goes on     *)
(* without the answer.                                                     *)

Ask(enter, reading, renews, optional) ==
    [enter |-> enter, reading |-> reading, renews |-> renews, optional |-> optional]

CourseAsk == Ask(ByxtEnter, CourseReading, TRUE, FALSE)
ExamAsk == Ask(ByxtEnter, ExamReading, FALSE, FALSE)
TermAsk == Ask(ByxtEnter, TermReading, TRUE, FALSE)
ClassroomAsk == Ask(AppEnter, ClassroomReading, FALSE, FALSE)
GradeAsk == Ask(ScoreEnter, GradeReading, FALSE, FALSE)
SpocAsk == Ask(SpocEnter, SpocReading, TRUE, FALSE)
JudgeAsk == Ask(JudgeEnter, JudgeReading, TRUE, FALSE)
BykcAsk == Ask(BykcEnter, BykcReading, TRUE, FALSE)
VenueAsk == Ask(VenueEnter, VenueReading, TRUE, FALSE)
SeatAsk == Ask(SeatEnter, SeatReading, TRUE, FALSE)
YgdkAsk == Ask(YgdkEnter, YgdkReading, TRUE, FALSE)
SigninAsk == Ask(SigninEnter, SigninReading, TRUE, FALSE)
TasksAsk == Ask(EvaluationEnter, TasksReading, FALSE, FALSE)
SrsAsk == Ask(SrsEnter(FALSE), SrsReading, TRUE, FALSE)
Optional(ask) == [ask EXCEPT !.optional = TRUE]

Kinds ==
    [ byxt |-> CourseAsk, byxtExam |-> ExamAsk, byxtTerm |-> TermAsk,
      app |-> ClassroomAsk, score |-> GradeAsk,
      user     |-> Ask(ByxtEnter, UserReading, FALSE, FALSE),
      notices  |-> Ask(ByxtEnter, AnnouncementReading, FALSE, FALSE),
      spoc |-> SpocAsk, spocMore |-> Optional(SpocAsk),
      spocTerm |-> [SpocAsk EXCEPT !.reading = SpocFieldReading],
      judge |-> JudgeAsk,
      bykc |-> BykcAsk, bykcTerm |-> [BykcAsk EXCEPT !.reading = BykcConfigReading],
      cgyy |-> VenueAsk, cgyyMore |-> Optional(VenueAsk),
      libbook |-> SeatAsk,
      ygdk |-> YgdkAsk, ygdkMore |-> Optional(YgdkAsk),
      ygdkClass |-> [YgdkAsk EXCEPT !.reading = YgdkClassReading],
      signin |-> SigninAsk,
      tasks |-> TasksAsk, revise |-> Optional(TasksAsk),
      array    |-> [TasksAsk EXCEPT !.reading = ArrayReading],
      year     |-> [TasksAsk EXCEPT !.reading = YearReading],
      srs |-> SrsAsk, batch |-> Ask(SrsEnter(FALSE), BatchReading, FALSE, FALSE) ]

\* Every answer is read as something.
ASSUME EveryAnswerIsRead ==
    \A k \in DOMAIN Kinds :
        /\ UNION {Kinds[k].reading[o] : o \in DOMAIN Kinds[k].reading} = Answers
        /\ UNION {Kinds[k].enter[o] : o \in DOMAIN Kinds[k].enter} = Welcomes

-----------------------------------------------------------------------------
(* The requests of each query command, in order.                           *)

Each(names, script) == [c \in names |-> script]

FeatureScripts ==
    Joined({Each({"course", "course week"}, <<"byxt">>), Each({"exam"}, <<"byxtExam">>),
            Each({"term", "week"}, <<"byxtTerm">>), Each({"classroom"}, <<"app">>),
            Each({"grade"}, <<"score">>), Each({"user"}, <<"user">>), Each({"announcement"}, <<"notices">>)})
SpocScripts ==
    Joined({Each({"spoc week"}, <<"spocTerm">>), Each({"spoc schedule", "spoc courses"}, <<"spoc">>),
            Each({"spoc assignments"}, <<"spocTerm", "spocMore", "spoc">>),
            Each({"spoc show"}, <<"spoc", "spocMore">>)})
\* The courses; of each the selection, the list, and of each entry its page.
\* Mutant: the list is asked for before its course is selected.
JudgeSelects_Late == {3}
JudgeSelects == {2}
JudgeLists == {2, 3} \ JudgeSelects
JudgeScripts == Each({"judge assignments", "judge show"}, <<"judge", "judge", "judge", "judge">>)
BykcScripts ==
    Joined({Each({"bykc profile", "bykc courses", "bykc course", "bykc stats"}, <<"bykc">>),
            Each({"bykc chosen"}, <<"bykcTerm", "bykc">>)})
VenueScripts ==
    Joined({Each({"cgyy sites", "cgyy day-info", "cgyy orders", "cgyy order", "cgyy lock-code"}, <<"cgyy">>),
            Each({"cgyy purpose-types"}, <<"cgyyMore">>)})
SeatScripts ==
    Each({"libbook libraries", "libbook areas", "libbook area", "libbook seats", "libbook reservations"},
         <<"libbook">>)
YgdkScripts ==
    Joined({Each({"ygdk overview"}, <<"ygdkClass", "ygdkMore", "ygdkMore", "ygdkMore">>),
            Each({"ygdk records"}, <<"ygdkClass", "ygdk">>)})
SigninScripts ==
    Each({"signin today", "signin schedule", "signin courses", "signin course"}, <<"signin">>)
\* The year; the tasks; of each its questionnaires, and of each of those the
\* pattern and the courses, those to do and those done.
EvaluationScripts ==
    Joined({Each({"evaluation list"}, <<"year", "tasks", "array", "revise", "array", "array">>),
            Each({"evaluation form"}, <<"year", "tasks", "array", "revise", "array", "array", "revise", "array">>)})
SrsScripts ==
    Joined({Each({"srs config", "srs courses", "srs preselected", "srs selected"}, <<"srs">>),
            Each({"srs batch"}, <<"batch">>)})

Scripts == Joined({FeatureScripts, SpocScripts, JudgeScripts, BykcScripts, VenueScripts, SeatScripts,
                   YgdkScripts, SigninScripts, EvaluationScripts, SrsScripts})

\* Where a command may go from its i-th request, which brought got ("rows" or
\* "empty"): on, round its loops, or past what an empty list leaves no need for.
\* Mutant: the requests are gone through from the last to the first.
SpocWays_Down(i) == {i - 1}
SpocWays(i) == IF i = 3 THEN {3, 4} ELSE {i + 1}                    \* pages
JudgeWays(c, i, got) ==
    CASE i = 1 /\ got = "empty" -> {5}
      [] i = 3 /\ got = "empty" -> {2, 5}
      [] i = 3 /\ c = "judge show" -> {2, 4, 5}                     \* not in this course
      [] i = 4 /\ c = "judge assignments" -> {2, 4, 5}
      [] OTHER -> {i + 1}
\* rows: the requests that brought something so far.
EvaluationWays(c, i, got, rows) ==
    LET end == Len(Scripts[c]) + 1
        listed == IF c = "evaluation form" /\ 5 \in rows THEN {7, end} ELSE {end}
    IN  CASE i = 2 /\ got = "empty" -> {end}
          [] i = 3 /\ got = "empty" -> {3} \cup listed
          [] i = 6 -> {3, 4} \cup listed
          [] OTHER -> {i + 1}
Ways(c, i, got, rows) ==
    CASE c = "spoc assignments" -> SpocWays(i)
      [] c \in DOMAIN JudgeScripts -> JudgeWays(c, i, got)
      [] c \in DOMAIN EvaluationScripts -> EvaluationWays(c, i, got, rows)
      [] OTHER -> {i + 1}

\* The requests whose rows are the rows of the command; some commands always
\* have one to show, and some look for one entry and fail without it.
Yields(c) ==
    CASE c = "spoc show" -> {1}
      [] c = "evaluation list" -> {5, 6}
      [] OTHER -> {Len(Scripts[c])}
AlwaysRows == {"ygdk overview", "cgyy purpose-types", "srs config"}
LooksFor == {"judge show", "evaluation form"}

\* The todo list collects from four services and a batch from several
\* assignments: a part that fails becomes an error entry.
Parts(c) ==
    CASE c = "todo" -> <<"spoc assignments", "judge assignments", "signin today", "evaluation list">>
      [] c = "judge batch" -> <<"judge show", "judge show">>
      [] OTHER -> <<c>>
Commands == DOMAIN Scripts \cup {"todo", "judge batch"}

=============================================================================
