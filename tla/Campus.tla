-------------------------------- MODULE Campus --------------------------------
(***************************************************************************)
(* One query command after the other: each asks one campus system (the     *)
(* todo list four) through a session of that system, which it enters with  *)
(* the campus login, keeps, and renews once when an answer reads as an     *)
(* expiry.  The systems end sessions, refuse, break down and lose          *)
(* connections when they like.                                             *)
(***************************************************************************)
EXTENDS CampusSystems

CONSTANTS
    Asked,          \* the commands that are given
    MaxRounds       \* how often a command goes round its loops
ASSUME AskedAssumption == Asked \subseteq Commands /\ MaxRounds \in Nat

VARIABLES
    cmd, part, at,  \* the command, the part of it, the request of the part
    pc,             \* "idle", "enter", "ask", "renew", "done"
    retried,        \* this request is asked for the second time
    rounds,         \* loops taken in this part
    cas,            \* the campus login would be accepted
    session,        \* at the system: "none", "good", "bad" (ended)
    known,          \* the service believes it has a session
    course,         \* the course selected in a session of the judge
    rows,           \* the requests of this part that brought rows
    failed,         \* the error this part ended with, or "none"
    got,            \* of each finished part: did its session or connection fail it?
    ended,          \* history: sessions ended in this command, 2 for more
    trouble,        \* history: more went wrong in this command than that
    hidden,         \* history: this part took a failure for an answer
    misfiled        \* history: a list was filed under another course

place == <<cmd, part, at, rounds>>
result == <<rows, failed, got>>
system == <<cas, session, known, course>>
history == <<ended, trouble, hidden, misfiled>>
vars == <<place, pc, retried, system, result, history>>

Name == Parts(cmd)[part]
Script == Scripts[Name]
Kind == Script[at]
This == Kinds[Kind]

\* Sessions kept in the cookie jar; the rest are tokens of a service object.
JarKinds == {"byxt", "byxtExam", "byxtTerm", "app", "score", "user", "notices", "judge",
             "tasks", "array", "year", "revise", "srs", "batch"}
\* Entered by way of the system itself, which asks for no login while one is good.
Probed == {"byxt", "byxtExam", "byxtTerm", "score"}
NoEntry == {"user", "notices", "batch"}
YgdkKinds == {"ygdk", "ygdkClass", "ygdkMore"}

Count(n) == IF n < 2 THEN n + 1 ELSE 2

-----------------------------------------------------------------------------
\* What a part starts from: the jar, and a service object of its own, or one that
\* believes in a session (kept).
Sessions(kind) == IF kind \in JarKinds THEN {"none", "good", "bad"} ELSE {"none"}
\* With a course given, the judge is not asked for its courses.
Starts(c) == IF c = "judge assignments" THEN {1, 2} ELSE {1}
StartPart(c, p, s, kept) ==
    LET first == Scripts[Parts(c)[p]][1]
    IN  /\ s \in Sessions(first)
        /\ part' = p
        /\ at' \in Starts(c)
        /\ pc' = "enter"
        /\ retried' = FALSE
        /\ rounds' = 0
        /\ session' = s
        /\ known' = (kept \/ first \in NoEntry \/ (first = "srs" /\ s # "none"))
        /\ course' = "none"
        /\ rows' = {}
        /\ failed' = "none"
        /\ hidden' = FALSE

Init ==
    /\ cmd \in Asked
    /\ part = 1 /\ at = 1 /\ rounds = 0
    /\ pc = "idle" /\ retried = FALSE
    /\ cas = TRUE /\ session = "none" /\ known = FALSE /\ course = "none"
    /\ rows = {} /\ failed = "none" /\ got = <<>>
    /\ ended = 0 /\ trouble = FALSE /\ hidden = FALSE /\ misfiled = FALSE

\* FeatureService::list and show: one service object for one command.
Begin(c, alive, s) ==
    /\ pc = "idle"
    /\ cmd' = c
    /\ StartPart(c, 1, s, FALSE)
    /\ cas' = alive
    /\ got' = <<>>
    /\ ended' = IF s = "bad" THEN 1 ELSE 0
    /\ trouble' = ~alive
    /\ misfiled' = FALSE

-----------------------------------------------------------------------------
\* What passes for an answer: a success without a list counts as empty
\* everywhere; besides that some services take a refusal, a page that is not
\* theirs, or an expiry they could not overcome for an empty list.
Empties(c) ==
    {"rows", "none", "odd"}
    \cup CASE c \in {"announcement", "classroom"} -> {"refused"}
           [] c \in DOMAIN JudgeScripts -> {"page", "refused"}
           [] c \in DOMAIN YgdkScripts -> {"denied"}
           [] c \in DOMAIN SigninScripts -> {"denied", "refused"}
           [] OTHER -> {}

\* Ways of turning a client away that its service knows for an expiry.
Recognised(c) ==
    TurnedAway \ CASE c \in DOMAIN VenueScripts -> {"denied"}
                   [] c \in DOMAIN SeatScripts -> {"login"}
                   [] c \in DOMAIN YgdkScripts \cup DOMAIN SigninScripts -> {"away", "login"}
                   [] OTHER -> {}

(* The end of a request.                                                   *)

\* It brought rows or nothing, and the command goes its way.
Proceed(outcome, answer) ==
    /\ rows' = IF outcome = "rows" THEN rows \cup {at} ELSE rows
    /\ hidden' = (hidden \/ ~(This.optional \/ answer \in Empties(Name)))
    /\ retried' = FALSE
    /\ \E next \in Ways(Name, at, outcome, rows') :
         /\ next <= at => rounds < MaxRounds
         /\ rounds' = IF next <= at THEN rounds + 1 ELSE rounds
         /\ at' = IF next > Len(Script) THEN at ELSE next
         /\ pc' = IF next > Len(Script) THEN "done" ELSE "enter"
    /\ UNCHANGED failed

\* It failed: an optional request is passed over, another ends the part.
Close(outcome, answer) ==
    IF outcome \notin Errors THEN Proceed(outcome, answer)
    ELSE IF This.optional THEN Proceed("empty", answer)
    ELSE /\ pc' = "done"
         /\ failed' = outcome
         /\ retried' = FALSE
         /\ UNCHANGED <<at, rounds, rows, hidden>>

\* An expiry that was not overcome.  post_form of ygdk then has an empty object
\* for an answer, and the sign-in reads the refusal as its list.
\* Mutant: so has the post_envelope of SPOC.
NotOvercome_Spoc == IF Kind \in {"ygdk", "ygdkMore", "spoc", "signin"} THEN "empty"
                    ELSE IF Kind = "ygdkClass" THEN "unreadable" ELSE "expired"
NotOvercome == IF Kind \in {"ygdk", "ygdkMore", "signin"} THEN "empty"
               ELSE IF Kind = "ygdkClass" THEN "unreadable" ELSE "expired"

-----------------------------------------------------------------------------
(* Entering: ensure_session, ensure_login, activate_session, token.        *)

Reuse ==
    /\ pc = "enter"
    /\ known
    /\ pc' = "ask"
    /\ UNCHANGED <<place, retried, system, result, history>>

\* The login name of a sign-in may be missing, and its number is remembered:
\* a renewal needs no campus login.
NoLoginNeeded == (Kind \in Probed /\ session = "good") \/ (Kind = "signin" /\ pc = "renew")
EnterTable == IF Kind = "srs" THEN SrsEnter(session # "none") ELSE This.enter

Entering(w, e) ==
    /\ pc = "renew" \/ (pc = "enter" /\ ~known)
    /\ w = "in" => cas \/ NoLoginNeeded
    /\ w = "turned" => ~cas /\ ~NoLoginNeeded
    /\ e \in DOMAIN EnterTable
    /\ w \in EnterTable[e]
    /\ trouble' = (trouble \/ w \notin {"in", "turned"})
    /\ UNCHANGED <<cmd, part, cas, got, ended, misfiled>>

Enter(w) ==
    /\ Entering(w, "ready")
    /\ pc' = "ask"
    /\ known' = TRUE
    /\ session' = IF w = "in" THEN "good" ELSE session
    /\ course' = IF w = "in" /\ session # "good" THEN "none" ELSE course
    /\ UNCHANGED <<at, rounds, retried, rows, failed, hidden>>

\* A token that is to be replaced is cleared first, and so is what the judge's
\* service believes.
EnterFails(w, e) ==
    /\ e # "ready"
    /\ Entering(w, e)
    /\ session' = IF Kind \in JarKinds THEN session ELSE "none"
    /\ known' = (known /\ Kind \notin YgdkKinds \cup {"judge"})
    /\ Close(IF pc = "renew" /\ Kind \in YgdkKinds THEN NotOvercome ELSE e, "denied")
    /\ UNCHANGED course

-----------------------------------------------------------------------------
(* Asking.                                                                 *)

\* What a system may answer: it turns away who has no good session.
MayAnswer(a) ==
    CASE a \in {"rows", "none"} -> session = "good" \/ Kind = "batch"
      [] a \in TurnedAway -> session # "good"
      [] OTHER -> TRUE

Hears(a, o) ==
    /\ pc = "ask"
    /\ MayAnswer(a)
    /\ o \in DOMAIN This.reading
    /\ a \in This.reading[o]
    /\ trouble' = (trouble \/ a \notin {"rows", "none"} \cup Recognised(Name))
    /\ UNCHANGED <<cmd, part, cas, got, ended, session>>

\* send_authorized_request and its likes renew the session once.
\* Mutants: the second answer is treated like the first; the flag is tested the
\* wrong way round.
Renewable_Late == This.renews /\ retried
Renewable_Again == This.renews
Renewable == This.renews /\ ~retried
Renew(a) ==
    /\ Renewable
    /\ Hears(a, "expired")
    /\ pc' = "renew"
    /\ retried' = TRUE
    /\ UNCHANGED <<at, rounds, result, known, course, hidden, misfiled>>

Hear(a, o) ==
    /\ o = "expired" => ~Renewable
    /\ Hears(a, o)
    /\ Close(IF o = "expired" /\ retried THEN NotOvercome ELSE o, a)
    /\ known' = (known /\ ~(Kind = "judge" /\ o = "expired"))
    /\ LET atJudge == Name \in DOMAIN JudgeScripts
       IN  /\ course' = IF atJudge /\ at \in JudgeSelects /\ a \in {"rows", "none"} THEN "ours" ELSE course
           /\ misfiled' = (misfiled \/ (atJudge /\ at \in JudgeLists /\ a = "rows" /\ course # "ours"))

\* The todo list has a service object for each of its parts; the batch of the
\* judge has one for all of them.
OneService == {"judge batch"}

\* TodoService::list_todos and the batch of the judge go on whatever it was.
GoesOn(outcome) == part < Len(Parts(cmd))

Outcome ==
    CASE failed # "none" -> failed
      [] rows \cap Yields(Name) # {} \/ Name \in AlwaysRows -> "rows"
      [] Name \in LooksFor -> "missing"
      [] OTHER -> "empty"

Conclude ==
    /\ pc = "done"
    /\ got' = Append(got, failed \in {"expired", "auth", "network"})
    /\ UNCHANGED <<cmd, cas, trouble, misfiled>>
    /\ IF GoesOn(Outcome)
         THEN \E s \in IF cmd \in OneService THEN {session} ELSE {"none", "good", "bad"} :
                /\ StartPart(cmd, part + 1, s, cmd \in OneService /\ known)
                /\ ended' = IF s = "bad" /\ cmd \notin OneService THEN Count(ended) ELSE ended
         ELSE /\ pc' = "idle"
              /\ UNCHANGED <<part, at, rounds, retried, session, known, course, rows, failed, ended, hidden>>

-----------------------------------------------------------------------------
(* The systems, and another program that uses the same cookies.            *)

EndSession ==
    /\ pc \notin {"idle", "done"}
    /\ session = "good"
    /\ session' = "bad"
    /\ ended' = Count(ended)
    /\ UNCHANGED <<place, pc, retried, cas, known, course, result, trouble, hidden, misfiled>>

EndCampus ==
    /\ pc \notin {"idle", "done"}
    /\ cas
    /\ cas' = FALSE
    /\ trouble' = TRUE
    /\ UNCHANGED <<place, pc, retried, session, known, course, result, ended, hidden, misfiled>>

OtherSelects ==
    /\ pc \notin {"idle", "done"}
    /\ Name \in DOMAIN JudgeScripts /\ session = "good" /\ course # "other"
    /\ course' = "other"
    /\ trouble' = TRUE
    /\ UNCHANGED <<place, pc, retried, cas, session, known, result, ended, hidden, misfiled>>

Client == Reuse \/ Conclude
Next ==
    \/ \E c \in Asked, alive \in BOOLEAN, s \in {"none", "good", "bad"} : Begin(c, alive, s)
    \/ Client
    \/ \E w \in Welcomes : Enter(w) \/ \E e \in Errors : EnterFails(w, e)
    \/ \E a \in Answers : Renew(a) \/ \E o \in Errors \cup {"rows", "empty"} : Hear(a, o)
    \/ EndSession
    \/ EndCampus
    \/ OtherSelects

Spec == Init /\ [][Next]_vars /\ WF_vars(Client)

-----------------------------------------------------------------------------
TypeOK ==
    /\ cmd \in Asked /\ part \in 1..4 /\ at \in 1..8 /\ rounds \in 0..MaxRounds
    /\ pc \in {"idle", "enter", "ask", "renew", "done"}
    /\ retried \in BOOLEAN /\ cas \in BOOLEAN /\ known \in BOOLEAN
    /\ session \in {"none", "good", "bad"}
    /\ course \in {"none", "ours", "other"}
    /\ rows \subseteq 1..8
    /\ failed \in {"none"} \cup Errors
    /\ got \in Seq(BOOLEAN)
    /\ ended \in 0..2
    /\ trouble \in BOOLEAN /\ hidden \in BOOLEAN /\ misfiled \in BOOLEAN

\* An empty list is what the system said, not a failure taken for one, besides
\* the exceptions that Empties names.
HonestEmpty == pc = "done" /\ Outcome = "empty" => ~hidden

\* A session that ends once, before or during a command, does not fail it while
\* the campus login is good and nothing else goes wrong.  Not so for the
\* commands that ask once only, nor where an expiry is not seen for what it is.
AskOnce == {"exam", "classroom", "grade", "user", "announcement", "srs batch", "todo"}
           \cup DOMAIN EvaluationScripts
SurvivesOneEnd ==
    pc = "idle" /\ cmd \notin AskOnce /\ ended <= 1 /\ ~trouble => \A i \in DOMAIN got : ~got[i]

\* A todo list and a batch account for every one of their parts.
AccountsForAll == pc = "idle" /\ got # <<>> => Len(got) = Len(Parts(cmd))

\* Nothing goes missing unsaid: neither a whole list nor a part of one.
NothingMissing == HonestEmpty /\ AccountsForAll

\* The assignments of the judge are listed under the course they belong to,
\* unless its session ended meanwhile, another program selected a course, or the
\* selection was answered with something that the client does not look at.
FiledUnderTheirCourse == misfiled => ended > 0 \/ trouble

\* Every command ends, unless a system never answers: no renewal and no loop
\* goes on for ever.
CommandEnds ==
    \/ []<>(pc = "idle")
    \/ <>[](pc = "ask")
    \/ <>[](pc \in {"enter", "renew"})

===============================================================================
