------------------------------ MODULE Downstream ------------------------------
(***************************************************************************)
(* One command that changes something in a campus system (a booking, a     *)
(* course selection, a clock-in, ...), from the confirmation gate to the   *)
(* result it prints.  Each system has its own token, obtained through the  *)
(* campus session; the system may withdraw the token at any moment, the    *)
(* service then obtains another one and sends the request once more.       *)
(* A service object lives for one command.  What survives it is the cookie *)
(* jar, where the course selection and the cloud disk keep their tokens.   *)
(* The names leave those of Cli free, so that one module can extend both.  *)
(***************************************************************************)
EXTENDS Naturals, Sequences, FiniteSets

CONSTANT Service    \* the services a command may be for

AllServices == {"libbook", "cgyy", "bykc", "spoc", "srs", "cloud",
                "ygdk", "signin", "evaluation"}

ASSUME ServiceAssumption == Service \subseteq AllServices

VARIABLES
    svc,        \* the service of the current or last command
    at,         \* the request of its script it is at
    stage,      \* "idle", "session", "request", "answer"
    forced,     \* ensure is called to replace the token, not to reuse it
    retried,    \* the request (the command, for signin) was sent again
    held,       \* m_token: "none", "good", "bad" (withdrawn), "refused"
    jar,        \* the same for the token cookies
    answer,     \* the answer that arrived, as the client reads it
    result,     \* what the command reported
    done,       \* history: how often the system performed each request
    told,       \* history: the requests taken to have succeeded
    withdrawn,  \* history: tokens withdrawn, 2 for more
    upsets      \* history: what else went wrong

tokens == <<held, jar>>
control == <<svc, at, stage, forced, retried>>
past == <<done, told, withdrawn, upsets>>
changeVars == <<control, tokens, answer, result, past>>

Held == {"good", "bad", "refused"}
Answers == {"none", "done", "refused", "unreadable", "lost", "expired"}
Results == {"none", "accepted", "declined", "denied", "expired", "failed"}
Upsets == {"misread", "lost", "refused", "login"}

(***************************************************************************)
(* The requests of each command, in order: "open" needs no token, "read"   *)
(* changes nothing, "write" does.                                          *)
(***************************************************************************)
Script(s) ==
    CASE s = "cgyy"       -> <<"write", "write">>
      [] s = "ygdk"       -> <<"read", "read", "write", "write">>
      [] s = "signin"     -> <<"open", "write">>
      [] s = "evaluation" -> <<"read", "read", "write", "read", "write">>
      [] OTHER            -> <<"write">>

Last == Len(Script(svc))
Writes == {i \in 1..Last : Script(svc)[i] = "write"}
WritesDone == {i \in Writes : done[i] > 0}

JarServices == {"srs", "cloud"}                     \* the token is a cookie
NeverRenews == {"spoc", "evaluation"}               \* sends a write only once

\* The services that tell an expiry by words in the answer may find them in
\* another one: signin only reads the message of a refusal, ygdk a code.
MistakesDone == AllServices \ {"signin", "ygdk"}
MistakesRefusal == AllServices \ {"ygdk"}

\* Mutant: the sign-in does not recognise that its session was refused.
Renews_NotSignin == svc \notin NeverRenews \cup {"signin"} /\ ~(svc = "ygdk" /\ at = 3)
\* The photograph of a clock-in is uploaded past the retrying post_form.
Renews == svc \notin NeverRenews /\ ~(svc = "ygdk" /\ at = 3)

Count(n) == IF n < 2 THEN n + 1 ELSE 2

-----------------------------------------------------------------------------
ChangeInit ==
    /\ svc \in Service
    /\ at = 1
    /\ stage = "idle"
    /\ forced = FALSE
    /\ retried = FALSE
    /\ held = "none"
    /\ jar \in [JarServices -> {"none", "good", "bad"}]
    /\ answer = "none"
    /\ result = "none"
    /\ done = [i \in 1..5 |-> 0]
    /\ told = {}
    /\ withdrawn = 0
    /\ upsets = {}

\* What a new service object starts from; the jar is the old one.
Fresh(s) ==
    /\ svc' = s
    /\ at' = 1
    /\ forced' = FALSE
    /\ retried' = FALSE
    /\ held' = "none"
    /\ jar' = [j \in JarServices |-> IF jar[j] = "refused" THEN "bad" ELSE jar[j]]
    /\ answer' = "none"
    /\ done' = [i \in 1..5 |-> 0]
    /\ told' = {}
    /\ withdrawn' = IF s \in JarServices /\ jar[s] \in {"bad", "refused"} THEN 1 ELSE 0
    /\ upsets' = {}

\* require_write_operation: both the user and the platform must allow it.
Begin(s, confirmed, capable) ==
    /\ stage = "idle"
    /\ Fresh(s)
    /\ IF confirmed /\ capable
         THEN stage' = "session" /\ result' = "none"
         ELSE stage' = "idle" /\ result' = "denied"

Finish(r) ==
    /\ stage' = "idle"
    /\ result' = r
    /\ UNCHANGED <<svc, at, forced, retried>>

-----------------------------------------------------------------------------
(* A token for the next request: ensure_login, ensure_session, token().  A *)
(* login goes through the campus session, which may be alive or not.       *)

Reuse ==
    /\ stage = "session"
    /\ ~forced
    /\ held # "none"
    /\ stage' = "request"
    /\ UNCHANGED <<svc, at, forced, retried, tokens, answer, result, past>>

InJar == svc \in JarServices /\ jar[svc] # "none"

CookieWillDo == ~forced /\ held = "none" /\ InJar

FromJar ==
    /\ stage = "session"
    /\ CookieWillDo
    /\ held' = jar[svc]
    /\ stage' = "request"
    /\ UNCHANGED <<svc, at, forced, retried, jar, answer, result, past>>

MustLogIn ==
    /\ stage = "session"
    /\ forced \/ (held = "none" /\ ~InJar)

\* A failed login: a forced one is reported as the request's own failure, which
\* the cloud service always calls expired and ygdk answers with an empty object.
LogInFails(r) ==
    IF ~forced
      THEN Finish(r) /\ UNCHANGED told
      ELSE CASE svc = "cloud"           -> Finish("expired") /\ UNCHANGED told
             [] svc = "ygdk" /\ at < 4  -> Finish("failed") /\ UNCHANGED told
             [] svc = "ygdk" /\ at = 4  -> Finish("accepted") /\ told' = told \cup {at}
             [] OTHER                   -> Finish(r) /\ UNCHANGED told

LogInSucceeds ==
    /\ MustLogIn
    /\ held' = "good"
    /\ jar' = IF svc \in JarServices THEN [jar EXCEPT ![svc] = "good"] ELSE jar
    /\ stage' = "request"
    /\ UNCHANGED <<svc, at, forced, retried, answer, result, past>>

\* After a login that brought nothing the old cookie is still in the jar, and taken.
OldCookie ==
    /\ MustLogIn
    /\ InJar
    /\ held' = jar[svc]
    /\ stage' = "request"
    /\ upsets' = upsets \cup {"login"}
    /\ UNCHANGED <<svc, at, forced, retried, jar, answer, result, done, told, withdrawn>>

LogInRefused ==
    /\ MustLogIn
    /\ ~(svc = "srs" /\ InJar)
    /\ LogInFails("expired")
    /\ upsets' = upsets \cup {"login"}
    /\ UNCHANGED <<tokens, answer, done, withdrawn>>

LogInLost ==
    /\ MustLogIn
    /\ LogInFails("failed")
    /\ upsets' = upsets \cup {"lost"}
    /\ UNCHANGED <<tokens, answer, done, withdrawn>>

-----------------------------------------------------------------------------
(* The request, and what the system does with it.                          *)

Performed == done' = IF at \in Writes THEN [done EXCEPT ![at] = Count(done[at])] ELSE done

Answered(a, u) ==
    /\ stage' = "answer"
    /\ answer' = a
    /\ upsets' = upsets \cup u
    /\ UNCHANGED <<svc, at, forced, retried, jar, result, told, withdrawn>>

Honoured == held = "good" \/ Script(svc)[at] = "open"

Accepted ==
    /\ stage = "request"
    /\ Honoured
    /\ Performed
    /\ \/ Answered("done", {})
       \/ Answered("unreadable", {"lost"})
       \/ Answered("lost", {"lost"})
       \/ svc \in MistakesDone /\ Answered("expired", {"misread"})
    /\ UNCHANGED held

Rejected ==
    /\ stage = "request"
    /\ Honoured
    /\ \/ Answered("refused", {"refused"})
       \/ svc \in MistakesRefusal /\ Script(svc)[at] # "open" /\ Answered("expired", {"misread"})
    /\ UNCHANGED <<held, done>>

TurnedAway ==
    /\ stage = "request"
    /\ ~Honoured
    /\ Answered("expired", {})
    /\ UNCHANGED <<held, done>>

\* The evaluation service follows the redirect through the campus login, and
\* sends on as GET without a body what may have been a POST.
Redirected ==
    /\ stage = "request"
    /\ svc = "evaluation"
    /\ ~Honoured
    /\ held' = "good"
    /\ \/ at \notin Writes /\ Answered("done", {})
       \/ Answered("unreadable", {"lost"})
    /\ UNCHANGED done

Lost ==
    /\ stage = "request"
    /\ Answered("lost", {"lost"})
    /\ UNCHANGED <<held, done>>

-----------------------------------------------------------------------------
(* The client reads the answer.                                            *)

Goto(n) ==
    /\ at' = n
    /\ stage' = "session"
    /\ forced' = FALSE
    /\ retried' = (svc = "signin" /\ retried)
    /\ UNCHANGED <<svc, result>>

\* An evaluation counts the courses that were submitted.
Conclude ==
    IF svc = "evaluation" /\ told' \cap Writes = {}
      THEN Finish("declined")
      ELSE Finish("accepted")

ReadDone ==
    /\ stage = "answer"
    /\ answer = "done"
    /\ told' = told \cup {at}
    /\ IF at < Last THEN Goto(at + 1) ELSE Conclude
    /\ answer' = "none"
    /\ UNCHANGED <<tokens, done, withdrawn, upsets>>

\* Mutant: the next course is always two requests on.
GiveUp_TwoOn(r) ==
    IF svc = "evaluation" /\ at > 1 THEN Goto(at + 2) ELSE Finish(r)
\* A course that fails does not keep an evaluation from the next one.
GiveUp(r) ==
    IF svc = "evaluation" /\ at > 1
      THEN IF at < 4 THEN Goto(4) ELSE Conclude
      ELSE Finish(r)

Failures == {"refused", "unreadable", "lost"}

ReadFailure ==
    /\ stage = "answer"
    /\ answer \in Failures
    /\ UNCHANGED told
    /\ GiveUp("failed")
    /\ answer' = "none"
    /\ UNCHANGED <<tokens, done, withdrawn, upsets>>

SeenRefused ==
    jar' = IF svc \in JarServices /\ jar[svc] = "bad"
             THEN [jar EXCEPT ![svc] = "refused"] ELSE jar

\* Mutants: a request that timed out is sent again; a retry may be retried.
MayRenew_AfterTimeout == answer \in {"expired", "lost"} /\ Renews /\ ~retried
MayRenew_Always == answer = "expired" /\ Renews
MayRenew == answer = "expired" /\ Renews /\ ~retried

Renew ==
    /\ stage = "answer"
    /\ MayRenew
    /\ held' = "none"
    /\ SeenRefused
    /\ stage' = "session"
    /\ forced' = TRUE
    /\ retried' = TRUE
    /\ at' = IF svc = "signin" THEN 1 ELSE at
    /\ answer' = "none"
    /\ UNCHANGED <<svc, result, past>>

\* Mutant: every service answers like post_form, with an empty object.
ExpiredAgain_EmptyObject == Finish("accepted") /\ told' = told \cup {at}
\* What a service makes of an expiry it does not, or no longer, recover from.
ExpiredAgain ==
    CASE svc = "ygdk" /\ at < 3  -> Finish("failed") /\ UNCHANGED told
      [] svc = "ygdk" /\ at = 4  -> Finish("accepted") /\ told' = told \cup {at}
      [] svc = "signin"          -> Finish("failed") /\ UNCHANGED told
      [] OTHER                   -> UNCHANGED told /\ GiveUp("expired")

ReadExpired ==
    /\ stage = "answer"
    /\ answer = "expired"
    /\ ~Renews \/ retried
    /\ ExpiredAgain
    /\ answer' = "none"
    /\ held' = IF svc \in {"libbook", "cgyy"} \/ (svc = "ygdk" /\ at # 3)
                 THEN "none" ELSE held
    /\ UNCHANGED <<jar, done, withdrawn, upsets>>

-----------------------------------------------------------------------------
(* What the systems do on their own.                                       *)

Spoilt(t) == IF t = "good" THEN "bad" ELSE t

\* The system forgets the token of the current command.
Withdraw ==
    /\ stage # "idle"
    /\ held = "good" \/ (svc \in JarServices /\ jar[svc] = "good")
    /\ held' = Spoilt(held)
    /\ jar' = IF svc \in JarServices THEN [jar EXCEPT ![svc] = Spoilt(jar[svc])] ELSE jar
    /\ withdrawn' = Count(withdrawn)
    /\ UNCHANGED <<control, answer, result, done, told, upsets>>

\* Between commands cookies grow old or are deleted.
Between ==
    /\ stage = "idle"
    /\ jar' \in {[j \in JarServices |-> Spoilt(jar[j])], [j \in JarServices |-> "none"]}
    /\ UNCHANGED <<control, held, answer, result, past>>

\* Steps of the program itself, which wait for nobody.
Client ==
    \/ Reuse \/ FromJar
    \/ ReadDone \/ ReadFailure \/ Renew \/ ReadExpired

\* A login or a request is answered, or the connection breaks.
Answering ==
    \/ LogInSucceeds \/ OldCookie \/ LogInRefused \/ LogInLost
    \/ Accepted \/ Rejected \/ TurnedAway \/ Redirected \/ Lost

ChangeNext ==
    \/ \E s \in Service, confirmed, capable \in BOOLEAN : Begin(s, confirmed, capable)
    \/ Client
    \/ Answering
    \/ Withdraw
    \/ Between

\* The program runs.  An answer may never come: no request sets a timeout.
ChangeSpec == ChangeInit /\ [][ChangeNext]_changeVars /\ WF_changeVars(Client)

-----------------------------------------------------------------------------
ChangeTypeOK ==
    /\ svc \in Service
    /\ at \in 1..Last
    /\ stage \in {"idle", "session", "request", "answer"}
    /\ forced \in BOOLEAN
    /\ retried \in BOOLEAN
    /\ held \in Held \cup {"none"}
    /\ jar \in [JarServices -> Held \cup {"none"}]
    /\ answer \in Answers
    /\ (stage = "answer") = (answer # "none")
    /\ result \in Results
    /\ done \in [1..5 -> 0..2]
    /\ told \subseteq 1..Last
    /\ withdrawn \in 0..2
    /\ upsets \subseteq Upsets

\* A request the client counts as successful was performed, and a command that
\* reports success got every write (an evaluation: at least one) performed.
\* AuthorizedDownstreamRequestExecutor.hpp:5 promises it of the retries.
HonestReport ==
    /\ told \cap Writes \subseteq WritesDone
    /\ result = "accepted" =>
         IF svc = "evaluation" THEN WritesDone # {} ELSE Writes \subseteq WritesDone

\* All services but the sports clock-in report honestly.
HonestElsewhere == svc # "ygdk" => HonestReport

\* However often the token is withdrawn, a retry performs no write twice, unless
\* an answer that meant something else was read as an expiry.
DoneOnce == "misread" \notin upsets => \A i \in 1..5 : done[i] < 2

\* With no answer lost or misread, a finished command knows all it has changed,
\* and one that reports an error did not perform the request it failed at.
NothingUnsaid ==
    (stage = "idle" /\ upsets \cap {"lost", "misread"} = {}) =>
        /\ WritesDone \subseteq told
        /\ result \in {"expired", "failed"} => at \notin WritesDone

\* What a command reports of its writes is what it did, both ways.
ReportedTruly == HonestElsewhere /\ NothingUnsaid

\* A command of a service that renews its token survives one withdrawal, a
\* stale cookie in the jar included, if nothing else goes wrong.
SurvivesOneExpiry ==
    (/\ stage = "idle"
     /\ svc \notin NeverRenews \cup {"ygdk"}
     /\ withdrawn < 2
     /\ upsets = {}) => result \in {"none", "accepted", "denied"}

\* A command ends, whatever the systems withdraw and however often, unless a
\* login or a request of it is never answered: no retry goes on for ever.
CommandEnds ==
    \/ []<>(stage = "idle")
    \/ <>[](stage = "session")
    \/ <>[](stage = "request")

===============================================================================
