----------------------------- MODULE SessionStore -----------------------------
(***************************************************************************)
(* The session file and the contexts that share it.  A context (a CLI run, *)
(* the desktop program, and a CLI run the desktop program starts beside    *)
(* itself) reads the whole file when it is built and from then on works on *)
(* its own copy: login, relogin, logout and every query change the copy    *)
(* and write all of it back.  A write truncates the file before it fills   *)
(* it, may fail, and its context may be killed in between.                 *)
(* A session, a cookie jar and the saved credentials are reduced to the    *)
(* account they belong to.                                                 *)
(***************************************************************************)
EXTENDS Naturals, FiniteSets

CONSTANTS
    Context,
    Desktop,        \* the contexts of the desktop program; the rest are CLI runs
    User,
    None,           \* no account
    Store,          \* the kinds of store: "encrypted" (Linux), "dpapi" (Windows)
    MaxCommands     \* bound: contexts built, commands and kills

ASSUME StoreAssumption ==
    /\ Desktop \subseteq Context
    /\ None \notin User
    /\ Store \subseteq {"encrypted", "dpapi"}
    /\ MaxCommands \in Nat

VARIABLES
    store,          \* the kind of store, one for all contexts
    file,           \* what is on disk
    data,           \* m_data of each context's store
    dirty,          \* m_dirty of each context's store
    jar,            \* the account of each context's live cookies
    at,             \* how far each context is
    who,            \* the account a login is for
    open,           \* the contexts that have truncated the file and not filled it
    commands,       \* bound: how many of these there were
    said,           \* history: what the last command that changed anything reported
    upsets          \* history: what went wrong so far

memory == <<data, dirty, jar>>
control == <<at, who, open>>
history == <<said, upsets>>
vars == <<store, file, memory, control, commands, history>>

Owner == User \cup {None}
Session == [username : User, account : User]
NoSession == [username |-> None, account |-> None]
Data == [session : Session \cup {NoSession}, jar : Owner, login : Owner]
Empty == [session |-> NoSession, jar |-> None, login |-> None]
Torn == [torn |-> TRUE]     \* a file that was truncated and not filled

\* The steps that write, the step after each of them, and all steps.
After == [session     |-> "gateway",
          cookies     |-> "credentials",
          credentials |-> "end",
          erase       |-> "forget",
          forget      |-> "sso",
          query       |-> "end",
          leave       |-> "down"]
Steps == {"down", "idle", "sso", "gateway"} \cup DOMAIN After

LoggedOut == [what |-> "out", user |-> None]
LoggedIn(u) == [what |-> "in", user |-> u]
Unsure == [what |-> "unsure", user |-> None]
Upset == {"overlap", "midway", "killed", "write", "half", "over"}

TypeOK ==
    /\ store \in Store
    /\ file \in Data \cup {Torn}
    /\ data \in [Context -> Data]
    /\ dirty \in [Context -> BOOLEAN]
    /\ jar \in [Context -> Owner]
    /\ at \in [Context -> Steps]
    /\ who \in [Context -> Owner]
    /\ open \in SUBSET Context
    /\ commands \in 0 .. MaxCommands
    /\ said \in {LoggedOut, Unsure} \cup {LoggedIn(u) : u \in User}
    /\ upsets \in SUBSET Upset

Init ==
    /\ store \in Store
    /\ file = Empty
    /\ data = [c \in Context |-> Empty]
    /\ dirty = [c \in Context |-> FALSE]
    /\ jar = [c \in Context |-> None]
    /\ at = [c \in Context |-> "down"]
    /\ who = [c \in Context |-> None]
    /\ open = {}
    /\ commands = 0
    /\ said = LoggedOut
    /\ upsets = {}

(***************************************************************************)
(* Contexts.                                                               *)
(***************************************************************************)
\* What a store makes of the file: an unreadable one is an empty one.
Load(f) == IF f = Torn THEN Empty ELSE f

Command ==
    /\ commands < MaxCommands
    /\ commands' = commands + 1

\* What a context that is built now has to reckon with.
Company ==
    IF \E d \in Context : at[d] \notin {"down", "idle"} THEN {"overlap", "midway"}
    ELSE IF \E d \in Context : at[d] = "idle" THEN {"overlap"}
    ELSE {}

\* The store loads the file, the cookie store takes its cookies from it.
Build(c) ==
    /\ at[c] = "down"
    /\ Command
    /\ data' = [data EXCEPT ![c] = Load(file)]
    /\ dirty' = [dirty EXCEPT ![c] = FALSE]
    /\ jar' = [jar EXCEPT ![c] = Load(file).jar]
    /\ at' = [at EXCEPT ![c] = "idle"]
    /\ who' = [who EXCEPT ![c] = None]
    /\ upsets' = upsets \cup Company
    /\ UNCHANGED <<store, file, open, said>>

\* A command is over: a CLI run destroys its context, the desktop keeps it.
Rest(c) == IF c \in Desktop THEN "idle" ELSE "leave"
End(c) == at' = [at EXCEPT ![c] = Rest(c)]

\* The desktop program closes, or a CLI run ends without a command.
Close(c) ==
    /\ at[c] = "idle"
    /\ at' = [at EXCEPT ![c] = "leave"]
    /\ UNCHANGED <<store, file, memory, who, open, commands, history>>

Kill(c) ==
    /\ at[c] # "down"
    /\ Command
    /\ at' = [at EXCEPT ![c] = "down"]
    /\ open' = open \ {c}
    /\ upsets' = IF at[c] = "idle" THEN upsets ELSE upsets \cup {"killed"}
    /\ UNCHANGED <<store, file, memory, who, said>>

(***************************************************************************)
(* Writing.  A step prepares the copy and truncates the file in one action *)
(* (nobody else sees the copy) and fills the file in another.              *)
(***************************************************************************)
\* What the command does after its write, which reported ok or not.
Goes(c, ok) ==
    IF at[c] = "forget" /\ who[c] = None THEN Rest(c)
    ELSE IF ~ok /\ at[c] \in {"session", "credentials"} THEN Rest(c)
    ELSE IF After[at[c]] = "end" THEN Rest(c)
    ELSE After[at[c]]

\* What the user may conclude once the command's last write is over.
Says(c, ok) ==
    IF at[c] = "credentials" /\ ok THEN LoggedIn(who[c])
    ELSE IF at[c] = "forget" THEN LoggedOut
    ELSE said

\* Only the encrypted store reports a failed write, and skips a clean copy.
Reports == store = "encrypted"
Writes(c, d) == Reports => (dirty[c] \/ d # data[c] \/ at[c] \in {"session", "cookies", "credentials", "query"})

Wrote(c, ok) ==
    /\ at' = [at EXCEPT ![c] = Goes(c, ok)]
    /\ said' = Says(c, ok)

\* flush() of a copy that has become d: nothing to do, cannot be opened, open.
Flush(c, d) ==
    /\ data' = [data EXCEPT ![c] = d]
    /\ \/ /\ ~Writes(c, d)
          /\ Wrote(c, TRUE)
          /\ UNCHANGED <<file, dirty, open, upsets>>
       \/ /\ Writes(c, d)
          /\ dirty' = [dirty EXCEPT ![c] = TRUE]
          /\ Wrote(c, ~Reports)
          /\ upsets' = upsets \cup {"write"}
          /\ UNCHANGED <<file, open>>
       \/ /\ Writes(c, d)
          /\ dirty' = [dirty EXCEPT ![c] = TRUE]
          /\ file' = Torn
          /\ open' = open \cup {c}
          /\ said' = IF at[c] \in {"session", "erase"} THEN Unsure ELSE said
          /\ UNCHANGED <<at, upsets>>

Fill(c) ==
    /\ c \in open
    /\ open' = open \ {c}
    /\ \/ /\ file' = data[c]
          /\ dirty' = [dirty EXCEPT ![c] = FALSE]
          /\ Wrote(c, TRUE)
          /\ UNCHANGED upsets
       \/ /\ Wrote(c, ~Reports)
          /\ upsets' = upsets \cup {"write"}
          /\ UNCHANGED <<file, dirty>>
    /\ UNCHANGED <<store, data, jar, who, commands>>

May(c, step) == at[c] = step /\ c \notin open

(***************************************************************************)
(* Login.  A CLI run refuses when its copy has a session.                  *)
(***************************************************************************)
Login(c, u) ==
    /\ at[c] = "idle"
    /\ c \in Desktop \/ data[c].session = NoSession
    /\ Command
    /\ at' = [at EXCEPT ![c] = "sso"]
    /\ who' = [who EXCEPT ![c] = u]
    /\ upsets' = IF data[c].session = NoSession THEN upsets ELSE upsets \cup {"over"}
    /\ UNCHANGED <<store, file, memory, open, said>>

\* A CLI run logs out and in again with the saved credentials.
Relogin(c) ==
    /\ at[c] = "idle"
    /\ c \notin Desktop
    /\ data[c].login # None
    /\ Command
    /\ at' = [at EXCEPT ![c] = "erase"]
    /\ who' = [who EXCEPT ![c] = data[c].login]
    /\ UNCHANGED <<store, file, memory, open, history>>

\* The login page: with cookies it still honours it asks for no password.
\* Without, the password is sent and the cookies become the account's.
SignedIn(c) == jar' = [jar EXCEPT ![c] = who[c]]

Honoured(c) == jar[c] # None /\ UNCHANGED jar

SsoAnswers(c) ==
    /\ at[c] = "sso"
    /\ SignedIn(c) \/ Honoured(c)
    /\ at' = [at EXCEPT ![c] = "session"]
    /\ UNCHANGED <<store, file, data, dirty, who, open, commands, history>>

\* The page, the password or the network fails: nothing has changed ...
SsoRefuses(c) ==
    /\ at[c] = "sso"
    /\ End(c)
    /\ UNCHANGED <<store, file, memory, who, open, commands, history>>

\* ... or the password was accepted and a later request of the login fails.
UcFails(c) ==
    /\ at[c] = "sso"
    /\ SignedIn(c)
    /\ End(c)
    /\ said' = Unsure
    /\ upsets' = upsets \cup {"half"}
    /\ UNCHANGED <<store, file, data, dirty, who, open, commands>>

\* save_session: the name that was typed, and the account of the cookies.
SaveSession(c) ==
    /\ May(c, "session")
    /\ Flush(c, [data[c] EXCEPT !.session = [username |-> who[c], account |-> jar[c]]])
    /\ UNCHANGED <<store, jar, who, commands>>

\* The WebVPN gateway, of a login that goes through it.
GatewayOpens(c) ==
    /\ at[c] = "gateway"
    /\ at' = [at EXCEPT ![c] = "cookies"]
    /\ UNCHANGED <<store, file, memory, who, open, commands, history>>

GatewayFails(c) ==
    /\ at[c] = "gateway"
    /\ End(c)
    /\ upsets' = upsets \cup {"half"}
    /\ UNCHANGED <<store, file, memory, who, open, commands, said>>

\* Mutant: the copy is written back without the live cookies.
Persist_OldOnes(c) == Flush(c, data[c])

Persist(c) == Flush(c, [data[c] EXCEPT !.jar = jar[c]])

SaveCookies(c) ==
    /\ May(c, "cookies")
    /\ Persist(c)
    /\ UNCHANGED <<store, jar, who, commands>>

\* Mutant: the credentials are not flushed.
SaveCredentials_InMemory(c) ==
    /\ May(c, "credentials")
    /\ data' = [data EXCEPT ![c].login = who[c]]
    /\ dirty' = [dirty EXCEPT ![c] = TRUE]
    /\ Wrote(c, TRUE)
    /\ UNCHANGED <<store, file, jar, who, open, commands, upsets>>

SaveCredentials(c) ==
    /\ May(c, "credentials")
    /\ Flush(c, [data[c] EXCEPT !.login = who[c]])
    /\ UNCHANGED <<store, jar, who, commands>>

(***************************************************************************)
(* Logout and queries.                                                     *)
(***************************************************************************)
Logout(c) ==
    /\ at[c] = "idle"
    /\ Command
    /\ at' = [at EXCEPT ![c] = "erase"]
    /\ who' = [who EXCEPT ![c] = None]
    /\ UNCHANGED <<store, file, memory, open, history>>

ClearSession(c) ==
    /\ May(c, "erase")
    /\ Flush(c, [data[c] EXCEPT !.session = NoSession])
    /\ UNCHANGED <<store, jar, who, commands>>

\* Mutant: the saved cookies stay.
ClearCookies_LiveOnly(c) ==
    /\ May(c, "forget")
    /\ jar' = [jar EXCEPT ![c] = None]
    /\ Flush(c, data[c])
    /\ UNCHANGED <<store, who, commands>>

ClearCookies(c) ==
    /\ May(c, "forget")
    /\ jar' = [jar EXCEPT ![c] = None]
    /\ Flush(c, [data[c] EXCEPT !.jar = None])
    /\ UNCHANGED <<store, who, commands>>

\* A service is asked and answers, which takes cookies but no saved session
\* (a CLI run with --mode looks for none); the cookies are saved.
Query(c) ==
    /\ at[c] = "idle"
    /\ jar[c] # None
    /\ Command
    /\ at' = [at EXCEPT ![c] = "query"]
    /\ UNCHANGED <<store, file, memory, who, open, history>>

QueryAnswered(c) ==
    /\ May(c, "query")
    /\ Persist(c)
    /\ UNCHANGED <<store, jar, who, commands>>

\* The destructor of the store.
Leave(c) ==
    /\ May(c, "leave")
    /\ Flush(c, data[c])
    /\ UNCHANGED <<store, jar, who, commands>>

Step(c) ==
    \/ Build(c) \/ Close(c) \/ Kill(c) \/ Leave(c) \/ Fill(c)
    \/ \E u \in User : Login(c, u)
    \/ Relogin(c) \/ SsoAnswers(c) \/ SsoRefuses(c) \/ UcFails(c)
    \/ SaveSession(c) \/ GatewayOpens(c) \/ GatewayFails(c)
    \/ SaveCookies(c) \/ SaveCredentials(c)
    \/ Logout(c) \/ ClearSession(c) \/ ClearCookies(c)
    \/ Query(c) \/ QueryAnswered(c)

Next == \E c \in Context : Step(c)

Spec == Init /\ [][Next]_vars

(***************************************************************************)
(* Properties.                                                             *)
(***************************************************************************)
Without(u) == upsets \cap u = {}

\* Once a logout has reported success, the file has neither a session nor
\* cookies until the next login is accepted: not after a later query or exit of
\* the same context, nor after kills.  Contexts that overlap break it (a copy
\* made before the logout is written back), and writes that fail.
LoggedOutStaysOut ==
    said = LoggedOut /\ Without({"overlap", "write"}) =>
        Load(file).session = NoSession /\ Load(file).jar = None

\* Once a login has reported success, the file holds its session, the cookies
\* of the session's account and its credentials, whatever else the program
\* does, until the next login or logout; but for overlaps, kills and writes
\* that fail.
LoginIsKept ==
    /\ said.what = "in"
    /\ Without({"overlap", "killed", "write"})
    /\ open = {}
    => /\ file # Torn
       /\ file.session.username = said.user
       /\ file.jar = file.session.account
       /\ file.login = said.user

\* Cookies and session of the file belong to the same account whenever every
\* context is at rest.  Contexts may overlap: a file written back late is old,
\* never a mixture, unless it was read in the middle of a command.
CookiesMatchSession ==
    /\ \A c \in Context : at[c] \in {"down", "idle"}
    /\ Without({"midway", "killed", "write", "half"})
    => Load(file).session = NoSession \/ Load(file).jar = Load(file).session.account

\* The account that is saved is the one that was asked for: no login goes
\* through on the cookies of another account, unless the desktop program logs
\* in over a session, or after an upset.
SameAccount ==
    upsets = {} => Load(file).session.username = Load(file).session.account

\* Session, cookies and name on disk are of one account.
OneAccount == CookiesMatchSession /\ SameAccount

===============================================================================
