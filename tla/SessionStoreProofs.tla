-------------------------- MODULE SessionStoreProofs --------------------------
(***************************************************************************)
(* Proofs about SessionStore, for any number of contexts, users and        *)
(* commands: types, and what a logout and a login promise.                 *)
(***************************************************************************)
EXTENDS SessionStore, TLAPS

(***************************************************************************)
(* The inductive invariant.  While contexts have not overlapped and writes *)
(* have not failed (Quiet), the one context there is agrees with the file. *)
(***************************************************************************)
Up(c) == at[c] # "down"
Quiet == "overlap" \notin upsets /\ "write" \notin upsets
Clean(d) == d.session = NoSession /\ d.jar = None

Alone ==
    "overlap" \notin upsets =>
        \A c, d \in Context : Up(c) /\ Up(d) => c = d

OpenWrites == \A c \in open : at[c] \in DOMAIN After

Synced ==
    Quiet => \A c \in Context : Up(c) =>
        /\ c \in open => file = Torn
        /\ c \notin open => ~dirty[c] /\ Load(file) = data[c]

Forgetting ==
    \A c \in Context :
        /\ at[c] = "erase" /\ c \in open => data[c].session = NoSession
        /\ at[c] = "forget" => data[c].session = NoSession
        /\ at[c] = "forget" /\ c \in open => jar[c] = None /\ data[c].jar = None

Changing(c) ==
    \/ at[c] \in {"gateway", "cookies", "credentials"}
    \/ c \in open /\ at[c] \in {"session", "erase"}

LoggingIn == Quiet => \A c \in Context : Changing(c) => said # LoggedOut

Asking == \A c \in Context : at[c] = "query" => jar[c] # None

Out ==
    Quiet /\ said = LoggedOut =>
        /\ Clean(Load(file))
        /\ \A c \in Context : Up(c) =>
               Clean(data[c]) /\ (at[c] # "session" => jar[c] = None)

Inv == Alone /\ Synced /\ Forgetting /\ LoggingIn /\ Asking /\ Out

\* What a login under way is for, and what it has got.
Named ==
    \A c \in Context :
        /\ at[c] \in {"sso", "session", "gateway", "cookies", "credentials"} => who[c] # None
        /\ at[c] = "session" => jar[c] # None

Typing == TypeOK /\ OpenWrites /\ Named

-----------------------------------------------------------------------------
(* The helpers. *)

LEMMA Writing ==
    DOMAIN After = {"session", "cookies", "credentials", "erase", "forget", "query", "leave"}
BY DEF After

LEMMA EmptyIsData == Empty \in Data /\ Clean(Empty)
BY DEF Empty, Data, Clean, NoSession, Owner

LEMMA Loaded ==
    ASSUME NEW f \in Data \cup {Torn}
    PROVE  Load(f) \in Data
BY EmptyIsData DEF Load

LEMMA Resting ==
    ASSUME NEW c
    PROVE  Rest(c) \in {"idle", "leave"}
BY DEF Rest

\* Where a command goes after each of its writes.
LEMMA Going ==
    ASSUME NEW c, NEW ok \in BOOLEAN, at[c] \in DOMAIN After
    PROVE  /\ Goes(c, ok) \in Steps
           /\ at[c] = "session" => Goes(c, ok) \in {"idle", "leave", "gateway"}
           /\ at[c] = "session" /\ ok => Goes(c, ok) = "gateway"
           /\ at[c] = "cookies" => Goes(c, ok) = "credentials"
           /\ at[c] = "credentials" => Goes(c, ok) \in {"idle", "leave"}
           /\ at[c] = "erase" => Goes(c, ok) = "forget"
           /\ at[c] = "forget" => \/ Goes(c, ok) \in {"idle", "leave"}
                                  \/ Goes(c, ok) = "sso" /\ who[c] # None
           /\ at[c] = "query" => Goes(c, ok) \in {"idle", "leave"}
           /\ at[c] = "leave" => Goes(c, ok) = "down"
<1>1. CASE at[c] = "session"
  BY <1>1, Resting DEF Goes, After, Steps
<1>2. CASE at[c] = "cookies"
  BY <1>2, Resting DEF Goes, After, Steps
<1>3. CASE at[c] = "credentials"
  BY <1>3, Resting DEF Goes, After, Steps
<1>4. CASE at[c] = "erase"
  BY <1>4, Resting DEF Goes, After, Steps
<1>5. CASE at[c] = "forget"
  BY <1>5, Resting DEF Goes, After, Steps
<1>6. CASE at[c] = "query"
  BY <1>6, Resting DEF Goes, After, Steps
<1>7. CASE at[c] = "leave"
  BY <1>7, Resting DEF Goes, After, Steps
<1> QED BY <1>1, <1>2, <1>3, <1>4, <1>5, <1>6, <1>7, Writing

-----------------------------------------------------------------------------
(* Types. *)

LEMMA SaidTyped ==
    ASSUME Typing, NEW c \in Context, NEW ok \in BOOLEAN
    PROVE  Says(c, ok) \in {LoggedOut, Unsure} \cup {LoggedIn(u) : u \in User}
<1>1. CASE at[c] = "credentials" /\ ok
  <2>1. who[c] \in User
    BY <1>1 DEF Typing, TypeOK, Named, Owner
  <2> QED BY <1>1, <2>1 DEF Says
<1>2. CASE ~(at[c] = "credentials" /\ ok)
  BY <1>2 DEF Says, Typing, TypeOK
<1> QED BY <1>1, <1>2

\* What a write leaves of the types, whatever it writes and however it goes.
LEMMA WriteTyped ==
    ASSUME Typing, NEW c \in Context, at[c] \in DOMAIN After,
           UNCHANGED <<store, who, commands>>,
           \/ jar' = jar
           \/ at[c] = "forget" /\ jar' = [jar EXCEPT ![c] = None],
           data' \in [Context -> Data],
           dirty' \in [Context -> BOOLEAN],
           file' \in Data \cup {Torn},
           open' \in SUBSET Context,
           \A d \in open' : d \in open \/ d = c,
           upsets' \in SUBSET Upset,
           \/ \E ok \in BOOLEAN : Wrote(c, ok) /\ c \notin open'
           \/ at' = at /\ said' \in {said, Unsure}
    PROVE  Typing'
<1> USE DEF Typing
<1>1. /\ store' \in Store /\ who' \in [Context -> Owner]
      /\ commands' \in 0 .. MaxCommands /\ jar' \in [Context -> Owner]
  BY DEF TypeOK, Owner
<1>2. CASE \E ok \in BOOLEAN : Wrote(c, ok) /\ c \notin open'
  <2>1. PICK ok \in BOOLEAN : Wrote(c, ok) /\ c \notin open'
    BY <1>2
  <2>2. at' = [at EXCEPT ![c] = Goes(c, ok)] /\ said' = Says(c, ok)
    BY <2>1 DEF Wrote
  <2>3. TypeOK'
    BY <1>1, <2>2, Going, SaidTyped DEF TypeOK
  <2>4. OpenWrites'
    BY <2>1, <2>2 DEF OpenWrites, TypeOK, After
  <2>5. Named'
    BY <2>2, Going, Writing DEF Named, TypeOK
  <2> QED BY <2>3, <2>4, <2>5
<1>3. CASE at' = at /\ said' \in {said, Unsure}
  <2>1. TypeOK'
    BY <1>1, <1>3 DEF TypeOK
  <2>2. OpenWrites'
    BY <1>3 DEF OpenWrites
  <2>3. Named'
    BY <1>3 DEF Named, TypeOK
  <2> QED BY <2>1, <2>2, <2>3
<1> QED BY <1>2, <1>3

LEMMA FlushTyped ==
    ASSUME Typing, NEW c \in Context, NEW d \in Data, at[c] \in DOMAIN After, c \notin open,
           UNCHANGED <<store, who, commands>>,
           \/ jar' = jar
           \/ at[c] = "forget" /\ jar' = [jar EXCEPT ![c] = None],
           Flush(c, d)
    PROVE  Typing'
<1>1. data' \in [Context -> Data]
  BY DEF Flush, Typing, TypeOK
<1>2. Reports \in BOOLEAN /\ (~Reports) \in BOOLEAN /\ TRUE \in BOOLEAN
  BY DEF Reports
<1>3. "write" \in Upset
  BY DEF Upset
<1>4. CASE ~Writes(c, d) /\ Wrote(c, TRUE) /\ UNCHANGED <<file, dirty, open, upsets>>
  BY <1>1, <1>2, <1>4, WriteTyped DEF Typing, TypeOK
<1>5. CASE /\ dirty' = [dirty EXCEPT ![c] = TRUE]
           /\ Wrote(c, ~Reports)
           /\ upsets' = upsets \cup {"write"}
           /\ UNCHANGED <<file, open>>
  <2>1. dirty' \in [Context -> BOOLEAN] /\ upsets' \in SUBSET Upset
    BY <1>5, <1>3 DEF Typing, TypeOK
  <2>2. \E ok \in BOOLEAN : Wrote(c, ok) /\ c \notin open'
    BY <1>2, <1>5
  <2> QED BY <1>1, <1>5, <2>1, <2>2, WriteTyped DEF Typing, TypeOK
<1>6. CASE /\ dirty' = [dirty EXCEPT ![c] = TRUE]
           /\ file' = Torn
           /\ open' = open \cup {c}
           /\ said' = IF at[c] \in {"session", "erase"} THEN Unsure ELSE said
           /\ UNCHANGED <<at, upsets>>
  <2>1. dirty' \in [Context -> BOOLEAN] /\ open' \in SUBSET Context
    BY <1>6 DEF Typing, TypeOK
  <2>2. said' \in {said, Unsure} /\ file' \in Data \cup {Torn}
    BY <1>6
  <2> QED BY <1>1, <1>6, <2>1, <2>2, WriteTyped DEF Typing, TypeOK
<1> QED BY <1>4, <1>5, <1>6 DEF Flush

LEMMA FillTyped ==
    ASSUME Typing, NEW c \in Context, Fill(c)
    PROVE  Typing'
<1>1. at[c] \in DOMAIN After /\ open' = open \ {c} /\ data[c] \in Data
  BY DEF Fill, Typing, OpenWrites, TypeOK
<1>2. Reports \in BOOLEAN /\ (~Reports) \in BOOLEAN /\ "write" \in Upset
  BY DEF Reports, Upset
<1>3. \E ok \in BOOLEAN : Wrote(c, ok) /\ c \notin open'
  BY <1>1, <1>2 DEF Fill
<1>4. /\ file' \in Data \cup {Torn} /\ dirty' \in [Context -> BOOLEAN]
      /\ upsets' \in SUBSET Upset
  BY <1>1, <1>2 DEF Fill, Typing, TypeOK
<1> QED BY <1>1, <1>3, <1>4, WriteTyped DEF Fill, Typing, TypeOK

LEMMA TypingStep ==
    ASSUME Typing, [Next]_vars
    PROVE  Typing'
<1> USE DEF Typing
<1>1. CASE UNCHANGED vars
  BY <1>1 DEF vars, memory, control, history, TypeOK, OpenWrites, Named
<1>2. SUFFICES ASSUME NEW c \in Context, Step(c) PROVE Typing'
  BY <1>1 DEF Next
<1>3. data[c] \in Data /\ who[c] \in Owner /\ jar[c] \in Owner
  BY DEF TypeOK
<1> DEFINE Command2 == commands' \in 0 .. MaxCommands
<1>4. Command => Command2
  BY StoreAssumption DEF Command, TypeOK
<1> HIDE DEF Command2
<1>5. {"idle", "leave", "down", "sso", "session", "gateway", "cookies", "erase", "query"} \subseteq Steps
  BY Writing DEF Steps
<1>6. Rest(c) \in {"idle", "leave"}
  BY Resting
<1>7. CASE Build(c)
  <2>1. Load(file) \in Data /\ Load(file).jar \in Owner
    BY Loaded DEF TypeOK, Data
  <2>2. Company \subseteq Upset
    BY DEF Company, Upset
  <2>3. TypeOK'
    BY <1>4, <1>5, <1>7, <2>1, <2>2 DEF Build, TypeOK, Command2, Owner
  <2>4. c \notin open
    BY <1>7, Writing DEF Build, OpenWrites
  <2>5. OpenWrites' /\ Named'
    BY <1>7, <2>4 DEF Build, TypeOK, OpenWrites, Named
  <2> QED BY <2>3, <2>5
<1>8. CASE Close(c)
  <2>1. TypeOK' /\ Named'
    BY <1>5, <1>8 DEF Close, TypeOK, Named, memory, history
  <2>2. OpenWrites'
    BY <1>8, Writing DEF Close, TypeOK, OpenWrites
  <2> QED BY <2>1, <2>2
<1>9. CASE Kill(c)
  <2>1. TypeOK' /\ Named'
    BY <1>4, <1>5, <1>9 DEF Kill, TypeOK, Named, memory, Command2, Upset
  <2>2. OpenWrites'
    BY <1>9 DEF Kill, TypeOK, OpenWrites
  <2> QED BY <2>1, <2>2
<1>10. CASE \E u \in User : Login(c, u)
  <2>1. PICK u \in User : Login(c, u)
    BY <1>10
  <2>2. TypeOK' /\ Named'
    BY <1>4, <1>5, <2>1, StoreAssumption DEF Login, TypeOK, Named, memory, Command2, Upset, Owner
  <2>3. OpenWrites'
    BY <2>1, Writing DEF Login, TypeOK, OpenWrites
  <2> QED BY <2>2, <2>3
<1>11. CASE Relogin(c)
  <2>1. data[c].login \in Owner
    BY <1>3 DEF Data
  <2>2. TypeOK' /\ Named'
    BY <1>4, <1>5, <1>11, <2>1 DEF Relogin, TypeOK, Named, memory, history, Command2
  <2>3. OpenWrites'
    BY <1>11, Writing DEF Relogin, TypeOK, OpenWrites
  <2> QED BY <2>2, <2>3
<1>12. CASE SsoAnswers(c)
  <2>1. jar' \in [Context -> Owner] /\ jar'[c] # None /\ \A d \in Context : d # c => jar'[d] = jar[d]
    BY <1>3, <1>12 DEF SsoAnswers, SignedIn, Honoured, TypeOK, Named
  <2>2. TypeOK' /\ Named'
    BY <1>5, <1>12, <2>1 DEF SsoAnswers, TypeOK, Named, history
  <2>3. OpenWrites'
    BY <1>12, Writing DEF SsoAnswers, TypeOK, OpenWrites
  <2> QED BY <2>2, <2>3
<1>13. CASE SsoRefuses(c)
  <2>1. TypeOK' /\ Named'
    BY <1>5, <1>6, <1>13 DEF SsoRefuses, End, TypeOK, Named, memory, history
  <2>2. OpenWrites'
    BY <1>13, Writing DEF SsoRefuses, End, TypeOK, OpenWrites
  <2> QED BY <2>1, <2>2
<1>14. CASE UcFails(c)
  <2>1. TypeOK'
    BY <1>3, <1>5, <1>6, <1>14 DEF UcFails, SignedIn, End, TypeOK, Upset
  <2>2. Named'
    BY <1>6, <1>14 DEF UcFails, SignedIn, End, TypeOK, Named
  <2>3. OpenWrites'
    BY <1>14, Writing DEF UcFails, End, TypeOK, OpenWrites
  <2> QED BY <2>1, <2>2, <2>3
<1>15. CASE SaveSession(c)
  <2>1. who[c] \in User /\ jar[c] \in User
    BY <1>3, <1>15 DEF SaveSession, May, Named, Owner
  <2>2. [data[c] EXCEPT !.session = [username |-> who[c], account |-> jar[c]]] \in Data
    BY <1>3, <2>1 DEF Data, Session
  <2> QED BY <1>15, <2>2, FlushTyped, Writing DEF SaveSession, May
<1>16. CASE GatewayOpens(c)
  <2>1. TypeOK' /\ Named'
    BY <1>5, <1>16 DEF GatewayOpens, TypeOK, Named, memory, history
  <2>2. OpenWrites'
    BY <1>16, Writing DEF GatewayOpens, TypeOK, OpenWrites
  <2> QED BY <2>1, <2>2
<1>17. CASE GatewayFails(c)
  <2>1. TypeOK' /\ Named'
    BY <1>5, <1>6, <1>17 DEF GatewayFails, End, TypeOK, Named, memory, Upset
  <2>2. OpenWrites'
    BY <1>17, Writing DEF GatewayFails, End, TypeOK, OpenWrites
  <2> QED BY <2>1, <2>2
<1>18. [data[c] EXCEPT !.jar = jar[c]] \in Data
  BY <1>3 DEF Data
<1>19. CASE SaveCookies(c)
  BY <1>18, <1>19, FlushTyped, Writing DEF SaveCookies, Persist, May
<1>20. CASE SaveCredentials(c)
  <2>1. [data[c] EXCEPT !.login = who[c]] \in Data
    BY <1>3 DEF Data
  <2> QED BY <1>20, <2>1, FlushTyped, Writing DEF SaveCredentials, May
<1>21. CASE Logout(c)
  <2>1. TypeOK' /\ Named'
    BY <1>4, <1>5, <1>21 DEF Logout, TypeOK, Named, memory, history, Command2, Owner
  <2>2. OpenWrites'
    BY <1>21, Writing DEF Logout, TypeOK, OpenWrites
  <2> QED BY <2>1, <2>2
<1>22. CASE ClearSession(c)
  <2>1. [data[c] EXCEPT !.session = NoSession] \in Data
    BY <1>3 DEF Data
  <2> QED BY <1>22, <2>1, FlushTyped, Writing DEF ClearSession, May
<1>23. CASE ClearCookies(c)
  <2>1. [data[c] EXCEPT !.jar = None] \in Data
    BY <1>3 DEF Data, Owner
  <2> QED BY <1>23, <2>1, FlushTyped, Writing DEF ClearCookies, May
<1>24. CASE Query(c)
  <2>1. TypeOK' /\ Named'
    BY <1>4, <1>5, <1>24 DEF Query, TypeOK, Named, memory, history, Command2
  <2>2. OpenWrites'
    BY <1>24, Writing DEF Query, TypeOK, OpenWrites
  <2> QED BY <2>1, <2>2
<1>25. CASE QueryAnswered(c)
  BY <1>18, <1>25, FlushTyped, Writing DEF QueryAnswered, Persist, May
<1>26. CASE Leave(c)
  BY <1>3, <1>26, FlushTyped, Writing DEF Leave, May
<1> QED
  BY <1>2, <1>7, <1>8, <1>9, <1>10, <1>11, <1>12, <1>13, <1>14, <1>15, <1>16, <1>17, <1>19,
     <1>20, <1>21, <1>22, <1>23, <1>24, <1>25, <1>26, FillTyped DEF Step

\* Every variable keeps its type, and a session always names an account.
THEOREM Typed == Spec => []TypeOK
<1>1. Init => Typing
  BY EmptyIsData, StoreAssumption DEF Init, Typing, TypeOK, OpenWrites, Named, Owner, Steps
<1>2. Typing /\ [Next]_vars => Typing'
  BY TypingStep
<1>3. Typing => TypeOK
  BY DEF Typing
<1> QED BY <1>1, <1>2, <1>3, PTL DEF Spec

-----------------------------------------------------------------------------
(* Logged out stays out. *)

LEMMA WholeFile ==
    ASSUME NEW d \in Data
    PROVE  d # Torn /\ Load(d) = d
<1>1. d # Torn
  <2>1. "jar" \in DOMAIN d /\ "jar" \notin DOMAIN Torn
    BY DEF Data, Torn
  <2> QED BY <2>1
<1> QED BY <1>1 DEF Load

LEMMA Reported == LoggedOut # Unsure /\ \A u : LoggedIn(u) # LoggedOut
BY DEF LoggedOut, Unsure, LoggedIn

\* The three outcomes of a flush.  d is what the copy becomes, by the step.
LEMMA FlushKeeps ==
    ASSUME Typing, Inv, NEW c \in Context, NEW d \in Data, at[c] \in DOMAIN After, c \notin open,
           \A e \in Context : e # c => jar'[e] = jar[e],
           at[c] # "forget" => jar' = jar,
           at[c] = "forget" => jar'[c] = None /\ d.jar = None /\ d.session = data[c].session,
           at[c] = "erase" => d.session = NoSession,
           at[c] = "leave" => d = data[c],
           Flush(c, d)
    PROVE  Inv'
<1> USE DEF Inv
<1>1. Up(c) /\ data'[c] = d /\ \A e \in Context : e # c => data'[e] = data[e]
  BY Writing DEF Up, Flush, Typing, TypeOK
<1>2. CASE ~Writes(c, d) /\ Wrote(c, TRUE) /\ UNCHANGED <<file, dirty, open, upsets>>
  <2>1. d = data[c] /\ at[c] \in {"erase", "forget", "leave"}
    BY <1>2, Writing DEF Writes, Inv, Asking
  <2>2. at' = [at EXCEPT ![c] = Goes(c, TRUE)] /\ said' = Says(c, TRUE)
    BY <1>2 DEF Wrote
  <2>3. /\ \A e \in Context : e # c => at'[e] = at[e]
        /\ at[c] = "erase" => at'[c] = "forget" /\ said' = said
        /\ at[c] = "forget" => at'[c] \in {"idle", "leave", "sso"} /\ said' = LoggedOut
        /\ at[c] = "leave" => at'[c] = "down" /\ said' = said
    BY <2>1, <2>2, Going DEF Says, Typing, TypeOK
  <2> HIDE DEF Inv
  <2>4. Alone'
    BY <1>1, <1>2, <2>1, <2>3 DEF Alone, Up, Inv
  <2>5. Synced'
    BY <1>1, <1>2, <2>1, <2>3 DEF Synced, Quiet, Up, Inv
  <2>6. Forgetting'
    BY <1>1, <1>2, <2>1, <2>3 DEF Forgetting, Inv
  <2>7. LoggingIn'
    <3>1. CASE at[c] = "forget" /\ Quiet
      BY <1>1, <1>2, <2>1, <2>3, <3>1 DEF LoggingIn, Changing, Quiet, Inv, Alone, Up
    <3>2. CASE at[c] # "forget" /\ Quiet
      BY <1>1, <1>2, <2>1, <2>3, <3>2 DEF LoggingIn, Changing, Quiet, Inv
    <3> QED BY <1>2, <3>1, <3>2 DEF LoggingIn, Quiet
  <2>8. Asking'
    BY <1>1, <2>1, <2>3 DEF Asking, Inv
  <2>9. Out'
    <3>1. CASE at[c] = "forget" /\ Quiet
      <4>1. Load(file) = data[c] /\ Clean(data[c])
        BY <1>1, <2>1, <3>1 DEF Synced, Forgetting, Clean, Inv
      <4>2. \A e \in Context : Up(e) => e = c
        BY <1>1, <3>1 DEF Alone, Quiet, Inv
      <4> QED BY <1>1, <1>2, <2>1, <2>3, <3>1, <4>1, <4>2 DEF Out, Clean, Up
    <3>2. CASE at[c] # "forget" /\ Quiet
      BY <1>1, <1>2, <2>1, <2>3, <3>2 DEF Out, Quiet, Clean, Up, Inv
    <3> QED BY <1>2, <3>1, <3>2 DEF Out, Quiet
  <2> QED BY <2>4, <2>5, <2>6, <2>7, <2>8, <2>9 DEF Inv
<1>3. CASE /\ dirty' = [dirty EXCEPT ![c] = TRUE]
           /\ Wrote(c, ~Reports)
           /\ upsets' = upsets \cup {"write"}
           /\ UNCHANGED <<file, open>>
  <2>1. ~Quiet'
    BY <1>3 DEF Quiet
  <2>2. (~Reports) \in BOOLEAN /\ at' = [at EXCEPT ![c] = Goes(c, ~Reports)]
    BY <1>3 DEF Wrote, Reports
  <2>3. /\ \A e \in Context : e # c => at'[e] = at[e]
        /\ at'[c] # "query"
        /\ at'[c] = "forget" => at[c] = "erase"
    BY <2>2, Going, Writing DEF Typing, TypeOK
  <2> HIDE DEF Inv
  <2>4. Alone'
    BY <1>1, <1>3, <2>3 DEF Alone, Up, Inv
  <2>5. Forgetting'
    BY <1>1, <1>3, <2>3 DEF Forgetting, Inv
  <2>6. Asking'
    BY <1>1, <2>3 DEF Asking, Inv
  <2> QED BY <2>1, <2>4, <2>5, <2>6 DEF Inv, Synced, LoggingIn, Out
<1>4. CASE /\ dirty' = [dirty EXCEPT ![c] = TRUE]
           /\ file' = Torn
           /\ open' = open \cup {c}
           /\ said' = IF at[c] \in {"session", "erase"} THEN Unsure ELSE said
           /\ UNCHANGED <<at, upsets>>
  <2> HIDE DEF Inv
  <2>1. Alone'
    BY <1>4 DEF Alone, Up, Inv
  <2>2. Synced'
    BY <1>1, <1>4, <2>1 DEF Synced, Alone, Quiet, Up
  <2>3. Forgetting'
    BY <1>1, <1>4 DEF Forgetting, Inv
  <2>4. LoggingIn'
    BY <1>1, <1>4, Reported DEF LoggingIn, Changing, Quiet, Inv
  <2>5. Asking'
    BY <1>1, <1>4 DEF Asking, Inv
  <2>6. Out'
    <3> SUFFICES ASSUME Quiet, said' = LoggedOut PROVE Out'
      BY <1>4 DEF Out, Quiet
    <3>1. said = LoggedOut /\ at[c] \notin {"session", "erase"}
      BY <1>4, Reported
    <3>2. Clean(data[c]) /\ jar[c] = None
      BY <1>1, <3>1 DEF Out, Inv
    <3>3. at[c] \in {"forget", "leave"}
      BY <3>1, <3>2, Writing DEF LoggingIn, Changing, Asking, Inv
    <3>4. Clean(d) /\ jar'[c] = None
      BY <3>2, <3>3 DEF Clean
    <3>5. Clean(Load(file'))
      BY <1>4, EmptyIsData DEF Load
    <3>6. \A e \in Context : Up(e) => e = c
      BY <1>1 DEF Alone, Quiet, Inv
    <3> QED BY <1>1, <1>4, <3>4, <3>5, <3>6 DEF Out, Up, Clean
  <2> QED BY <2>1, <2>2, <2>3, <2>4, <2>5, <2>6 DEF Inv
<1> QED BY <1>2, <1>3, <1>4 DEF Flush

LEMMA FillKeeps ==
    ASSUME Typing, Inv, NEW c \in Context, Fill(c)
    PROVE  Inv'
<1>1. /\ at[c] \in DOMAIN After /\ c \in open /\ open' = open \ {c} /\ UNCHANGED <<data, jar>>
      /\ Up(c) /\ data[c] \in Data
  BY Writing DEF Fill, Typing, OpenWrites, TypeOK, Up
<1>2. CASE /\ Wrote(c, ~Reports)
           /\ upsets' = upsets \cup {"write"}
           /\ UNCHANGED <<file, dirty>>
  <2>1. ~Quiet'
    BY <1>2 DEF Quiet
  <2>2. (~Reports) \in BOOLEAN /\ at' = [at EXCEPT ![c] = Goes(c, ~Reports)]
    BY <1>2 DEF Wrote, Reports
  <2>3. /\ \A e \in Context : e # c => at'[e] = at[e]
        /\ at'[c] # "query"
        /\ at'[c] = "forget" => at[c] = "erase"
    BY <1>1, <2>2, Going, Writing DEF Typing, TypeOK
  <2>4. Alone'
    BY <1>1, <1>2, <2>3 DEF Alone, Up, Inv
  <2>5. Asking'
    BY <1>1, <2>3 DEF Asking, Inv
  <2>6. Forgetting'
    BY <1>1, <2>3 DEF Forgetting, Inv
  <2> QED BY <2>1, <2>4, <2>5, <2>6 DEF Inv, Synced, LoggingIn, Out
<1>3. CASE /\ file' = data[c]
           /\ dirty' = [dirty EXCEPT ![c] = FALSE]
           /\ Wrote(c, TRUE)
           /\ UNCHANGED upsets
  <2>1. /\ at' = [at EXCEPT ![c] = Goes(c, TRUE)] /\ said' = Says(c, TRUE)
        /\ Load(file') = data[c] /\ ~dirty'[c]
    BY <1>1, <1>3, WholeFile DEF Wrote, Typing, TypeOK
  <2>2. \A e \in Context : e # c => at'[e] = at[e]
    BY <2>1 DEF Typing, TypeOK
  <2>3. /\ at[c] = "session" => at'[c] \in {"idle", "leave", "gateway"} /\ said' = said
        /\ at[c] = "cookies" => at'[c] = "credentials" /\ said' = said
        /\ at[c] = "credentials" => at'[c] \in {"idle", "leave"} /\ said' # LoggedOut
        /\ at[c] = "erase" => at'[c] = "forget" /\ said' = said
        /\ at[c] = "forget" => at'[c] \in {"idle", "leave", "sso"} /\ said' = LoggedOut
        /\ at[c] = "query" => at'[c] \in {"idle", "leave"} /\ said' = said
        /\ at[c] = "leave" => at'[c] = "down" /\ said' = said
    BY <1>1, <2>1, Going, Reported DEF Says, Typing, TypeOK
  <2>4. Alone'
    BY <1>1, <1>3, <2>2 DEF Alone, Up, Inv
  <2>5. Quiet => \A e \in Context : Up(e) => e = c
    BY <1>1 DEF Alone, Quiet, Inv
  <2>6. Synced'
    BY <1>1, <1>3, <2>1, <2>2, <2>5 DEF Synced, Quiet, Up
  <2>7. at[c] = "erase" => data[c].session = NoSession
    BY <1>1 DEF Forgetting, Inv
  <2>8. Forgetting'
    BY <1>1, <2>2, <2>3, <2>7, Writing DEF Forgetting, Inv
  <2>9. Asking'
    BY <1>1, <2>2, <2>3, Writing DEF Asking, Inv
  <2>10. LoggingIn'
    BY <1>1, <1>3, <2>2, <2>3, <2>5, Writing DEF LoggingIn, Changing, Quiet, Up, Inv
  <2>11. Out'
    <3> SUFFICES ASSUME Quiet, said' = LoggedOut PROVE Out'
      BY <1>3 DEF Out, Quiet
    <3>1. Clean(data[c]) /\ (Up(c)' => at'[c] # "session" /\ jar[c] = None)
      <4>1. CASE at[c] = "forget"
        BY <1>1, <2>3, <4>1 DEF Forgetting, Clean, Inv
      <4>2. CASE at[c] # "forget"
        <5>1. said = LoggedOut
          BY <1>1, <2>3, <4>2, Writing
        <5>2. at[c] \notin {"session", "erase", "cookies", "credentials"}
          BY <1>1, <5>1 DEF LoggingIn, Changing, Inv
        <5>3. Clean(data[c]) /\ jar[c] = None
          BY <1>1, <5>1, <5>2 DEF Out, Inv
        <5>4. at[c] # "query"
          BY <5>3 DEF Asking, Inv
        <5> QED BY <1>1, <2>3, <4>2, <5>2, <5>3, <5>4, Writing DEF Up
      <4> QED BY <4>1, <4>2
    <3> QED BY <1>1, <2>1, <2>2, <2>5, <3>1 DEF Out, Up
  <2> QED BY <2>4, <2>6, <2>8, <2>9, <2>10, <2>11 DEF Inv
<1> QED BY <1>2, <1>3 DEF Fill

LEMMA InvStep ==
    ASSUME Typing, Inv, [Next]_vars
    PROVE  Inv'
<1>1. CASE UNCHANGED vars
  BY <1>1 DEF vars, memory, control, history, Inv, Alone, Synced, Forgetting, LoggingIn, Asking,
              Out, Up, Quiet, Changing
<1>2. SUFFICES ASSUME NEW c \in Context, Step(c) PROVE Inv'
  BY <1>1 DEF Next
<1>3. data[c] \in Data /\ who[c] \in Owner /\ jar[c] \in Owner
  BY DEF Typing, TypeOK
<1>4. Rest(c) \in {"idle", "leave"}
  BY Resting
<1>5. CASE Build(c)
  <2>1. c \notin open /\ ~Up(c)
    BY <1>5, Writing DEF Build, Typing, OpenWrites, Up
  <2>2. /\ at' = [at EXCEPT ![c] = "idle"] /\ data' = [data EXCEPT ![c] = Load(file)]
        /\ jar' = [jar EXCEPT ![c] = Load(file).jar] /\ dirty' = [dirty EXCEPT ![c] = FALSE]
        /\ upsets' = upsets \cup Company
        /\ UNCHANGED <<file, open, said>>
    BY <1>5 DEF Build
  <2>3. "overlap" \notin upsets' => "overlap" \notin upsets /\ \A e \in Context : ~Up(e)
    BY <2>2 DEF Company, Up, Typing, TypeOK
  <2>4. Quiet' => Quiet
    BY <2>2 DEF Quiet
  <2>5. Alone'
    BY <2>2, <2>3 DEF Alone, Up, Typing, TypeOK
  <2>6. Synced'
    BY <2>1, <2>2, <2>3 DEF Synced, Quiet, Up, Typing, TypeOK
  <2>7. Forgetting' /\ Asking'
    BY <2>1, <2>2 DEF Forgetting, Asking, Inv, Typing, TypeOK
  <2>8. LoggingIn'
    BY <2>1, <2>2, <2>4 DEF LoggingIn, Changing, Inv, Typing, TypeOK
  <2>9. Out'
    <3> SUFFICES ASSUME Quiet', said' = LoggedOut PROVE Out'
      BY DEF Out
    <3>1. Clean(Load(file))
      BY <2>2, <2>4 DEF Out, Inv
    <3>2. \A e \in Context : Up(e)' => e = c
      BY <2>2, <2>3 DEF Up, Quiet, Typing, TypeOK
    <3> QED BY <2>2, <3>1, <3>2 DEF Out, Clean, Typing, TypeOK
  <2> QED BY <2>5, <2>6, <2>7, <2>8, <2>9 DEF Inv
\* The steps between writes: they move c and change nothing else that matters.
<1>6. ASSUME c \notin open, Up(c), UNCHANGED <<file, data, dirty, open, said>>,
             NEW s \in {"idle", "leave", "sso", "erase", "query", "session", "cookies"},
             at' = [at EXCEPT ![c] = s],
             s = "query" => jar[c] # None,
             s = "cookies" => at[c] = "gateway",
             \A e \in Context : e # c => jar'[e] = jar[e],
             (jar' = jar /\ at[c] # "session") \/ s = "session",
             {"overlap", "write"} \cap upsets = {"overlap", "write"} \cap upsets'
      PROVE  Inv'
  <2>1. /\ at'[c] = s /\ (\A e \in Context : e # c => at'[e] = at[e])
        /\ Quiet' = Quiet /\ ("overlap" \in upsets) = ("overlap" \in upsets')
    BY <1>6 DEF Typing, TypeOK, Quiet
  <2>2. Alone'
    BY <1>6, <2>1 DEF Alone, Up, Inv
  <2>3. Synced'
    BY <1>6, <2>1 DEF Synced, Up, Inv
  <2>4. Forgetting' /\ Asking'
    BY <1>6, <2>1 DEF Forgetting, Asking, Inv
  <2>5. LoggingIn'
    BY <1>6, <2>1 DEF LoggingIn, Changing, Inv
  <2>6. Out'
    BY <1>6, <2>1 DEF Out, Up, Inv
  <2> QED BY <2>2, <2>3, <2>4, <2>5, <2>6 DEF Inv
<1>7. at[c] \in {"idle", "sso", "gateway"} => c \notin open /\ Up(c)
  BY Writing DEF Typing, OpenWrites, Up
<1>8. CASE Close(c)
  BY <1>6, <1>7, <1>8 DEF Close, memory, history
<1>9. CASE Kill(c)
  <2>1. /\ at'[c] = "down" /\ (\A e \in Context : e # c => at'[e] = at[e] /\ (e \in open' <=> e \in open))
        /\ UNCHANGED <<file, data, dirty, jar, said>>
        /\ Quiet' = Quiet /\ ("overlap" \in upsets) = ("overlap" \in upsets')
    BY <1>9 DEF Kill, memory, Typing, TypeOK, Quiet
  <2>2. Alone' /\ Synced'
    BY <2>1 DEF Alone, Synced, Up, Inv
  <2>3. Forgetting' /\ Asking'
    BY <2>1 DEF Forgetting, Asking, Inv
  <2>4. LoggingIn'
    BY <1>9, <2>1 DEF LoggingIn, Changing, Inv, Kill
  <2>5. Out'
    BY <2>1 DEF Out, Up, Inv
  <2> QED BY <2>2, <2>3, <2>4, <2>5 DEF Inv
<1>10. CASE \E u \in User : Login(c, u)
  <2>1. PICK u \in User : Login(c, u)
    BY <1>10
  <2> QED BY <1>6, <1>7, <2>1 DEF Login, memory
<1>11. CASE Relogin(c)
  BY <1>6, <1>7, <1>11 DEF Relogin, memory, history
<1>12. CASE SsoAnswers(c)
  <2>1. \A e \in Context : e # c => jar'[e] = jar[e]
    BY <1>12 DEF SsoAnswers, SignedIn, Honoured, Typing, TypeOK
  <2> QED BY <1>6, <1>7, <1>12, <2>1 DEF SsoAnswers, history
<1>13. CASE SsoRefuses(c)
  BY <1>4, <1>6, <1>7, <1>13 DEF SsoRefuses, End, memory, history
<1>14. CASE UcFails(c)
  <2>1. /\ said' # LoggedOut /\ at'[c] \in {"idle", "leave"}
        /\ (\A e \in Context : e # c => at'[e] = at[e] /\ jar'[e] = jar[e])
        /\ UNCHANGED <<file, data, dirty, open>> /\ Up(c) /\ c \notin open
        /\ Quiet' = Quiet /\ ("overlap" \in upsets) = ("overlap" \in upsets')
    BY <1>4, <1>7, <1>14, Reported DEF UcFails, End, SignedIn, Typing, TypeOK, Quiet
  <2>2. Alone' /\ Synced'
    BY <2>1 DEF Alone, Synced, Up, Inv
  <2>3. Forgetting' /\ Asking'
    BY <2>1 DEF Forgetting, Asking, Inv
  <2> QED BY <2>1, <2>2, <2>3 DEF LoggingIn, Out, Inv
<1>15. CASE GatewayOpens(c)
  BY <1>6, <1>7, <1>15 DEF GatewayOpens, memory, history
<1>16. CASE GatewayFails(c)
  BY <1>4, <1>6, <1>7, <1>16 DEF GatewayFails, End, memory
<1>17. CASE Logout(c)
  BY <1>6, <1>7, <1>17 DEF Logout, memory, history
<1>18. CASE Query(c)
  BY <1>6, <1>7, <1>18 DEF Query, memory, history
<1>19. CASE SaveSession(c)
  <2>1. who[c] \in User /\ jar[c] \in User
    BY <1>3, <1>19 DEF SaveSession, May, Typing, Named, Owner
  <2>2. [data[c] EXCEPT !.session = [username |-> who[c], account |-> jar[c]]] \in Data
    BY <1>3, <2>1 DEF Data, Session
  <2> QED BY <1>19, <2>2, FlushKeeps, Writing DEF SaveSession, May
<1>20. [data[c] EXCEPT !.jar = jar[c]] \in Data
  BY <1>3 DEF Data
<1>21. CASE SaveCookies(c)
  BY <1>20, <1>21, FlushKeeps, Writing DEF SaveCookies, Persist, May
<1>22. CASE SaveCredentials(c)
  <2>1. [data[c] EXCEPT !.login = who[c]] \in Data
    BY <1>3 DEF Data
  <2> QED BY <1>22, <2>1, FlushKeeps, Writing DEF SaveCredentials, May
<1>23. CASE ClearSession(c)
  <2> DEFINE d == [data[c] EXCEPT !.session = NoSession]
  <2>1. d \in Data /\ d.session = NoSession
    BY <1>3 DEF Data
  <2> QED BY <1>23, <2>1, FlushKeeps, Writing DEF ClearSession, May
<1>24. CASE ClearCookies(c)
  <2> DEFINE d == [data[c] EXCEPT !.jar = None]
  <2>1. d \in Data /\ d.jar = None /\ d.session = data[c].session
    BY <1>3 DEF Data, Owner
  <2>2. jar'[c] = None /\ \A e \in Context : e # c => jar'[e] = jar[e]
    BY <1>24 DEF ClearCookies, Typing, TypeOK
  <2> QED BY <1>24, <2>1, <2>2, FlushKeeps, Writing DEF ClearCookies, May
<1>25. CASE QueryAnswered(c)
  BY <1>20, <1>25, FlushKeeps, Writing DEF QueryAnswered, Persist, May
<1>26. CASE Leave(c)
  BY <1>3, <1>26, FlushKeeps, Writing DEF Leave, May
<1> QED
  BY <1>2, <1>5, <1>8, <1>9, <1>10, <1>11, <1>12, <1>13, <1>14, <1>15, <1>16, <1>17, <1>18, <1>19,
     <1>21, <1>22, <1>23, <1>24, <1>25, <1>26, FillKeeps DEF Step

LEMMA AtFirst == Init => Typing /\ Inv
<1>1. Init => Typing
  BY EmptyIsData, StoreAssumption DEF Init, Typing, TypeOK, OpenWrites, Named, Owner, Steps
<1>2. Init => Inv
  <2>1. SUFFICES ASSUME Init PROVE Inv
    OBVIOUS
  <2>2. \A c \in Context : at[c] = "down" /\ ~Up(c) /\ c \notin open
    BY <2>1 DEF Init, Up
  <2>3. Load(file) = Empty
    BY <2>1, EmptyIsData, WholeFile DEF Init
  <2> QED BY <2>2, <2>3, EmptyIsData
       DEF Inv, Alone, Synced, Forgetting, LoggingIn, Changing, Asking, Out
<1> QED BY <1>1, <1>2

\* As long as contexts do not overlap and writes do not fail, what a logout
\* took out of the file stays out until the next login is accepted, whatever
\* is killed and however often contexts are built and closed.
THEOREM LogoutLasts == Spec => []LoggedOutStaysOut
<1>1. Init => Typing /\ Inv
  BY AtFirst
<1>2. Typing /\ Inv /\ [Next]_vars => Typing' /\ Inv'
  BY TypingStep, InvStep
<1>3. Inv => LoggedOutStaysOut
  BY DEF Inv, Out, Quiet, Clean, LoggedOutStaysOut, Without
<1> QED BY <1>1, <1>2, <1>3, PTL DEF Spec

-----------------------------------------------------------------------------
(* Logins: what a login has prepared, and what holds of the file after it.  *)

\* What a login under way has put into its copy.
Progress ==
    \A c \in Context :
        /\ \/ at[c] \in {"gateway", "cookies", "credentials"}
           \/ at[c] = "session" /\ c \in open
           => data[c].session = [username |-> who[c], account |-> jar[c]]
        /\ at[c] = "credentials" \/ (at[c] = "cookies" /\ c \in open) => data[c].jar = jar[c]
        /\ at[c] = "credentials" /\ c \in open => data[c].login = who[c]

Matches(d) == d.session = NoSession \/ d.jar = d.session.account
Follows(c) == data[c].session = NoSession \/ jar[c] = data[c].session.account
Tidy == Without({"midway", "killed", "write", "half"})

MatchingFile ==
    Tidy => Matches(Load(file)) \/ \E c \in Context : at[c] \in {"gateway", "cookies"}

MatchingData ==
    Tidy => \A c \in Context :
        at[c] \in {"idle", "sso", "query", "leave", "erase", "forget"} =>
            Matches(data[c]) /\ Follows(c)

Smooth == Quiet /\ "killed" \notin upsets
Holds(d, u) == d.session.username = u /\ d.jar = d.session.account /\ d.login = u

Deciding ==
    Smooth => \A c \in Context : Changing(c) \/ at[c] = "forget" => said.what # "in"

Kept ==
    Smooth /\ said.what = "in" =>
        /\ file = Torn => \E c \in open : TRUE
        /\ file # Torn => Holds(file, said.user)
        /\ \A c \in Context : Up(c) =>
            /\ Holds(data[c], said.user)
            /\ at[c] # "session" => jar[c] = data[c].jar

Strict ==
    upsets = {} =>
        /\ Load(file).session.username = Load(file).session.account
        /\ \A c \in Context : Up(c) =>
            /\ data[c].session.username = data[c].session.account
            /\ at[c] = "sso" => jar[c] = None /\ data[c].jar = None
            /\ at[c] = "session" => jar[c] = who[c]
            /\ at[c] \in {"idle", "query", "leave"} /\ data[c].session = NoSession =>
                   jar[c] = None
            /\ at[c] \in {"idle", "query", "leave"} => jar[c] = data[c].jar
        /\ (\A c \in Context : ~Up(c)) /\ Load(file).session = NoSession =>
               Load(file).jar = None

LoginInv == Progress /\ MatchingFile /\ MatchingData /\ Deciding /\ Kept /\ Strict

\* What a step makes of the copy before it flushes it.
Prepared(c, d) ==
    /\ at[c] = "session" => d.session = [username |-> who[c], account |-> jar[c]]
    /\ at[c] \in {"cookies", "query"} =>
           d.session = data[c].session /\ d.jar = jar[c] /\ d.login = data[c].login
    /\ at[c] = "credentials" =>
           d.session = data[c].session /\ d.jar = data[c].jar /\ d.login = who[c]
    /\ at[c] = "erase" => d.session = NoSession
    /\ at[c] = "forget" => d.session = data[c].session /\ d.jar = None
    /\ at[c] = "leave" => d = data[c]

LEMMA Nobody == NoSession.username = None /\ NoSession.account = None /\ None \notin User
BY StoreAssumption DEF NoSession

LEMMA SaidIn ==
    ASSUME Typing, said.what = "in"
    PROVE  said.user \in User /\ said # Unsure /\ said # LoggedOut
BY DEF Typing, TypeOK, LoggedOut, Unsure, LoggedIn

LEMMA Words == LoggedOut.what # "in" /\ Unsure.what # "in"
BY DEF LoggedOut, Unsure

LEMMA FlushKeepsLogin ==
    ASSUME Typing, Inv, LoginInv, NEW c \in Context, NEW d \in Data,
           at[c] \in DOMAIN After, c \notin open, UNCHANGED who,
           \A e \in Context : e # c => jar'[e] = jar[e],
           at[c] # "forget" => jar' = jar,
           at[c] = "forget" => jar'[c] = None,
           Prepared(c, d), Flush(c, d)
    PROVE  LoginInv'
<1>1. /\ Up(c) /\ data'[c] = d /\ (\A e \in Context : e # c => data'[e] = data[e])
      /\ d # Torn
  BY Writing, WholeFile DEF Up, Flush, Typing, TypeOK
<1>2. CASE ~Writes(c, d) /\ Wrote(c, TRUE) /\ UNCHANGED <<file, dirty, open, upsets>>
  <2>1. d = data[c] /\ at[c] \in {"erase", "forget", "leave"} /\ data' = data
    BY <1>1, <1>2, Writing DEF Writes, Flush, Typing, TypeOK
  <2>2. at' = [at EXCEPT ![c] = Goes(c, TRUE)] /\ said' = Says(c, TRUE)
    BY <1>2 DEF Wrote
  <2>3. /\ \A e \in Context : e # c => at'[e] = at[e]
        /\ at[c] = "erase" => at'[c] = "forget" /\ said' = said
        /\ at[c] = "forget" => at'[c] \in {"idle", "leave", "sso"} /\ said' = LoggedOut
        /\ at[c] = "leave" => at'[c] = "down" /\ said' = said
    BY <2>1, <2>2, Going DEF Says, Typing, TypeOK
  <2>4. at[c] \in {"erase", "forget"} => data[c].session = NoSession
    BY <1>1, <2>1 DEF Prepared, Forgetting, Inv
  <2>5. at[c] = "forget" => data[c].jar = None
    BY <2>1 DEF Prepared
  <2>6. Progress'
    BY <1>1, <1>2, <2>1, <2>3 DEF Progress, LoginInv
  <2>7. MatchingFile'
    BY <1>2, <2>1, <2>3 DEF MatchingFile, Tidy, Without, LoginInv
  <2>8. MatchingData'
    BY <1>2, <2>1, <2>3, <2>4 DEF MatchingData, Tidy, Without, Matches, Follows, LoginInv
  <2>9. Smooth /\ at[c] = "erase" => said.what # "in"
    BY <1>1, <2>4, Nobody, SaidIn DEF Kept, Holds, LoginInv
  <2>10. Deciding'
    <3>1. CASE at[c] = "forget"
      BY <1>2, <2>1, <2>3, <3>1, Words DEF Deciding, Smooth, Quiet
    <3>2. CASE at[c] # "forget"
      BY <1>2, <2>1, <2>3, <2>9, <3>2 DEF Deciding, Changing, Smooth, Quiet, LoginInv
    <3> QED BY <3>1, <3>2
  <2>11. Kept'
    <3>1. CASE at[c] = "forget"
      BY <2>3, <3>1, Words DEF Kept
    <3>2. CASE at[c] # "forget"
      BY <1>1, <1>2, <2>1, <2>3, <2>9, <3>2 DEF Kept, Smooth, Quiet, Up, LoginInv
    <3> QED BY <3>1, <3>2
  <2>12. Strict'
    <3> SUFFICES ASSUME upsets = {} PROVE Strict'
      BY <1>2 DEF Strict
    <3>1. Load(file) = data[c]
      BY <1>1, <1>2 DEF Synced, Quiet, Inv
    <3>2. at[c] = "leave" /\ data[c].session = NoSession => data[c].jar = None
      BY <1>1 DEF Strict, LoginInv
    <3>3. Load(file).session = NoSession /\ (\A e \in Context : ~Up(e)') => Load(file).jar = None
      BY <2>1, <2>3, <3>1, <3>2 DEF Up
    <3> QED BY <1>1, <1>2, <2>1, <2>3, <2>4, <2>5, <3>3, Nobody DEF Strict, Up, LoginInv
  <2> QED BY <2>6, <2>7, <2>8, <2>10, <2>11, <2>12 DEF LoginInv
<1>3. CASE /\ dirty' = [dirty EXCEPT ![c] = TRUE]
           /\ Wrote(c, ~Reports)
           /\ upsets' = upsets \cup {"write"}
           /\ UNCHANGED <<file, open>>
  <2>1. ~Quiet' /\ ~Tidy' /\ upsets' # {}
    BY <1>3 DEF Quiet, Tidy, Without
  <2>2. (~Reports) \in BOOLEAN /\ at' = [at EXCEPT ![c] = Goes(c, ~Reports)]
    BY <1>3 DEF Wrote, Reports
  <2>3. /\ \A e \in Context : e # c => at'[e] = at[e]
        /\ at'[c] = "gateway" => at[c] = "session"
        /\ at'[c] = "credentials" => at[c] = "cookies"
        /\ at'[c] \notin {"cookies", "session"}
    BY <2>2, Going, Writing DEF Typing, TypeOK
  <2>4. Progress'
    BY <1>1, <1>3, <2>3 DEF Progress, Prepared, LoginInv
  <2> QED BY <2>1, <2>4 DEF LoginInv, MatchingFile, MatchingData, Deciding, Kept, Strict, Smooth
<1>4. CASE /\ dirty' = [dirty EXCEPT ![c] = TRUE]
           /\ file' = Torn
           /\ open' = open \cup {c}
           /\ said' = IF at[c] \in {"session", "erase"} THEN Unsure ELSE said
           /\ UNCHANGED <<at, upsets>>
  <2>1. Load(file') = Empty
    BY <1>4 DEF Load
  <2> UNCHANGED at
    BY <1>4
  <2>2. Progress'
    <3>1. at[c] = "session" => jar'[c] = jar[c] /\ d.session = [username |-> who[c], account |-> jar[c]]
      BY DEF Prepared
    <3>2. at[c] = "cookies" =>
              /\ jar'[c] = jar[c] /\ d.jar = jar[c]
              /\ d.session = [username |-> who[c], account |-> jar[c]]
      BY DEF Prepared, Progress, LoginInv
    <3>3. at[c] = "credentials" =>
              /\ jar'[c] = jar[c] /\ d.jar = jar[c] /\ d.login = who[c]
              /\ d.session = [username |-> who[c], account |-> jar[c]]
      BY DEF Prepared, Progress, LoginInv
    <3>4. at[c] # "gateway"
      BY Writing
    <3> QED BY <1>1, <1>4, <3>1, <3>2, <3>3, <3>4 DEF Progress, LoginInv
  <2>3. MatchingFile'
    BY <2>1, EmptyIsData DEF MatchingFile, Matches, Clean
  <2>4. MatchingData'
    <3>1. at[c] = "forget" => data[c].session = NoSession
      BY DEF Forgetting, Inv
    <3> SUFFICES ASSUME Tidy, NEW e \in Context,
                        at[e] \in {"idle", "sso", "query", "leave", "erase", "forget"}
                 PROVE  (Matches(data[e]) /\ Follows(e))'
      BY <1>4 DEF MatchingData, Tidy, Without
    <3>2. Matches(data[e]) /\ Follows(e)
      BY DEF MatchingData, LoginInv
    <3>3. CASE e # c
      BY <1>1, <3>2, <3>3 DEF Matches, Follows
    <3>4. CASE e = c
      <4>1. CASE at[c] \in {"erase", "forget"}
        BY <1>1, <3>1, <3>4, <4>1 DEF Matches, Follows, Prepared
      <4>2. CASE at[c] \in {"query", "leave"}
        BY <1>1, <3>2, <3>4, <4>2 DEF Matches, Follows, Prepared
      <4> QED BY <3>4, <4>1, <4>2, Writing
    <3> QED BY <3>3, <3>4
  <2>5. Deciding'
    BY <1>1, <1>4, Words DEF Deciding, Changing, Smooth, Quiet, LoginInv
  <2>6. Kept'
    <3> SUFFICES ASSUME Smooth, said'.what = "in" PROVE Kept'
      BY <1>4 DEF Kept, Smooth, Quiet
    <3>1. said' = said /\ at[c] \notin {"session", "erase"}
      BY <1>4, Words
    <3>2. at[c] \in {"query", "leave"}
      BY <3>1, Writing DEF Deciding, Changing, LoginInv
    <3>3. Holds(data[c], said.user) /\ jar[c] = data[c].jar
      BY <1>1, <3>1, <3>2 DEF Kept, LoginInv
    <3>4. Holds(d, said.user) /\ jar[c] = d.jar
      BY <3>2, <3>3 DEF Prepared, Holds
    <3> QED BY <1>1, <1>4, <3>1, <3>2, <3>4 DEF Kept, Up, LoginInv
  <2>7. Strict'
    <3> SUFFICES ASSUME upsets = {} PROVE Strict'
      BY <1>4 DEF Strict
    <3>1. Up(c)'
      BY <1>1, <1>4 DEF Up
    <3>2. d.session.username = d.session.account
      BY <1>1, Writing, Nobody DEF Prepared, Strict, LoginInv
    <3>3. Empty.session.username = Empty.session.account
      BY EmptyIsData, Nobody DEF Clean
    <3>4. at[c] \in {"query", "leave"} =>
              jar[c] = d.jar /\ (d.session = NoSession => jar[c] = None)
      BY <1>1 DEF Prepared, Strict, LoginInv
    <3>5. at[c] # "sso" /\ (at[c] = "session" => jar[c] = who[c])
      BY <1>1, Writing DEF Strict, LoginInv
    <3> QED BY <1>1, <1>4, <2>1, <3>1, <3>2, <3>3, <3>4, <3>5, Writing DEF Strict, Up, LoginInv
  <2> QED BY <2>2, <2>3, <2>4, <2>5, <2>6, <2>7 DEF LoginInv
<1> QED BY <1>2, <1>3, <1>4 DEF Flush

LEMMA FillKeepsLogin ==
    ASSUME Typing, Inv, LoginInv, NEW c \in Context, Fill(c)
    PROVE  LoginInv'
<1>1. /\ at[c] \in DOMAIN After /\ c \in open /\ open' = open \ {c} /\ UNCHANGED <<data, jar, who>>
      /\ Up(c) /\ data[c] \in Data
  BY Writing DEF Fill, Typing, OpenWrites, TypeOK, Up
<1>2. /\ at[c] \in {"session", "cookies", "credentials"} =>
             data[c].session = [username |-> who[c], account |-> jar[c]]
      /\ at[c] \in {"cookies", "credentials"} => data[c].jar = jar[c]
      /\ at[c] = "credentials" => data[c].login = who[c] /\ who[c] \in User
      /\ at[c] \in {"erase", "forget"} => data[c].session = NoSession
      /\ at[c] = "forget" => jar[c] = None /\ data[c].jar = None
  BY <1>1 DEF Progress, Forgetting, Inv, LoginInv, Typing, Named, TypeOK, Owner
<1>3. CASE /\ Wrote(c, ~Reports)
           /\ upsets' = upsets \cup {"write"}
           /\ UNCHANGED <<file, dirty>>
  <2>1. ~Quiet' /\ ~Tidy' /\ upsets' # {}
    BY <1>3 DEF Quiet, Tidy, Without
  <2>2. (~Reports) \in BOOLEAN /\ at' = [at EXCEPT ![c] = Goes(c, ~Reports)]
    BY <1>3 DEF Wrote, Reports
  <2>3. /\ \A e \in Context : e # c => at'[e] = at[e]
        /\ at'[c] = "gateway" => at[c] = "session"
        /\ at'[c] = "credentials" => at[c] = "cookies"
        /\ at'[c] \notin {"cookies", "session"}
    BY <1>1, <2>2, Going, Writing DEF Typing, TypeOK
  <2>4. Progress'
    BY <1>1, <1>2, <2>3 DEF Progress, LoginInv
  <2> QED BY <2>1, <2>4 DEF LoginInv, MatchingFile, MatchingData, Deciding, Kept, Strict, Smooth
<1>4. CASE /\ file' = data[c]
           /\ dirty' = [dirty EXCEPT ![c] = FALSE]
           /\ Wrote(c, TRUE)
           /\ UNCHANGED upsets
  <2>1. /\ at' = [at EXCEPT ![c] = Goes(c, TRUE)] /\ said' = Says(c, TRUE)
        /\ file' # Torn /\ Load(file') = data[c]
    BY <1>1, <1>4, WholeFile DEF Wrote, Typing, TypeOK
  <2>2. \A e \in Context : e # c => at'[e] = at[e]
    BY <2>1 DEF Typing, TypeOK
  <2>3. /\ at[c] = "session" => at'[c] = "gateway" /\ said' = said
        /\ at[c] = "cookies" => at'[c] = "credentials" /\ said' = said
        /\ at[c] = "credentials" => at'[c] \in {"idle", "leave"} /\ said' = LoggedIn(who[c])
        /\ at[c] = "erase" => at'[c] = "forget" /\ said' = said
        /\ at[c] = "forget" => at'[c] \in {"idle", "leave", "sso"} /\ said' = LoggedOut
        /\ at[c] = "query" => at'[c] \in {"idle", "leave"} /\ said' = said
        /\ at[c] = "leave" => at'[c] = "down" /\ said' = said
    BY <1>1, <2>1, Going DEF Says, Typing, TypeOK
  <2>4. Progress'
    BY <1>1, <1>2, <2>2, <2>3, Writing DEF Progress, LoginInv
  <2>5. Tidy /\ at[c] # "session" => Matches(data[c]) /\ Follows(c)
    BY <1>1, <1>2, Writing DEF MatchingData, Matches, Follows, LoginInv
  <2>6. MatchingFile'
    <3>1. CASE at[c] = "session"
      BY <2>3, <3>1 DEF MatchingFile
    <3>2. CASE at[c] # "session"
      BY <1>4, <2>1, <2>5, <3>2 DEF MatchingFile, Matches, Tidy, Without
    <3> QED BY <3>1, <3>2
  <2>7. MatchingData'
    <3> SUFFICES ASSUME Tidy, NEW e \in Context,
                        at'[e] \in {"idle", "sso", "query", "leave", "erase", "forget"}
                 PROVE  (Matches(data[e]) /\ Follows(e))'
      BY <1>4 DEF MatchingData, Tidy, Without
    <3>1. CASE e # c
      BY <1>1, <2>2, <3>1 DEF MatchingData, Matches, Follows, LoginInv
    <3>2. CASE e = c
      BY <1>1, <2>3, <2>5, <3>2 DEF Matches, Follows
    <3> QED BY <3>1, <3>2
  <2>8. Smooth => \A e \in Context : Up(e) => e = c
    BY <1>1 DEF Alone, Smooth, Quiet, Inv
  <2>9. Smooth /\ said.what = "in" => at[c] \in {"query", "leave"}
    BY <1>1, Writing DEF Deciding, Changing, LoginInv
  <2>10. Deciding'
    <3> SUFFICES ASSUME Smooth PROVE Deciding'
      BY <1>4 DEF Deciding, Smooth, Quiet
    <3>1. \A e \in Context : (Changing(e) \/ at[e] = "forget")' => e = c
      BY <1>1, <2>2, <2>8 DEF Changing, Up
    <3>2. (Changing(c) \/ at[c] = "forget")' => said'.what # "in"
      BY <1>1, <2>3, <2>9, Writing DEF Changing
    <3> QED BY <3>1, <3>2 DEF Deciding
  <2>11. Kept'
    <3> SUFFICES ASSUME Smooth, said'.what = "in" PROVE Kept'
      BY <1>4 DEF Kept, Smooth, Quiet
    <3>1. Holds(data[c], said'.user) /\ jar[c] = data[c].jar
      <4>1. CASE at[c] = "credentials"
        BY <1>2, <2>3, <4>1 DEF Holds, LoggedIn
      <4>2. CASE at[c] # "credentials"
        <5>1. said' = said
          BY <1>1, <2>3, <4>2, Words, Writing
        <5> QED BY <1>1, <2>9, <5>1 DEF Kept, LoginInv
      <4> QED BY <4>1, <4>2
    <3>2. \A e \in Context : Up(e)' => e = c
      BY <1>1, <2>2, <2>8 DEF Up
    <3> QED BY <1>1, <1>4, <2>1, <3>1, <3>2 DEF Kept
  <2>12. Strict'
    <3> SUFFICES ASSUME upsets = {} PROVE Strict'
      BY <1>4 DEF Strict
    <3>1. \A e \in Context : Up(e)' => e = c
      BY <1>1, <2>2, <2>8 DEF Up, Smooth, Quiet
    <3>2. data[c].session.username = data[c].session.account
      BY <1>1 DEF Strict, LoginInv
    <3>3. at'[c] = "sso" => jar[c] = None /\ data[c].jar = None
      BY <1>1, <1>2, <2>3, Writing
    <3>4. at'[c] \in {"idle", "query", "leave", "down"} =>
              jar[c] = data[c].jar /\ (data[c].session = NoSession => jar[c] = None)
      <4>1. CASE at[c] = "credentials"
        BY <1>2, <4>1, Nobody
      <4>2. CASE at[c] \in {"query", "leave"}
        BY <1>1, <4>2 DEF Strict, LoginInv
      <4> QED BY <1>1, <1>2, <2>3, <4>1, <4>2, Writing
    <3>5. at'[c] # "session"
      BY <1>1, <2>3, Writing
    <3>6. ~Up(c)' => at'[c] = "down"
      BY DEF Up
    <3> QED BY <1>1, <2>1, <3>1, <3>2, <3>3, <3>4, <3>5, <3>6 DEF Strict
  <2> QED BY <2>4, <2>6, <2>7, <2>10, <2>11, <2>12 DEF LoginInv
<1> QED BY <1>3, <1>4 DEF Fill

\* The steps between writes.
LEMMA MoveKeepsLogin ==
    ASSUME Typing, Inv, LoginInv, NEW c \in Context, at[c] \in {"idle", "sso", "gateway"},
           UNCHANGED <<file, data, open>>,
           NEW s \in {"idle", "leave", "query", "erase", "sso", "session", "cookies"},
           at' = [at EXCEPT ![c] = s],
           \A e \in Context : e # c => jar'[e] = jar[e] /\ who'[e] = who[e],
           upsets \subseteq upsets',
           said' \in {said, Unsure},
           jar' = jar \/ s = "session" \/ ("half" \in upsets' /\ said' = Unsure),
           "half" \in upsets' \/ (s = "cookies" <=> at[c] = "gateway"),
           s = "cookies" => at[c] = "gateway" /\ who' = who /\ jar' = jar,
           s = "session" => /\ at[c] = "sso" /\ who' = who
                            /\ jar'[c] = who[c] \/ (jar' = jar /\ jar[c] # None),
           s = "sso" => at[c] = "idle" /\ (upsets' = {} => data[c].session = NoSession)
    PROVE  LoginInv'
<1>1. /\ at'[c] = s /\ (\A e \in Context : e # c => at'[e] = at[e])
      /\ c \notin open /\ Up(c)
      /\ Smooth' => Smooth
      /\ Tidy' => Tidy /\ "half" \notin upsets'
  BY Writing DEF Typing, TypeOK, OpenWrites, Up, Smooth, Quiet, Tidy, Without
<1>2. Progress'
  BY <1>1 DEF Progress, LoginInv
<1>3. MatchingFile'
  <2> SUFFICES ASSUME Tidy' PROVE MatchingFile'
    BY DEF MatchingFile
  <2>1. Matches(Load(file)) \/ \E e \in Context : at[e] \in {"gateway", "cookies"}
    BY <1>1 DEF MatchingFile, LoginInv
  <2>2. ASSUME NEW e \in Context, at[e] \in {"gateway", "cookies"}
        PROVE  at'[e] \in {"gateway", "cookies"}
    BY <1>1, <2>2
  <2> QED BY <2>1, <2>2 DEF MatchingFile, Matches
<1>4. MatchingData'
  <2> SUFFICES ASSUME Tidy', NEW e \in Context,
                      at'[e] \in {"idle", "sso", "query", "leave", "erase", "forget"}
               PROVE  (Matches(data[e]) /\ Follows(e))'
    BY DEF MatchingData
  <2>1. at[e] \in {"idle", "sso", "query", "leave", "erase", "forget"} /\ jar'[e] = jar[e]
    BY <1>1
  <2> QED BY <1>1, <2>1 DEF MatchingData, Matches, Follows, LoginInv
<1>5. Deciding'
  <2> SUFFICES ASSUME Smooth' PROVE Deciding'
    BY DEF Deciding
  <2>1. ASSUME NEW e \in Context, (Changing(e) \/ at[e] = "forget")'
        PROVE  Changing(e) \/ at[e] = "forget"
    BY <1>1, <2>1 DEF Changing
  <2> QED BY <1>1, <2>1, Words DEF Deciding, LoginInv
<1>6. Kept'
  <2> SUFFICES ASSUME Smooth', said'.what = "in" PROVE Kept'
    BY DEF Kept
  <2>1. said' = said /\ (jar' = jar \/ s = "session")
    BY Words
  <2> QED BY <1>1, <2>1 DEF Kept, Holds, Up, LoginInv
<1>7. Strict'
  <2> SUFFICES ASSUME upsets' = {} PROVE Strict'
    BY DEF Strict
  <2>1. upsets = {} /\ (jar' = jar \/ s = "session")
    OBVIOUS
  <2>2. at[c] = "idle" /\ data[c].session = NoSession => jar[c] = None /\ data[c].jar = None
    BY <1>1, <2>1 DEF Strict, LoginInv
  <2>3. at[c] \in {"idle", "sso"} =>
            jar[c] = data[c].jar /\ (data[c].session = NoSession => jar[c] = None)
    BY <1>1, <2>1 DEF Strict, LoginInv
  <2>4. s = "session" => jar'[c] = who'[c]
    BY <1>1, <2>1 DEF Strict, LoginInv
  <2>5. Up(c)'
    BY <1>1 DEF Up
  <2> QED BY <1>1, <2>1, <2>2, <2>3, <2>4, <2>5 DEF Strict, Up, LoginInv
<1> QED BY <1>2, <1>3, <1>4, <1>5, <1>6, <1>7 DEF LoginInv

LEMMA LoginStep ==
    ASSUME Typing, Inv, LoginInv, [Next]_vars
    PROVE  LoginInv'
<1>1. CASE UNCHANGED vars
  BY <1>1 DEF vars, memory, control, history, LoginInv, Progress, MatchingFile, MatchingData,
              Deciding, Kept, Strict, Smooth, Quiet, Tidy, Without, Matches, Follows, Holds, Up,
              Changing
<1>2. SUFFICES ASSUME NEW c \in Context, Step(c) PROVE LoginInv'
  BY <1>1 DEF Next
<1>3. data[c] \in Data /\ who[c] \in Owner /\ jar[c] \in Owner
  BY DEF Typing, TypeOK
<1>4. Rest(c) \in {"idle", "leave"}
  BY Resting
<1>5. CASE Build(c)
  <2>1. /\ c \notin open /\ ~Up(c) /\ at'[c] = "idle" /\ Up(c)'
        /\ data'[c] = Load(file) /\ jar'[c] = Load(file).jar
        /\ \A e \in Context : e # c => at'[e] = at[e] /\ data'[e] = data[e] /\ jar'[e] = jar[e] /\ who'[e] = who[e]
        /\ upsets' = upsets \cup Company
        /\ UNCHANGED <<file, open, said>>
    BY <1>5, Writing DEF Build, Typing, TypeOK, OpenWrites, Up
  <2>2. at[c] = "down"
    BY <1>5 DEF Build
  <2>3. Tidy' => Tidy /\ \A e \in Context : at[e] \in {"down", "idle"}
    BY <2>1 DEF Company, Tidy, Without
  <2>4. Smooth' => Smooth /\ \A e \in Context : ~Up(e)
    BY <2>1 DEF Company, Smooth, Quiet, Up
  <2>5. upsets' = {} => upsets = {} /\ Smooth' /\ Tidy'
    BY <2>1 DEF Smooth, Quiet, Tidy, Without
  <2>6. Progress'
    BY <2>1 DEF Progress, LoginInv
  <2>7. Tidy' => Matches(Load(file))
    BY <2>3 DEF MatchingFile, LoginInv
  <2>8. MatchingFile'
    BY <2>1, <2>7 DEF MatchingFile, Matches
  <2>9. MatchingData'
    BY <2>1, <2>3, <2>7 DEF MatchingData, Matches, Follows, LoginInv
  <2>10. Deciding'
    BY <2>1, <2>4 DEF Deciding, Changing, LoginInv
  <2>11. Kept'
    <3> SUFFICES ASSUME Smooth', said.what = "in" PROVE Kept'
      BY <2>1 DEF Kept
    <3>1. open = {}
      BY <2>4, Writing DEF Typing, TypeOK, OpenWrites, Up
    <3>2. file # Torn /\ Holds(file, said.user)
      BY <2>4, <3>1 DEF Kept, LoginInv
    <3>3. \A e \in Context : Up(e)' => e = c
      BY <2>1, <2>4 DEF Up
    <3> QED BY <2>1, <3>2, <3>3 DEF Kept, Holds, Load
  <2>12. Strict'
    <3> SUFFICES ASSUME upsets' = {} PROVE Strict'
      BY DEF Strict
    <3>1. \A e \in Context : Up(e)' => e = c
      BY <2>1, <2>4, <2>5 DEF Up
    <3>2. /\ Load(file).session.username = Load(file).session.account
          /\ Load(file).session = NoSession => Load(file).jar = None
      BY <2>4, <2>5 DEF Strict, LoginInv
    <3> QED BY <2>1, <3>1, <3>2 DEF Strict
  <2> QED BY <2>6, <2>8, <2>9, <2>10, <2>11, <2>12 DEF LoginInv
<1>6. CASE Kill(c)
  <2>1. /\ at'[c] = "down" /\ ~Up(c)' /\ (\A e \in Context : e # c => at'[e] = at[e])
        /\ open' = open \ {c} /\ UNCHANGED <<file, data, jar, who, said>> /\ Up(c)
        /\ upsets' = IF at[c] = "idle" THEN upsets ELSE upsets \cup {"killed"}
    BY <1>6 DEF Kill, memory, Typing, TypeOK, Up
  <2>2. "killed" \notin upsets' => at[c] = "idle" /\ c \notin open /\ upsets' = upsets
    BY <2>1, Writing DEF Typing, OpenWrites
  <2>3. /\ Tidy' => Tidy /\ "killed" \notin upsets'
        /\ Smooth' => Smooth /\ "killed" \notin upsets'
    BY <2>1 DEF Tidy, Without, Smooth, Quiet
  <2>4. Progress'
    BY <2>1 DEF Progress, LoginInv
  <2>5. MatchingFile'
    <3> SUFFICES ASSUME Tidy' PROVE MatchingFile'
      BY DEF MatchingFile
    <3>1. Matches(Load(file)) \/ \E e \in Context : at[e] \in {"gateway", "cookies"}
      BY <2>3 DEF MatchingFile, LoginInv
    <3>2. ASSUME NEW e \in Context, at[e] \in {"gateway", "cookies"}
          PROVE  at'[e] \in {"gateway", "cookies"}
      BY <2>1, <2>2, <2>3, <3>2
    <3> QED BY <2>1, <3>1, <3>2 DEF MatchingFile, Matches
  <2>6. MatchingData'
    BY <2>1, <2>3 DEF MatchingData, Matches, Follows, LoginInv
  <2>7. Deciding'
    BY <2>1, <2>3 DEF Deciding, Changing, LoginInv
  <2>8. Kept'
    BY <2>1, <2>2, <2>3 DEF Kept, Holds, Up, LoginInv
  <2>9. Strict'
    <3> SUFFICES ASSUME upsets' = {} PROVE Strict'
      BY DEF Strict
    <3>1. upsets = {} /\ at[c] = "idle" /\ c \notin open
      BY <2>2
    <3>2. Load(file) = data[c]
      BY <2>1, <3>1 DEF Synced, Quiet, Inv
    <3>3. data[c].session = NoSession => data[c].jar = None
      BY <2>1, <3>1 DEF Strict, LoginInv
    <3> QED BY <2>1, <3>1, <3>2, <3>3 DEF Strict, Up, LoginInv
  <2> QED BY <2>4, <2>5, <2>6, <2>7, <2>8, <2>9 DEF LoginInv
<1>7. CASE Close(c)
  BY <1>7, MoveKeepsLogin DEF Close, memory, history
<1>8. CASE \E u \in User : Login(c, u)
  <2>1. PICK u \in User : Login(c, u)
    BY <1>8
  <2>2. \A e \in Context : e # c => who'[e] = who[e]
    BY <2>1 DEF Login, Typing, TypeOK
  <2>3. upsets \subseteq upsets' /\ (upsets' = {} => data[c].session = NoSession)
    BY <2>1 DEF Login
  <2> QED BY <2>1, <2>2, <2>3, MoveKeepsLogin DEF Login, memory
<1>9. CASE Relogin(c)
  <2>1. \A e \in Context : e # c => who'[e] = who[e]
    BY <1>9 DEF Relogin, Typing, TypeOK
  <2> QED BY <1>9, <2>1, MoveKeepsLogin DEF Relogin, memory, history
<1>10. CASE SsoAnswers(c)
  <2>1. /\ \A e \in Context : e # c => jar'[e] = jar[e]
        /\ jar'[c] = who[c] \/ (jar' = jar /\ jar[c] # None)
    BY <1>10 DEF SsoAnswers, SignedIn, Honoured, Typing, TypeOK
  <2> QED BY <1>10, <2>1, MoveKeepsLogin DEF SsoAnswers, history
<1>11. CASE SsoRefuses(c)
  BY <1>4, <1>11, MoveKeepsLogin DEF SsoRefuses, End, memory, history
<1>12. CASE UcFails(c)
  <2>1. \A e \in Context : e # c => jar'[e] = jar[e]
    BY <1>12 DEF UcFails, SignedIn, Typing, TypeOK
  <2> QED BY <1>4, <1>12, <2>1, MoveKeepsLogin DEF UcFails, End
<1>13. CASE GatewayOpens(c)
  BY <1>13, MoveKeepsLogin DEF GatewayOpens, memory, history
<1>14. CASE GatewayFails(c)
  BY <1>4, <1>14, MoveKeepsLogin DEF GatewayFails, End, memory
<1>15. CASE Logout(c)
  <2>1. \A e \in Context : e # c => who'[e] = who[e]
    BY <1>15 DEF Logout, Typing, TypeOK
  <2> QED BY <1>15, <2>1, MoveKeepsLogin DEF Logout, memory, history
<1>16. CASE Query(c)
  BY <1>16, MoveKeepsLogin DEF Query, memory, history
<1>17. CASE SaveSession(c)
  <2> DEFINE d == [data[c] EXCEPT !.session = [username |-> who[c], account |-> jar[c]]]
  <2>1. who[c] \in User /\ jar[c] \in User
    BY <1>3, <1>17 DEF SaveSession, May, Typing, Named, Owner
  <2>2. d \in Data /\ d.session = [username |-> who[c], account |-> jar[c]]
    BY <1>3, <2>1 DEF Data, Session
  <2>3. at[c] = "session" /\ c \notin open /\ Flush(c, d) /\ UNCHANGED <<jar, who>>
    BY <1>17 DEF SaveSession, May
  <2>4. Prepared(c, d)
    BY <2>2, <2>3 DEF Prepared
  <2> HIDE DEF d
  <2> QED BY <2>2, <2>3, <2>4, FlushKeepsLogin, Writing
<1>18. CASE SaveCookies(c) \/ QueryAnswered(c)
  <2> DEFINE d == [data[c] EXCEPT !.jar = jar[c]]
  <2>1. d \in Data /\ d.jar = jar[c] /\ d.session = data[c].session /\ d.login = data[c].login
    BY <1>3 DEF Data
  <2>2. at[c] \in {"cookies", "query"} /\ c \notin open /\ Flush(c, d) /\ UNCHANGED <<jar, who>>
    BY <1>18 DEF SaveCookies, QueryAnswered, Persist, May
  <2>3. Prepared(c, d)
    BY <2>1, <2>2 DEF Prepared
  <2> HIDE DEF d
  <2> QED BY <2>1, <2>2, <2>3, FlushKeepsLogin, Writing
<1>19. CASE SaveCredentials(c)
  <2> DEFINE d == [data[c] EXCEPT !.login = who[c]]
  <2>1. d \in Data /\ d.login = who[c] /\ d.session = data[c].session /\ d.jar = data[c].jar
    BY <1>3 DEF Data
  <2>2. at[c] = "credentials" /\ c \notin open /\ Flush(c, d) /\ UNCHANGED <<jar, who>>
    BY <1>19 DEF SaveCredentials, May
  <2>3. Prepared(c, d)
    BY <2>1, <2>2 DEF Prepared
  <2> HIDE DEF d
  <2> QED BY <2>1, <2>2, <2>3, FlushKeepsLogin, Writing
<1>20. CASE ClearSession(c)
  <2> DEFINE d == [data[c] EXCEPT !.session = NoSession]
  <2>1. d \in Data /\ d.session = NoSession
    BY <1>3 DEF Data
  <2>2. at[c] = "erase" /\ c \notin open /\ Flush(c, d) /\ UNCHANGED <<jar, who>>
    BY <1>20 DEF ClearSession, May
  <2>3. Prepared(c, d)
    BY <2>1, <2>2 DEF Prepared
  <2> HIDE DEF d
  <2> QED BY <2>1, <2>2, <2>3, FlushKeepsLogin, Writing
<1>21. CASE ClearCookies(c)
  <2> DEFINE d == [data[c] EXCEPT !.jar = None]
  <2>1. d \in Data /\ d.jar = None /\ d.session = data[c].session
    BY <1>3 DEF Data, Owner
  <2>2. /\ at[c] = "forget" /\ c \notin open /\ Flush(c, d) /\ UNCHANGED who
        /\ jar'[c] = None /\ \A e \in Context : e # c => jar'[e] = jar[e]
    BY <1>21 DEF ClearCookies, May, Typing, TypeOK
  <2>3. Prepared(c, d)
    BY <2>1, <2>2 DEF Prepared
  <2> HIDE DEF d
  <2> QED BY <2>1, <2>2, <2>3, FlushKeepsLogin, Writing
<1>22. CASE Leave(c)
  <2>1. at[c] = "leave" /\ c \notin open /\ Flush(c, data[c]) /\ UNCHANGED <<jar, who>>
    BY <1>22 DEF Leave, May
  <2>2. Prepared(c, data[c])
    BY <2>1 DEF Prepared
  <2> QED BY <1>3, <2>1, <2>2, FlushKeepsLogin, Writing
<1> QED
  BY <1>2, <1>5, <1>6, <1>7, <1>8, <1>9, <1>10, <1>11, <1>12, <1>13, <1>14, <1>15, <1>16, <1>17,
     <1>18, <1>19, <1>20, <1>21, <1>22, FillKeepsLogin DEF Step

LEMMA Remembers == Spec => [](Typing /\ Inv /\ LoginInv)
<1>1. Init => Typing /\ Inv
  BY AtFirst
<1>2. Init => LoginInv
  <2>1. SUFFICES ASSUME Init PROVE LoginInv
    OBVIOUS
  <2>2. \A c \in Context : at[c] = "down" /\ ~Up(c) /\ c \notin open
    BY <2>1 DEF Init, Up
  <2>3. Load(file) = Empty /\ said.what # "in"
    BY <2>1, EmptyIsData, WholeFile, Words DEF Init
  <2> QED BY <2>2, <2>3, EmptyIsData, Nobody
       DEF LoginInv, Progress, MatchingFile, MatchingData, Deciding, Changing, Kept, Strict,
           Matches, Clean
<1>3. Typing /\ Inv /\ LoginInv /\ [Next]_vars => (Typing /\ Inv /\ LoginInv)'
  BY TypingStep, InvStep, LoginStep
<1> QED BY <1>1, <1>2, <1>3, PTL DEF Spec

\* What a login has reported as saved is in the file until the next login or
\* logout, as long as contexts do not overlap, are not killed in the middle of
\* a command, and writes do not fail: queries, closing and building a context
\* write back the session, the cookies and the credentials that go together.
THEOREM LoginLasts == Spec => []LoginIsKept
<1>1. Inv /\ LoginInv => LoginIsKept
  BY DEF LoginInv, Kept, Holds, Smooth, Quiet, LoginIsKept, Without
<1> QED BY <1>1, Remembers, PTL

\* However contexts overlap, when all are at rest the session in the file and
\* the cookies beside it belong to the same account, unless a context was built
\* in the middle of another's command or a command was cut short.
THEOREM NeverMixed == Spec => []CookiesMatchSession
<1>1. LoginInv => CookiesMatchSession
  BY DEF LoginInv, MatchingFile, Tidy, Matches, CookiesMatchSession, Without
<1> QED BY <1>1, Remembers, PTL

\* Without any upset the account that is saved is the one that was typed.
THEOREM NoStranger == Spec => []SameAccount
<1>1. LoginInv => SameAccount
  BY DEF LoginInv, Strict, SameAccount
<1> QED BY <1>1, Remembers, PTL

\* Session, cookies and name on disk are of one account.
THEOREM OneAccountOnDisk == Spec => []OneAccount
<1>1. CookiesMatchSession /\ SameAccount => OneAccount
  BY DEF OneAccount
<1> QED BY <1>1, NeverMixed, NoStranger, PTL

===============================================================================
