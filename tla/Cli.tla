---------------------------------- MODULE Cli ----------------------------------
(***************************************************************************)
(* One run of ubaa after the other: the command line is parsed, the        *)
(* configuration and the session are read, the command is refused or goes  *)
(* on, asks the campus or changes a file, and ends with an exit code.      *)
(* Meanwhile the campus ends logins, another run reads the configuration   *)
(* and writes it back, and either run may be killed.  What the files of    *)
(* the session hold is SessionStore, what an answer is read as is          *)
(* CampusSystems and Downstream.                                           *)
(***************************************************************************)
EXTENDS CliCommands, LiveDownload

VARIABLES
    config,         \* the file with the connection mode: "vpn", "direct", "torn"
    session,        \* the mode the stored session was opened in, or "none"
    honoured,       \* the campus still honours that login
    saved,          \* the mode saved with the credentials, or "none"
    token,          \* of the recordings site, among the stored cookies: "none", "good", "stale"
    pc,             \* "idle", "asking", "login", "saving", "writing", "downloading", "done"
    cmd,            \* the command
    given,          \* its options, kept while they matter: of a command refused for what it lacks
    over,           \* its --mode, or "none"
    conn,           \* the mode this run works in
    mine,           \* the connection mode this run will save
    outdated,       \* since it was read another run has set the mode, or was writing the file then
    exit,           \* its exit code
    why,            \* why it was refused before it began, or was sent to log in
    touched,        \* history: what it changed
    other,          \* another run that saves the configuration
    intended,       \* history: the mode last set by a command that sets it, or what came between:
                    \* "failed" (a write that was cut short, or never made), "overridden" (config set
                    \* with another --mode), "raced" (an outdated copy written over a mode just set)
    unsaved         \* history: the credentials of the last login could not be stored

line == <<cmd, given, over>>
disk == <<config, session, saved, token>>
copy == <<mine, outdated>>
run == <<pc, line, conn, copy, exit, why, touched>>
world == <<honoured, other>>
history == <<intended, unsaved>>
vars == <<disk, world, run, history, live>>

Mode == {"vpn", "direct"}
Exits == {"Ok", "InvalidArgument", "AuthRequired", "Network", "Parse", "General", "Storage"}
\* Why a command does not begin, and why one that asks is sent to log in: the
\* login it carries is not good, a system turns it away in its own right, the
\* token of the recordings site is old or not to be had, no password is saved.
Refusals == {"malformed", "sessionless", "missing", "unconfirmed", "loggedin"}
Rebuffs == {"login", "system", "token", "password"}
Reasons == {""} \cup Refusals \cup Rebuffs
Others == [at : {"none", "read", "writing"}, sets : BOOLEAN, mode : Mode, outdated : BOOLEAN]
NoOther == [at |-> "none", sets |-> FALSE, mode |-> "vpn", outdated |-> FALSE]

\* Mutant: one that cannot be read has no mode.
Load_Empty(file) == IF file \in Mode THEN file ELSE ""
\* CliConfig::load: a configuration that is missing or cannot be read is the
\* default one.
Load(file) == IF file = "direct" THEN "direct" ELSE "vpn"

TypeOK ==
    /\ config \in Mode \cup {"torn"} /\ session \in Mode \cup {"none"} /\ saved \in Mode \cup {"none"}
    /\ token \in {"none", "good", "stale"}
    /\ honoured \in BOOLEAN /\ (honoured => session # "none")
    /\ pc \in {"idle", "asking", "login", "saving", "writing", "downloading", "done"}
    /\ cmd \in Commands /\ over \in Mode \cup {"none"} /\ conn \in Mode
    /\ mine \in Mode /\ outdated \in BOOLEAN /\ other \in Others
    /\ exit \in Exits \cup {"none"} /\ (exit # "none" <=> pc = "done")
    /\ why \in Reasons
    /\ (why \in Refusals => exit \in {"InvalidArgument", "AuthRequired"} /\ touched = {})
    /\ (why \in Rebuffs => exit = "AuthRequired")
    /\ touched \subseteq {"campus", "config", "session", "td"}
    /\ intended \in Mode \cup {"failed", "overridden", "raced"} /\ unsaved \in BOOLEAN
    /\ LiveTypeOK /\ (step # "off" => pc = "downloading")

Idle == /\ pc = "idle" /\ cmd = "help" /\ given = {} /\ over = "none" /\ conn = "vpn"
        /\ mine = "vpn" /\ outdated = FALSE /\ exit = "none" /\ why = "" /\ touched = {}
Init ==
    /\ config \in Mode /\ intended = config /\ unsaved = FALSE
    /\ session \in Mode \cup {"none"} /\ saved = session /\ honoured = (session # "none")
    /\ token = "none" /\ other = NoOther
    /\ Idle /\ LiveOff

Ends(code) == pc' = "done" /\ exit' = code
Goes(where) == pc' = where /\ exit' = "none"

-----------------------------------------------------------------------------
(* A run starts.  Nothing else happens between the parsing of the command  *)
(* line and the first request or the first write.                          *)

\* The options of a command, by its handler and by its help.
Known(c) == (UNION Needs(c) \cup (IF c \in DOMAIN Required THEN Required[c] ELSE {})) \ {"saved"}
\* The saved credentials stand in for typed ones where the code takes them.
Options(g) == IF saved = "none" THEN g ELSE g \cup {"saved"}

\* restore_session_for_command: is the stored session looked for?
SessionWanted(c, g, o) == o = "none" /\ WantsSession(c, g)

\* The mode of --mode, of the saved credentials, of the session, of the configuration.
\* Mutant: the restored session does not set the mode.
Chosen_Configured(c, g, o) ==
    CASE o # "none" -> o
      [] o = "none" /\ c = "relogin" /\ saved # "none" -> saved
      [] OTHER -> Load(config)
Chosen(c, g, o) ==
    CASE o # "none" -> o
      [] o = "none" /\ c = "relogin" /\ saved # "none" -> saved
      [] SessionWanted(c, g, o) /\ session # "none" -> session
      [] OTHER -> Load(config)

\* What speaks against a command line, confirmed or not (yes).
Objections(c, g, o, yes) ==
    IF SessionWanted(c, g, o) /\ session = "none" THEN {"sessionless"}
    ELSE (IF Holds(Needs(c), Options(g)) THEN {} ELSE {"missing"})
         \cup (IF Confirmed(c) /\ ~yes THEN {"unconfirmed"} ELSE {})
         \cup (IF c = "login" /\ session # "none" THEN {"loggedin"} ELSE {})
         \cup (IF c = "whoami" /\ session = "none" THEN {"sessionless"} ELSE {})

\* parse_args refuses an option it does not know or a value out of range.
Malformed(c) ==
    /\ pc = "idle"
    /\ cmd' = c
    /\ why' = "malformed"
    /\ Ends("InvalidArgument")
    /\ UNCHANGED <<disk, world, given, over, conn, copy, touched, history, live>>

Refused(c, g, o, yes) ==
    /\ pc = "idle"
    /\ cmd' = c
    /\ why' \in Objections(c, g, o, yes)
    /\ given' = IF why' = "missing" THEN g ELSE {}
    /\ Ends(IF why' = "sessionless" THEN "AuthRequired" ELSE "InvalidArgument")
    /\ UNCHANGED <<disk, world, over, conn, copy, touched, history, live>>

Begins(c, g, o) ==
    /\ pc = "idle"
    /\ Objections(c, g, o, TRUE) = {}
    /\ cmd' = c
    /\ over' = o
    /\ conn' = Chosen(c, g, o)
    /\ UNCHANGED <<other, history, config, saved, given, why>>

Show(c, g, o) ==
    /\ Does(c) \in {"shows", "recalls"}
    /\ Begins(c, g, o)
    /\ Ends("Ok")
    /\ UNCHANGED <<session, honoured, token, copy, touched, live>>

\* cmd_logout: the session and its cookies go; the campus is not told.
Logout(c, g, o) ==
    /\ Does(c) = "forgets"
    /\ Begins(c, g, o)
    /\ session' = "none"
    /\ token' = "none"
    /\ honoured' = FALSE
    /\ touched' = {"session"}
    /\ Ends("Ok")
    /\ UNCHANGED <<copy, live>>

\* prepare_relogin_if_needed: relogin gives up the session before it asks for another.
StartLogin(c, g, o) ==
    /\ Does(c) = "login"
    /\ Begins(c, g, o)
    /\ session' = "none"
    /\ token' = IF c = "relogin" THEN "none" ELSE token
    /\ honoured' = FALSE
    /\ touched' = IF c = "relogin" THEN {"session"} ELSE {}
    /\ Goes("login")
    /\ UNCHANGED <<copy, live>>

\* cmd_mode, cmd_config_set: the configuration read at the start, the --mode
\* put over it included, with the new value in it.
\* Mutant: config set writes a configuration made anew.
NewMode_Fresh(c, o, m) == IF c \in {"mode vpn", "mode direct", "config set mode"} THEN m ELSE "vpn"
NewMode(c, o, m) ==
    CASE c = "mode vpn" -> "vpn"
      [] c = "mode direct" -> "direct"
      [] c = "config set mode" -> m
      [] c = "config set proxy" -> IF o # "none" THEN o ELSE Load(config)
Sets(c) == c \in {"mode vpn", "mode direct", "config set mode"}
StartSaving(c, g, o) ==
    /\ Does(c) = "sets"
    /\ Begins(c, g, o)
    /\ \E m \in Mode : mine' = NewMode(c, o, m)
    /\ outdated' = (~Sets(c) /\ other.at = "writing")
    /\ Goes("saving")
    /\ UNCHANGED <<session, honoured, token, touched, live>>

StartAsking(c, g, o) ==
    /\ Does(c) \in {"asks", "changes", "keeps"}
    /\ Begins(c, g, o)
    /\ Goes("asking")
    /\ UNCHANGED <<session, honoured, token, copy, touched, live>>

\* Bound: a download is begun only where nothing has been upset and the session
\* is the configured one, and only one recording has files of an earlier one.
StartDownload(c, g, o) ==
    /\ Does(c) = "downloads"
    /\ Begins(c, g, o)
    /\ o = "none" /\ intended = "vpn" /\ ~unsaved /\ session = "vpn" /\ saved = session /\ config = session
    /\ Goes("downloading")
    /\ \E w \in (SUBSET {"ppt", "video"}) \ {{}}, again \in BOOLEAN, r \in Resource, there \in SUBSET File :
         LiveBegins(w, again, [files EXCEPT ![r] = [f \in File |-> IF f \in there THEN "old" ELSE "absent"]])
    /\ UNCHANGED <<session, honoured, token, copy, touched>>

-----------------------------------------------------------------------------
(* A run goes on.                                                          *)

\* Never sent to log in: the Wi-Fi gateway and the check-in know nothing of the
\* campus login, and todo list puts an expiry among its entries.
LoginFree == DOMAIN WifiCommands \cup {"todo list"} \cup {c \in Commands : Does(c) = "keeps"}
\* The cloud disk logs in anew with the saved credentials.
CloudDisk == DOMAIN FileLists \cup DOMAIN FileReads \cup DOMAIN FileChanges \cup DOMAIN ShareChanges
             \cup DOMAIN FileUpload

\* The login the requests of this run carry is good.
LoggedIn == honoured /\ session = conn

\* LiveService::bearer_token: a token that is there is used however old it is;
\* otherwise the site is entered, and whatever goes wrong counts as an expired
\* session.
LiveTokens == {"live resources", "live detail", "live download"}
Bearer == IF token = "none" /\ LoggedIn THEN {"good", "none"} ELSE {token}

\* Why the systems may send this command to log in.  Whatever the campus login,
\* each has a session of its own, which it may end, or not give: CampusSystems
\* says how that is read.
MayRebuff ==
    {"system"}
    \cup (IF LoggedIn THEN {} ELSE {"login"})
    \cup (IF cmd \in LiveTokens /\ token # "good" THEN {"token"} ELSE {})
    \cup (IF cmd \in CloudDisk /\ saved = "none" THEN {"password"} ELSE {})

\* What the service reports, mapped by map_error_to_exit_code.  A page to log in
\* may be read as an empty list; the list of recordings needs a token.
Codes ==
    {"InvalidArgument", "Network", "Parse", "General", "Storage"}
    \cup (IF cmd \in LoginFree THEN {} ELSE {"AuthRequired"})
    \cup (IF cmd = "live resources" /\ token # "good" /\ ~(token = "none" /\ LoggedIn) THEN {} ELSE {"Ok"})

\* The answer, or none.  A change whose answer is lost may have been made.  The
\* cookies are stored only with a success.
Effect == CASE Does(cmd) = "changes" -> {"campus"} [] Does(cmd) = "keeps" -> {"td"} [] OTHER -> {}
Answer(code) ==
    /\ pc = "asking"
    /\ code \in Codes
    /\ Ends(code)
    /\ why' \in IF code = "AuthRequired" THEN MayRebuff ELSE {""}
    /\ touched' \in IF code = "Ok" /\ (LoggedIn \/ cmd \in LoginFree) THEN {Effect} ELSE {{}, Effect}
    /\ token' \in IF cmd \in LiveTokens /\ code = "Ok" THEN Bearer ELSE {token}
    /\ UNCHANGED <<config, session, saved, world, line, conn, copy, history, live>>

\* cmd_login: the session is stored by login_real, the credentials after it,
\* with the mode the login was made in.
SavedAs == conn
LogIn(stored) ==
    /\ pc = "login"
    /\ session' = conn
    /\ honoured' = TRUE
    /\ saved' = IF stored THEN SavedAs ELSE saved
    /\ unsaved' = ~stored
    /\ touched' = {"session"}
    /\ Ends(IF stored THEN "Ok" ELSE "Storage")
    /\ UNCHANGED <<config, token, other, line, conn, copy, why, intended, live>>
LoginFails ==
    /\ pc = "login"
    /\ \E code \in {"General", "Network"} : Ends(code)
    /\ UNCHANGED <<disk, world, line, conn, copy, why, touched, history, live>>

\* CliConfig::save empties the file and fills it with all of the configuration:
\* the mode as well, whichever key was set.  Only with config set does --mode go
\* into the file unasked.  Bound: two runs do not have the file open at once.
SaveConfig ==
    /\ pc = "saving"
    /\ other.at # "writing"
    /\ config' = "torn"
    /\ Goes("writing")
    /\ UNCHANGED <<session, saved, token, world, line, conn, copy, why, touched, history, live>>

\* What the history makes of a copy of the configuration that is written.
Intends(sets, mode, o, old) ==
    CASE sets -> mode
      [] ~sets /\ o # "none" -> "overridden"
      [] ~sets /\ o = "none" /\ old /\ intended \in Mode -> "raced"
      [] OTHER -> intended
Written ==
    /\ pc = "writing"
    /\ config' = mine
    /\ touched' = {"config"}
    /\ intended' = Intends(Sets(cmd), mine, over, outdated)
    /\ other' = [other EXCEPT !.outdated = @ \/ (Sets(cmd) /\ other.at = "read" /\ ~other.sets)]
    /\ Ends("Ok")
    /\ UNCHANGED <<session, saved, token, unsaved, honoured, line, conn, copy, why, live>>

\* A file that cannot be opened, or filled, is reported as saved.
SaveFails ==
    /\ pc \in {"saving", "writing"}
    /\ intended' = IF Sets(cmd) \/ pc = "writing" THEN "failed" ELSE intended
    /\ Ends("Ok")
    /\ UNCHANGED <<disk, world, unsaved, line, conn, copy, why, touched, live>>

DownloadEnds ==
    /\ pc = "downloading"
    /\ fate # "none"
    /\ Ends(fate)
    /\ honoured' \in IF fate = "AuthRequired" THEN {honoured, FALSE} ELSE {honoured}
    /\ why' \in IF fate # "AuthRequired" THEN {""} ELSE IF honoured' THEN MayRebuff ELSE {"login"}
    /\ token' \in IF fate = "Ok" THEN Bearer ELSE {token}
    /\ UNCHANGED <<config, session, saved, other, line, conn, copy, touched, history, live>>

Downloads ==
    /\ LiveNext
    /\ UNCHANGED <<disk, world, run, history>>

LiveOffAgain ==
    /\ wants' = {} /\ overwrite' = FALSE /\ left' = {} /\ doing' = Nobody /\ step' = "off"
    /\ slides' = "unasked" /\ cut' = FALSE /\ gaps' = FALSE /\ video' = "unasked" /\ status' = "empty"
    /\ files' = [r \in Resource |-> NoFiles]
    /\ report' = [r \in Resource |-> Unreported]
    /\ fate' = "none"
IdleAgain == /\ pc' = "idle" /\ cmd' = "help" /\ given' = {} /\ over' = "none" /\ conn' = "vpn"
             /\ mine' = "vpn" /\ outdated' = FALSE /\ exit' = "none" /\ why' = "" /\ touched' = {}
Return ==
    /\ pc = "done"
    /\ IdleAgain
    /\ LiveOffAgain
    /\ UNCHANGED <<disk, world, history>>

-----------------------------------------------------------------------------
(* What happens meanwhile.                                                 *)

\* The campus ends the login.
SessionEnds ==
    /\ pc \in {"idle", "asking"}
    /\ honoured
    /\ honoured' = FALSE
    /\ UNCHANGED <<disk, other, run, history, live>>

\* The token of the recordings site runs out.
TokenEnds ==
    /\ pc = "idle"
    /\ token = "good"
    /\ token' = "stale"
    /\ UNCHANGED <<config, session, saved, world, run, history, live>>

\* Another run that saves the configuration, of the mode (m) or of another key:
\* the file has no lock.  Its steps are those of this run.
OtherReads(sets, m) ==
    /\ pc \in {"idle", "saving", "writing"}
    /\ other.at = "none"
    /\ other' = [at |-> "read", sets |-> sets, mode |-> IF sets THEN m ELSE Load(config),
                 outdated |-> ~sets /\ pc = "writing"]
    /\ UNCHANGED <<disk, honoured, run, history, live>>
OtherOpens ==
    /\ other.at = "read"
    /\ pc # "writing"
    /\ config' = "torn"
    /\ other' = [other EXCEPT !.at = "writing"]
    /\ UNCHANGED <<session, saved, token, honoured, run, history, live>>
OtherWritten ==
    /\ other.at = "writing"
    /\ config' = other.mode
    /\ intended' = Intends(other.sets, other.mode, "none", other.outdated)
    /\ outdated' = (outdated \/ (other.sets /\ pc = "saving" /\ ~Sets(cmd)))
    /\ other' = NoOther
    /\ UNCHANGED <<session, saved, token, unsaved, honoured, pc, line, conn, mine, exit, why, touched, live>>
\* It is killed, or its file cannot be opened or filled.
OtherFails ==
    /\ other.at # "none"
    /\ intended' = IF other.sets \/ other.at = "writing" THEN "failed" ELSE intended
    /\ other' = NoOther
    /\ UNCHANGED <<disk, unsaved, honoured, run, live>>
OtherRun == OtherOpens \/ OtherWritten \/ OtherFails \/ \E sets \in BOOLEAN, m \in Mode : OtherReads(sets, m)

\* Killed while it writes, a run leaves half a configuration; after the login, a
\* session without credentials.
Kill ==
    /\ pc \in {"asking", "login", "saving", "writing"}
    /\ IdleAgain
    /\ \/ /\ pc = "login" /\ session' = conn /\ honoured' = TRUE /\ unsaved' = TRUE
       \/ UNCHANGED <<session, honoured, unsaved>>
    /\ intended' = IF pc = "writing" THEN "failed" ELSE intended
    /\ UNCHANGED <<config, saved, token, other, live>>

\* Typed: every option, all but one, or what the help calls required.
OptionSets(c) ==
    {Known(c)} \cup {Known(c) \ {o} : o \in Known(c)} \cup (IF c \in DOMAIN Required THEN {Required[c]} ELSE {})
CommandLines == UNION {{<<c, g, o>> : g \in OptionSets(c), o \in Mode \cup {"none"}} : c \in Commands}
\* Bound: while another run saves the configuration, this one saves it too.
Starts ==
    \/ \E l \in CommandLines : StartSaving(l[1], l[2], l[3])
    \/ /\ other = NoOther
       /\ \/ \E c \in Commands : Malformed(c)
          \/ \E l \in CommandLines, yes \in BOOLEAN : Refused(l[1], l[2], l[3], yes)
          \/ \E l \in CommandLines :
               \/ Show(l[1], l[2], l[3]) \/ Logout(l[1], l[2], l[3]) \/ StartLogin(l[1], l[2], l[3])
               \/ StartAsking(l[1], l[2], l[3]) \/ StartDownload(l[1], l[2], l[3])
Next ==
    \/ pc = "idle" /\ Starts
    \/ pc = "asking" /\ \E code \in Exits : Answer(code)
    \/ pc = "login" /\ (LoginFails \/ \E stored \in BOOLEAN : LogIn(stored))
    \/ pc \in {"saving", "writing"} /\ (SaveConfig \/ Written \/ SaveFails)
    \/ pc = "downloading" /\ (Downloads \/ DownloadEnds)
    \/ Return \/ SessionEnds \/ TokenEnds \/ OtherRun \/ Kill

Spec == Init /\ [][Next]_vars

-----------------------------------------------------------------------------
(* What the commands promise each other.                                   *)

\* Whoever gives a command all that its help calls required is not told that an
\* option is missing: for the help tables of CommandHandlers.cpp against the
\* checks of the handlers.  Ten commands demand more than their help says, and
\* three a saved login.
DemandsMore ==
    {"course week", "exam list", "week list", "grade list", "live download", "signin do", "libbook book",
     "evaluation form", "evaluation form submit", "td user add", "relogin", "wifi login", "wifi logout"}
HelpSuffices ==
    why = "missing" /\ cmd \in DOMAIN Required \ DemandsMore => ~(Required[cmd] \subseteq given)

\* Nobody with a session the campus honours is told to log in for want of a
\* login, unless --mode sends the command elsewhere, or the command looks for no
\* session and so runs in the configured mode, not the session's (every change
\* does).  Else it is a system that turned it away, or the recordings site, for
\* which the token is old and never renewed, or could not be had, or the cloud
\* disk, which no password was saved for.
NoFalseExpiry ==
    exit = "AuthRequired" /\ honoured =>
        \/ why = "system"
        \/ why = "token" /\ cmd \in LiveTokens /\ token # "good"
        \/ why = "password" /\ cmd \in CloudDisk /\ saved = "none"
        \/ over # "none"
        \/ cmd \notin Listed \cup ListedWhenComplete /\ conn # session

\* The configured mode is the one last set: a run that sets another key, before,
\* after or beside others that set the mode or do not, leaves it, unless its copy
\* of the file is outdated: then it loses the mode that was set meanwhile.  Not
\* after --mode was given with config set, nor when the file could not be written
\* whole.
ModeKept == pc # "writing" /\ other.at # "writing" /\ intended \in Mode => Load(config) = intended

\* A stored session can be opened anew by relogin in the mode it was opened in,
\* unless storing the credentials failed or was cut off after the login.
SessionCanBeRenewed == session # "none" /\ ~unsaved => saved = session

\* The modes kept on disk are the ones that were chosen: the configured one, and
\* that of the credentials.
ModesKept == ModeKept /\ SessionCanBeRenewed

===============================================================================
