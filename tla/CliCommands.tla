------------------------------ MODULE CliCommands ------------------------------
(***************************************************************************)
(* The commands of ubaa: what each does, which options it needs, which     *)
(* options its help calls required, and with which of them a session is    *)
(* looked for before it runs.                                              *)
(* A condition on options is a set of clauses, of each of which one option *)
(* must be given.                                                          *)
(***************************************************************************)
EXTENDS Naturals, FiniteSets, Tables

Holds(clauses, given) == \A clause \in clauses : clause \cap given # {}
All(options) == {{o} : o \in options}

\* Commands of one kind with the same options.
Each(names, does, clauses) == [n \in names |-> [does |-> does, needs |-> clauses]]
Asks(names, clauses) == Each(names, "asks", clauses)
Changes(names, clauses) == Each(names, "changes", clauses)
Shows(names) == Each(names, "shows", {})

-----------------------------------------------------------------------------
(* What the handlers demand.                                               *)

General ==
    Joined({Shows({"version", "help", "capability show", "config show", "mode", "app version"}),
            Each({"whoami"}, "recalls", {}), Each({"logout"}, "forgets", {}),
            Each({"mode vpn", "mode direct"}, "sets", {})})
Logins ==
    Joined({Each({"login"}, "login", All({"username", "password"})), Each({"relogin"}, "login", All({"saved"}))})
Settings == Each({"config set mode", "config set proxy"}, "sets", All({"key", "value"}))
\* It says that the cache is cleared; the cache went with the process before.
CacheClear == Shows({"cache clear"})

CourseCommands ==
    Joined({Asks({"course today"}, {}), Asks({"course date"}, All({"date"})), Asks({"course week"}, All({"week", "term"}))})
ExamCommands == Asks({"exam list"}, All({"term"}))
ClassroomCommands == Asks({"classroom query"}, All({"campus", "date"}))
TermCommands ==
    Joined({Asks({"term list"}, {}), Asks({"week list"}, All({"term"}))})
GradeCommands ==
    Joined({Asks({"grade list"}, {{"all", "term"}}), Asks({"grade all"}, {})})
LiveWeek == Asks({"live week"}, All({"start-date", "end-date"}))
LiveResources == Asks({"live resources"}, All({"date"}))
LiveDetail == Asks({"live detail"}, All({"course-id", "sub-id"}))
LiveFetch == Each({"live download"}, "downloads", {{"out-dir"}, {"date", "course-id"}, {"date", "sub-id"}})

SpocCommands ==
    Joined({Asks({"spoc assignments", "spoc week"}, {}),
            Asks({"spoc schedule"}, All({"start-date", "end-date"})),
            Asks({"spoc courses"}, All({"term"})),
            Asks({"spoc assignment show"}, All({"id"})),
            Changes({"spoc homework submit"}, {{"id", "assignment-id"}} \cup All({"course-id", "item-id", "name"}))})
\* Mutant: the handler knows --id only.
JudgeCommands_IdOnly ==
    Joined({Asks({"judge assignments"}, {}),
            Asks({"judge assignment show", "judge assignment details"}, {{"id"}}),
            Asks({"judge assignment details-batch"}, All({"input"}))})
JudgeCommands ==
    Joined({Asks({"judge assignments"}, {}),
            Asks({"judge assignment show", "judge assignment details"}, {{"assignment-id", "id"}}),
            Asks({"judge assignment details-batch"}, All({"input"}))})
BykcCommands ==
    Joined({Asks({"bykc profile", "bykc courses", "bykc chosen", "bykc stats"}, {}),
            Asks({"bykc course show"}, {{"course-id", "id"}}),
            Changes({"bykc select", "bykc unselect"}, {{"course-id", "id"}}),
            Changes({"bykc sign"}, {{"course-id", "id"}} \cup All({"sign-type", "lat", "lng"}))})
CgyyCommands ==
    Joined({Asks({"cgyy sites", "cgyy purpose-types", "cgyy orders", "cgyy order lock-code"}, {}),
            Asks({"cgyy day-info"}, {{"date"}, {"site-id", "id"}}),
            Asks({"cgyy order show"}, {{"order-id", "id"}}),
            Changes({"cgyy order cancel"}, {{"order-id", "id"}}),
            Changes({"cgyy reserve"}, All({"site-id", "space-id", "date", "id", "purpose-type", "theme", "phone",
                                      "joiners", "captcha", "token"}))})
LibbookCommands ==
    Joined({Asks({"libbook libraries", "libbook reservations"}, {}),
            Asks({"libbook areas"}, All({"library-id"})),
            Asks({"libbook seats"}, All({"area-id"})),
            Asks({"libbook area show"}, {{"area-id", "id"}}),
            Changes({"libbook book"}, {{"seat-id", "id"}, {"date"}, {"segment", "start-time"}, {"segment", "end-time"}}),
            Changes({"libbook cancel"}, {{"booking-id", "id"}})})
PersonCommands == Asks({"user info", "todo list", "app announcement"}, {})
SrsCommands ==
    Joined({Asks({"srs config", "srs batch", "srs preselected", "srs selected", "srs course query"}, {}),
            Changes({"srs course select", "srs course drop"}, {{"item-id", "id"}, {"token"}}),
            Changes({"srs course preselect"}, {{"item-id", "id"}, {"token"}, {"batch-id"}, {"index"}})})
SigninCommands ==
    Joined({Asks({"signin today"}, {}),
            Asks({"signin schedule"}, All({"date"})),
            Asks({"signin courses"}, All({"term"})),
            Asks({"signin course schedule"}, {{"course-id", "id"}}),
            Changes({"signin do"}, {{"course-id", "id"}})})
\* The gateway is given the saved name and password when none are typed.
WifiCommands ==
    Joined({Changes({"wifi login"}, {{"username", "saved"}, {"password", "saved"}}),
            Changes({"wifi logout"}, {{"username", "saved"}})})
YgdkCommands ==
    Joined({Asks({"ygdk overview", "ygdk records"}, {}), Changes({"ygdk submit"}, All({"photo"}))})
EvaluationCommands ==
    Joined({Asks({"evaluation list"}, {}),
            Asks({"evaluation form"}, {{"id", "course-id"}}),
            Changes({"evaluation submit"}, {}),
            Changes({"evaluation form submit"}, {{"id", "course-id"}})})

FileLists ==
    Joined({Asks({"file roots", "file root", "file recycle", "file shares", "file share-history"}, {}),
            Asks({"file list", "file size"}, All({"id"}))})
FileReads ==
    Joined({Asks({"file suggest-name"}, {{"parent-id", "id"}, {"name"}}),
            Asks({"file share-record", "file download-url"}, {{"item-id", "id"}}),
            Asks({"file share-parse"}, {{"share-id", "id"}}),
            Asks({"file batch-download-url"}, {{"input", "item-id", "id"}})})
FileChanges ==
    Joined({Changes({"file mkdir"}, {{"parent-id", "id"}, {"name"}}),
            Changes({"file rename"}, {{"item-id", "id"}, {"name"}}),
            Changes({"file move", "file copy"}, {{"item-id", "id"}, {"dest-id"}}),
            Changes({"file delete", "file recycle-delete", "file recycle-restore"}, {{"item-id", "id"}})})
ShareChanges ==
    Joined({Changes({"file share-create"}, {{"item-id", "id"}, {"name"}}),
            Changes({"file share-update", "file share-delete"}, {{"share-id", "id"}})})
FileUpload == Changes({"file upload"}, All({"parent-id", "path"}))

\* TD check-in keeps its own store; what its commands do there is TdScheduler.
Keeps(names, clauses) == Each(names, "keeps", clauses)
TdImages ==
    Joined({Keeps({"td init"}, {}), Keeps({"td image add"}, All({"photo"})), Keeps({"td image delete"}, All({"name"})),
            Shows({"td image list"})})
\* A new user has the machines and photos named, or the campus to choose them by.
TdUsers ==
    Joined({Keeps({"td user add"}, All({"student-id"}) \cup
                {{"quick", o} : o \in {"entrance", "exit", "entrance-image", "exit-image"}}),
            Keeps({"td user delete"}, All({"student-id"})), Each({"td user show"}, "shows", All({"student-id"})),
            Shows({"td user list", "td status", "td count"})})
TdRounds ==
    Joined({Keeps({"td run"}, All({"once"})),
            Keeps({"td count --refresh", "td scheduler once", "td scheduler clear-errors", "td scheduler watch"}, {})})

\* run_cli: which command a command line names.
Handlers ==
    Joined({General, Logins, Settings, CacheClear,
            CourseCommands, ExamCommands, ClassroomCommands, TermCommands, GradeCommands,
            LiveWeek, LiveResources, LiveDetail, LiveFetch,
            SpocCommands, JudgeCommands, BykcCommands, CgyyCommands, LibbookCommands, PersonCommands,
            SrsCommands, SigninCommands, WifiCommands, YgdkCommands, EvaluationCommands,
            FileLists, FileReads, FileChanges, ShareChanges, FileUpload, TdImages, TdUsers, TdRounds})
Commands == DOMAIN Handlers

Does(c) == Handlers[c].does
Needs(c) == Handlers[c].needs

\* The commands that ask for a confirmation.
Confirmed(c) ==
    \/ Does(c) \in {"changes", "forgets", "keeps"}
    \/ c \in {"relogin", "config set mode", "config set proxy", "cache clear"}

-----------------------------------------------------------------------------
(* What the help lists as required, --confirm aside.                       *)

Help(names, options) == [n \in names |-> options]

HelpCampus ==
    Joined({Help({"course today", "exam list", "term list", "week list"}, {}),
            Help({"course date"}, {"date"}), Help({"course week"}, {"week"}),
            Help({"classroom query"}, {"campus", "date"})})
HelpLive ==
    Joined({Help({"live week"}, {"start-date", "end-date"}), Help({"live resources"}, {"date"}),
            Help({"live detail"}, {"course-id", "sub-id"}), Help({"live download"}, {"out-dir"})})
HelpFiles ==
    Joined({Help({"file roots", "file root", "file recycle", "file shares"}, {}),
            Help({"file list", "file size", "file delete", "file recycle-delete", "file recycle-restore",
             "file share-record", "file share-parse", "file download-url"}, {"id"}),
            Help({"file suggest-name", "file mkdir"}, {"parent-id", "name"}),
            Help({"file rename", "file share-create"}, {"id", "name"}),
            Help({"file move", "file copy"}, {"id", "dest-id"}),
            Help({"file share-update"}, {"share-id", "id", "name"}), Help({"file share-delete"}, {"share-id"}),
            Help({"file batch-download-url"}, {"input"}), Help({"file upload"}, {"parent-id", "path"})})
HelpSrs ==
    Joined({Help({"srs config", "srs batch", "srs course query", "srs preselected", "srs selected"}, {}),
            Help({"srs course preselect"}, {"id", "scope", "token", "batch-id", "index"}),
            Help({"srs course select", "srs course drop"}, {"id", "scope", "token"})})
HelpGeneral ==
    Joined({Help({"capability show", "config show", "cache clear", "logout", "relogin", "version", "help", "mode",
          "mode vpn", "mode direct", "whoami"}, {}),
            Help({"login"}, {"username", "password"}),
            Help({"config set mode", "config set proxy"}, {"key", "value"})})
HelpTd ==
    Joined({Help({"td init", "td image list", "td user list", "td status", "td count", "td scheduler once",
          "td scheduler clear-errors", "td scheduler watch"}, {}),
            Help({"td image add"}, {"photo"}), Help({"td image delete"}, {"name"}),
            Help({"td user add", "td user show", "td user delete"}, {"student-id"}), Help({"td run"}, {"once"})})
HelpStudy ==
    Joined({Help({"user info", "app version", "app announcement", "grade list", "grade all", "spoc week",
          "spoc assignments", "judge assignments"}, {}),
            Help({"spoc schedule"}, {"start-date", "end-date"}), Help({"spoc courses"}, {"term"}),
            Help({"spoc assignment show"}, {"id"}), Help({"spoc homework submit"}, {"id", "course-id", "item-id", "name"}),
            Help({"judge assignment show", "judge assignment details"}, {"assignment-id"}),
            Help({"judge assignment details-batch"}, {"input"})})
HelpSignin ==
    Joined({Help({"signin today", "signin do", "wifi login", "wifi logout"}, {}),
            Help({"signin schedule"}, {"date"}), Help({"signin courses"}, {"term"}),
            Help({"signin course schedule"}, {"course-id"})})
HelpBookings ==
    Joined({Help({"bykc profile", "bykc courses", "bykc chosen", "bykc stats", "cgyy sites", "cgyy purpose-types",
          "cgyy orders", "cgyy order lock-code", "libbook libraries", "libbook reservations"}, {}),
            Help({"bykc course show", "bykc select", "bykc unselect"}, {"course-id"}),
            Help({"bykc sign"}, {"course-id", "sign-type", "lat", "lng"}),
            Help({"cgyy day-info"}, {"site-id", "date"}), Help({"cgyy order show", "cgyy order cancel"}, {"order-id"}),
            Help({"cgyy reserve"}, {"site-id", "space-id", "date", "id", "purpose-type", "theme", "phone", "joiners",
                               "captcha", "token"}),
            Help({"libbook areas"}, {"library-id"}), Help({"libbook seats", "libbook area show"}, {"area-id"}),
            Help({"libbook book"}, {"seat-id", "date"}), Help({"libbook cancel"}, {"booking-id"})})
HelpLife ==
    Joined({Help({"ygdk overview", "ygdk records", "evaluation list", "evaluation form", "evaluation submit",
          "evaluation form submit", "todo list"}, {}),
            Help({"ygdk submit"}, {"start-time", "end-time", "place", "photo"})})

Required ==
    Joined({HelpCampus, HelpLive, HelpFiles, HelpSrs, HelpGeneral, HelpTd, HelpStudy, HelpSignin,
            HelpBookings, HelpLife})

-----------------------------------------------------------------------------
\* command_requires_session: always for these ...
Listed ==
    {"course today", "course date", "term list", "file roots", "file root", "file recycle", "file shares",
     "user info", "todo list", "libbook libraries", "libbook reservations", "bykc profile", "bykc courses",
     "bykc chosen", "bykc stats", "cgyy sites", "cgyy purpose-types", "cgyy orders", "cgyy order lock-code",
     "signin today", "ygdk overview", "ygdk records", "evaluation list", "srs config", "srs selected",
     "srs preselected", "srs course query", "judge assignments", "spoc assignments", "spoc week", "grade all"}
\* ... and with the options they need for these.
ListedWhenComplete ==
    {"course week", "exam list", "week list", "grade list", "classroom query", "live week", "live resources",
     "live detail", "live download", "file list", "file size", "signin schedule", "signin courses",
     "signin course schedule", "spoc schedule", "spoc courses"}
WantsSession(c, given) ==
    \/ c \in Listed
    \/ c = "course week" /\ "term" \in given
    \/ c \in ListedWhenComplete \ {"course week", "live download"} /\ Holds(Needs(c), given)
    \/ c = "live download" /\ Holds(Needs(c) \ {{"out-dir"}}, given)

===============================================================================
