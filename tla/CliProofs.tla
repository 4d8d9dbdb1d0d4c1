------------------------------ MODULE CliProofs ------------------------------
(***************************************************************************)
(* Proofs about Cli: what its table of commands has in common, what one    *)
(* download of classroom recordings writes and reports, and what the runs  *)
(* of ubaa leave on disk, for any number of recordings and runs.           *)
(* Then about Downstream: what the commands that change something in a     *)
(* campus system do and report, for any choice of its services.            *)
(***************************************************************************)
EXTENDS Cli, Downstream, TLAPS

-----------------------------------------------------------------------------
(* The table of the commands.  It is put together of small tables, so what *)
(* holds of each entry of each of these holds of every command.            *)

Setters == {"mode vpn", "mode direct", "config set mode", "config set proxy"}

\* What the proofs need to know of a command c that is h.
Regular(c, h) ==
    /\ h.does = "sets" => c \in Setters
    /\ h.does = "downloads" => c = "live download"
    /\ c \in ListedWhenComplete => \A clause \in h.needs : "saved" \notin clause
    /\ c = "course week" => {"term"} \in h.needs

AllRegular(table) == \A c \in DOMAIN table : Regular(c, table[c])

LEMMA JoinedFrom ==
    ASSUME NEW tables, NEW n \in DOMAIN Joined(tables)
    PROVE  \E t \in tables : n \in DOMAIN t /\ Joined(tables)[n] = t[n]
<1>1. PICK t \in tables : n \in DOMAIN t
  BY DEF Joined
<1> DEFINE u == CHOOSE u \in tables : n \in DOMAIN u
<1>2. u \in tables /\ n \in DOMAIN u
  BY <1>1
<1>3. Joined(tables)[n] = u[n]
  BY <1>1 DEF Joined
<1> HIDE DEF u
<1> QED  BY <1>2, <1>3

LEMMA JoinedRegular ==
    ASSUME NEW tables, \A t \in tables : AllRegular(t)
    PROVE  AllRegular(Joined(tables))
BY JoinedFrom DEF AllRegular

LEMMA EachRegular ==
    ASSUME NEW names, NEW does, NEW clauses,
           \A c \in names : Regular(c, [does |-> does, needs |-> clauses])
    PROVE  AllRegular(Each(names, does, clauses))
BY DEF AllRegular, Each

LEMMA PlainRegular ==
    ASSUME NEW names, NEW does, NEW clauses,
           does # "sets", does # "downloads", \A c \in names : c \notin ListedWhenComplete
    PROVE  AllRegular(Each(names, does, clauses))
<1>1. \A c \in names : c # "course week"
  BY DEF ListedWhenComplete
<1> QED  BY <1>1, EachRegular DEF Regular

LEMMA AskedRegular ==
    ASSUME NEW names, NEW does, NEW clauses, does # "sets", does # "downloads",
           \A c \in names : c = "course week" => {"term"} \in clauses,
           \A clause \in clauses : "saved" \notin clause
    PROVE  AllRegular(Each(names, does, clauses))
BY EachRegular DEF Regular

LEMMA EveryCommandRegular == AllRegular(Handlers)
<1>1. AllRegular(General)
  <2>1. AllRegular(Shows({"version", "help", "capability show", "config show", "mode", "app version"}))
    BY PlainRegular DEF Shows, ListedWhenComplete
  <2>2. AllRegular(Each({"whoami"}, "recalls", {}))
    BY PlainRegular DEF ListedWhenComplete
  <2>3. AllRegular(Each({"logout"}, "forgets", {}))
    BY PlainRegular DEF ListedWhenComplete
  <2>4. AllRegular(Each({"mode vpn", "mode direct"}, "sets", {}))
    BY EachRegular DEF Regular, Setters, ListedWhenComplete
  <2> QED  BY <2>1, <2>2, <2>3, <2>4, JoinedRegular DEF General
<1>2. AllRegular(Logins)
  <2>1. AllRegular(Each({"login"}, "login", All({"username", "password"})))
    BY PlainRegular DEF ListedWhenComplete
  <2>2. AllRegular(Each({"relogin"}, "login", All({"saved"})))
    BY PlainRegular DEF ListedWhenComplete
  <2> QED  BY <2>1, <2>2, JoinedRegular DEF Logins
<1>3. AllRegular(Settings)
  BY EachRegular DEF Regular, Setters, ListedWhenComplete, Settings
<1>4. AllRegular(CacheClear)
  BY PlainRegular DEF Shows, ListedWhenComplete, CacheClear
<1>5. AllRegular(CourseCommands)
  <2>1. AllRegular(Asks({"course today"}, {}))
    BY PlainRegular DEF Asks, ListedWhenComplete
  <2>2. AllRegular(Asks({"course date"}, All({"date"})))
    BY PlainRegular DEF Asks, ListedWhenComplete
  <2>3. AllRegular(Asks({"course week"}, All({"week", "term"})))
    <3>a. \A clause \in All({"week", "term"}) : "saved" \notin clause
      BY DEF All
    <3>b. \A c \in {"course week"} : c = "course week" => {"term"} \in All({"week", "term"})
      BY DEF All
    <3> QED  BY <3>a, <3>b, AskedRegular DEF Asks
  <2> QED  BY <2>1, <2>2, <2>3, JoinedRegular DEF CourseCommands
<1>6. AllRegular(ExamCommands)
  <2>a. \A clause \in All({"term"}) : "saved" \notin clause
    BY DEF All
  <2>b. \A c \in {"exam list"} : c = "course week" => {"term"} \in All({"term"})
    BY DEF All
  <2> QED  BY <2>a, <2>b, AskedRegular DEF Asks, ExamCommands
<1>7. AllRegular(ClassroomCommands)
  <2>a. \A clause \in All({"campus", "date"}) : "saved" \notin clause
    BY DEF All
  <2>b. \A c \in {"classroom query"} : c = "course week" => {"term"} \in All({"campus", "date"})
    BY DEF All
  <2> QED  BY <2>a, <2>b, AskedRegular DEF Asks, ClassroomCommands
<1>8. AllRegular(TermCommands)
  <2>1. AllRegular(Asks({"term list"}, {}))
    BY PlainRegular DEF Asks, ListedWhenComplete
  <2>2. AllRegular(Asks({"week list"}, All({"term"})))
    <3>a. \A clause \in All({"term"}) : "saved" \notin clause
      BY DEF All
    <3>b. \A c \in {"week list"} : c = "course week" => {"term"} \in All({"term"})
      BY DEF All
    <3> QED  BY <3>a, <3>b, AskedRegular DEF Asks
  <2> QED  BY <2>1, <2>2, JoinedRegular DEF TermCommands
<1>9. AllRegular(GradeCommands)
  <2>1. AllRegular(Asks({"grade list"}, {{"all", "term"}}))
    <3>a. \A clause \in {{"all", "term"}} : "saved" \notin clause
      BY DEF All
    <3>b. \A c \in {"grade list"} : c = "course week" => {"term"} \in {{"all", "term"}}
      BY DEF All
    <3> QED  BY <3>a, <3>b, AskedRegular DEF Asks
  <2>2. AllRegular(Asks({"grade all"}, {}))
    BY PlainRegular DEF Asks, ListedWhenComplete
  <2> QED  BY <2>1, <2>2, JoinedRegular DEF GradeCommands
<1>10. AllRegular(LiveWeek)
  <2>a. \A clause \in All({"start-date", "end-date"}) : "saved" \notin clause
    BY DEF All
  <2>b. \A c \in {"live week"} : c = "course week" => {"term"} \in All({"start-date", "end-date"})
    BY DEF All
  <2> QED  BY <2>a, <2>b, AskedRegular DEF Asks, LiveWeek
<1>11. AllRegular(LiveResources)
  <2>a. \A clause \in All({"date"}) : "saved" \notin clause
    BY DEF All
  <2>b. \A c \in {"live resources"} : c = "course week" => {"term"} \in All({"date"})
    BY DEF All
  <2> QED  BY <2>a, <2>b, AskedRegular DEF Asks, LiveResources
<1>12. AllRegular(LiveDetail)
  <2>a. \A clause \in All({"course-id", "sub-id"}) : "saved" \notin clause
    BY DEF All
  <2>b. \A c \in {"live detail"} : c = "course week" => {"term"} \in All({"course-id", "sub-id"})
    BY DEF All
  <2> QED  BY <2>a, <2>b, AskedRegular DEF Asks, LiveDetail
<1>13. AllRegular(LiveFetch)
  <2>a. \A clause \in {{"out-dir"}, {"date", "course-id"}, {"date", "sub-id"}} : "saved" \notin clause
    BY DEF All
  <2>b. \A c \in {"live download"} : c = "course week" => {"term"} \in {{"out-dir"}, {"date", "course-id"}, {"date", "sub-id"}}
    BY DEF All
  <2> QED  BY <2>a, <2>b, EachRegular DEF Regular, LiveFetch
<1>14. AllRegular(SpocCommands)
  <2>1. AllRegular(Asks({"spoc assignments", "spoc week"}, {}))
    BY PlainRegular DEF Asks, ListedWhenComplete
  <2>2. AllRegular(Asks({"spoc schedule"}, All({"start-date", "end-date"})))
    <3>a. \A clause \in All({"start-date", "end-date"}) : "saved" \notin clause
      BY DEF All
    <3>b. \A c \in {"spoc schedule"} : c = "course week" => {"term"} \in All({"start-date", "end-date"})
      BY DEF All
    <3> QED  BY <3>a, <3>b, AskedRegular DEF Asks
  <2>3. AllRegular(Asks({"spoc courses"}, All({"term"})))
    <3>a. \A clause \in All({"term"}) : "saved" \notin clause
      BY DEF All
    <3>b. \A c \in {"spoc courses"} : c = "course week" => {"term"} \in All({"term"})
      BY DEF All
    <3> QED  BY <3>a, <3>b, AskedRegular DEF Asks
  <2>4. AllRegular(Asks({"spoc assignment show"}, All({"id"})))
    BY PlainRegular DEF Asks, ListedWhenComplete
  <2>5. AllRegular(Changes({"spoc homework submit"}, {{"id", "assignment-id"}} \cup All({"course-id", "item-id", "name"})))
    BY PlainRegular DEF Changes, ListedWhenComplete
  <2> QED  BY <2>1, <2>2, <2>3, <2>4, <2>5, JoinedRegular DEF SpocCommands
<1>15. AllRegular(JudgeCommands)
  <2>1. AllRegular(Asks({"judge assignments"}, {}))
    BY PlainRegular DEF Asks, ListedWhenComplete
  <2>2. AllRegular(Asks({"judge assignment show", "judge assignment details"}, {{"assignment-id", "id"}}))
    BY PlainRegular DEF Asks, ListedWhenComplete
  <2>3. AllRegular(Asks({"judge assignment details-batch"}, All({"input"})))
    BY PlainRegular DEF Asks, ListedWhenComplete
  <2> QED  BY <2>1, <2>2, <2>3, JoinedRegular DEF JudgeCommands
<1>16. AllRegular(BykcCommands)
  <2>1. AllRegular(Asks({"bykc profile", "bykc courses", "bykc chosen", "bykc stats"}, {}))
    BY PlainRegular DEF Asks, ListedWhenComplete
  <2>2. AllRegular(Asks({"bykc course show"}, {{"course-id", "id"}}))
    BY PlainRegular DEF Asks, ListedWhenComplete
  <2>3. AllRegular(Changes({"bykc select", "bykc unselect"}, {{"course-id", "id"}}))
    BY PlainRegular DEF Changes, ListedWhenComplete
  <2>4. AllRegular(Changes({"bykc sign"}, {{"course-id", "id"}} \cup All({"sign-type", "lat", "lng"})))
    BY PlainRegular DEF Changes, ListedWhenComplete
  <2> QED  BY <2>1, <2>2, <2>3, <2>4, JoinedRegular DEF BykcCommands
<1>17. AllRegular(CgyyCommands)
  <2>1. AllRegular(Asks({"cgyy sites", "cgyy purpose-types", "cgyy orders", "cgyy order lock-code"}, {}))
    BY PlainRegular DEF Asks, ListedWhenComplete
  <2>2. AllRegular(Asks({"cgyy day-info"}, {{"date"}, {"site-id", "id"}}))
    BY PlainRegular DEF Asks, ListedWhenComplete
  <2>3. AllRegular(Asks({"cgyy order show"}, {{"order-id", "id"}}))
    BY PlainRegular DEF Asks, ListedWhenComplete
  <2>4. AllRegular(Changes({"cgyy order cancel"}, {{"order-id", "id"}}))
    BY PlainRegular DEF Changes, ListedWhenComplete
  <2>5. AllRegular(Changes({"cgyy reserve"}, All({"site-id", "space-id", "date", "id", "purpose-type", "theme", "phone", "joiners", "captcha", "token"})))
    BY PlainRegular DEF Changes, ListedWhenComplete
  <2> QED  BY <2>1, <2>2, <2>3, <2>4, <2>5, JoinedRegular DEF CgyyCommands
<1>18. AllRegular(LibbookCommands)
  <2>1. AllRegular(Asks({"libbook libraries", "libbook reservations"}, {}))
    BY PlainRegular DEF Asks, ListedWhenComplete
  <2>2. AllRegular(Asks({"libbook areas"}, All({"library-id"})))
    BY PlainRegular DEF Asks, ListedWhenComplete
  <2>3. AllRegular(Asks({"libbook seats"}, All({"area-id"})))
    BY PlainRegular DEF Asks, ListedWhenComplete
  <2>4. AllRegular(Asks({"libbook area show"}, {{"area-id", "id"}}))
    BY PlainRegular DEF Asks, ListedWhenComplete
  <2>5. AllRegular(Changes({"libbook book"}, {{"seat-id", "id"}, {"date"}, {"segment", "start-time"}, {"segment", "end-time"}}))
    BY PlainRegular DEF Changes, ListedWhenComplete
  <2>6. AllRegular(Changes({"libbook cancel"}, {{"booking-id", "id"}}))
    BY PlainRegular DEF Changes, ListedWhenComplete
  <2> QED  BY <2>1, <2>2, <2>3, <2>4, <2>5, <2>6, JoinedRegular DEF LibbookCommands
<1>19. AllRegular(PersonCommands)
  BY PlainRegular DEF Asks, ListedWhenComplete, PersonCommands
<1>20. AllRegular(SrsCommands)
  <2>1. AllRegular(Asks({"srs config", "srs batch", "srs preselected", "srs selected", "srs course query"}, {}))
    BY PlainRegular DEF Asks, ListedWhenComplete
  <2>2. AllRegular(Changes({"srs course select", "srs course drop"}, {{"item-id", "id"}, {"token"}}))
    BY PlainRegular DEF Changes, ListedWhenComplete
  <2>3. AllRegular(Changes({"srs course preselect"}, {{"item-id", "id"}, {"token"}, {"batch-id"}, {"index"}}))
    BY PlainRegular DEF Changes, ListedWhenComplete
  <2> QED  BY <2>1, <2>2, <2>3, JoinedRegular DEF SrsCommands
<1>21. AllRegular(SigninCommands)
  <2>1. AllRegular(Asks({"signin today"}, {}))
    BY PlainRegular DEF Asks, ListedWhenComplete
  <2>2. AllRegular(Asks({"signin schedule"}, All({"date"})))
    <3>a. \A clause \in All({"date"}) : "saved" \notin clause
      BY DEF All
    <3>b. \A c \in {"signin schedule"} : c = "course week" => {"term"} \in All({"date"})
      BY DEF All
    <3> QED  BY <3>a, <3>b, AskedRegular DEF Asks
  <2>3. AllRegular(Asks({"signin courses"}, All({"term"})))
    <3>a. \A clause \in All({"term"}) : "saved" \notin clause
      BY DEF All
    <3>b. \A c \in {"signin courses"} : c = "course week" => {"term"} \in All({"term"})
      BY DEF All
    <3> QED  BY <3>a, <3>b, AskedRegular DEF Asks
  <2>4. AllRegular(Asks({"signin course schedule"}, {{"course-id", "id"}}))
    <3>a. \A clause \in {{"course-id", "id"}} : "saved" \notin clause
      BY DEF All
    <3>b. \A c \in {"signin course schedule"} : c = "course week" => {"term"} \in {{"course-id", "id"}}
      BY DEF All
    <3> QED  BY <3>a, <3>b, AskedRegular DEF Asks
  <2>5. AllRegular(Changes({"signin do"}, {{"course-id", "id"}}))
    BY PlainRegular DEF Changes, ListedWhenComplete
  <2> QED  BY <2>1, <2>2, <2>3, <2>4, <2>5, JoinedRegular DEF SigninCommands
<1>22. AllRegular(WifiCommands)
  <2>1. AllRegular(Changes({"wifi login"}, {{"username", "saved"}, {"password", "saved"}}))
    BY PlainRegular DEF Changes, ListedWhenComplete
  <2>2. AllRegular(Changes({"wifi logout"}, {{"username", "saved"}}))
    BY PlainRegular DEF Changes, ListedWhenComplete
  <2> QED  BY <2>1, <2>2, JoinedRegular DEF WifiCommands
<1>23. AllRegular(YgdkCommands)
  <2>1. AllRegular(Asks({"ygdk overview", "ygdk records"}, {}))
    BY PlainRegular DEF Asks, ListedWhenComplete
  <2>2. AllRegular(Changes({"ygdk submit"}, All({"photo"})))
    BY PlainRegular DEF Changes, ListedWhenComplete
  <2> QED  BY <2>1, <2>2, JoinedRegular DEF YgdkCommands
<1>24. AllRegular(EvaluationCommands)
  <2>1. AllRegular(Asks({"evaluation list"}, {}))
    BY PlainRegular DEF Asks, ListedWhenComplete
  <2>2. AllRegular(Asks({"evaluation form"}, {{"id", "course-id"}}))
    BY PlainRegular DEF Asks, ListedWhenComplete
  <2>3. AllRegular(Changes({"evaluation submit"}, {}))
    BY PlainRegular DEF Changes, ListedWhenComplete
  <2>4. AllRegular(Changes({"evaluation form submit"}, {{"id", "course-id"}}))
    BY PlainRegular DEF Changes, ListedWhenComplete
  <2> QED  BY <2>1, <2>2, <2>3, <2>4, JoinedRegular DEF EvaluationCommands
<1>25. AllRegular(FileLists)
  <2>1. AllRegular(Asks({"file roots", "file root", "file recycle", "file shares", "file share-history"}, {}))
    BY PlainRegular DEF Asks, ListedWhenComplete
  <2>2. AllRegular(Asks({"file list", "file size"}, All({"id"})))
    <3>a. \A clause \in All({"id"}) : "saved" \notin clause
      BY DEF All
    <3>b. \A c \in {"file list", "file size"} : c = "course week" => {"term"} \in All({"id"})
      BY DEF All
    <3> QED  BY <3>a, <3>b, AskedRegular DEF Asks
  <2> QED  BY <2>1, <2>2, JoinedRegular DEF FileLists
<1>26. AllRegular(FileReads)
  <2>1. AllRegular(Asks({"file suggest-name"}, {{"parent-id", "id"}, {"name"}}))
    BY PlainRegular DEF Asks, ListedWhenComplete
  <2>2. AllRegular(Asks({"file share-record", "file download-url"}, {{"item-id", "id"}}))
    BY PlainRegular DEF Asks, ListedWhenComplete
  <2>3. AllRegular(Asks({"file share-parse"}, {{"share-id", "id"}}))
    BY PlainRegular DEF Asks, ListedWhenComplete
  <2>4. AllRegular(Asks({"file batch-download-url"}, {{"input", "item-id", "id"}}))
    BY PlainRegular DEF Asks, ListedWhenComplete
  <2> QED  BY <2>1, <2>2, <2>3, <2>4, JoinedRegular DEF FileReads
<1>27. AllRegular(FileChanges)
  <2>1. AllRegular(Changes({"file mkdir"}, {{"parent-id", "id"}, {"name"}}))
    BY PlainRegular DEF Changes, ListedWhenComplete
  <2>2. AllRegular(Changes({"file rename"}, {{"item-id", "id"}, {"name"}}))
    BY PlainRegular DEF Changes, ListedWhenComplete
  <2>3. AllRegular(Changes({"file move", "file copy"}, {{"item-id", "id"}, {"dest-id"}}))
    BY PlainRegular DEF Changes, ListedWhenComplete
  <2>4. AllRegular(Changes({"file delete", "file recycle-delete", "file recycle-restore"}, {{"item-id", "id"}}))
    BY PlainRegular DEF Changes, ListedWhenComplete
  <2> QED  BY <2>1, <2>2, <2>3, <2>4, JoinedRegular DEF FileChanges
<1>28. AllRegular(ShareChanges)
  <2>1. AllRegular(Changes({"file share-create"}, {{"item-id", "id"}, {"name"}}))
    BY PlainRegular DEF Changes, ListedWhenComplete
  <2>2. AllRegular(Changes({"file share-update", "file share-delete"}, {{"share-id", "id"}}))
    BY PlainRegular DEF Changes, ListedWhenComplete
  <2> QED  BY <2>1, <2>2, JoinedRegular DEF ShareChanges
<1>29. AllRegular(FileUpload)
  BY PlainRegular DEF Changes, ListedWhenComplete, FileUpload
<1>30. AllRegular(TdImages)
  <2>1. AllRegular(Keeps({"td init"}, {}))
    BY PlainRegular DEF Keeps, ListedWhenComplete
  <2>2. AllRegular(Keeps({"td image add"}, All({"photo"})))
    BY PlainRegular DEF Keeps, ListedWhenComplete
  <2>3. AllRegular(Keeps({"td image delete"}, All({"name"})))
    BY PlainRegular DEF Keeps, ListedWhenComplete
  <2>4. AllRegular(Shows({"td image list"}))
    BY PlainRegular DEF Shows, ListedWhenComplete
  <2> QED  BY <2>1, <2>2, <2>3, <2>4, JoinedRegular DEF TdImages
<1>31. AllRegular(TdUsers)
  <2>1. AllRegular(Keeps({"td user add"}, All({"student-id"}) \cup
      {{"quick", o} : o \in {"entrance", "exit", "entrance-image", "exit-image"}}))
    BY PlainRegular DEF Keeps, ListedWhenComplete
  <2>4. AllRegular(Keeps({"td user delete"}, All({"student-id"})))
    BY PlainRegular DEF Keeps, ListedWhenComplete
  <2>2. AllRegular(Each({"td user show"}, "shows", All({"student-id"})))
    BY PlainRegular DEF ListedWhenComplete
  <2>3. AllRegular(Shows({"td user list", "td status", "td count"}))
    BY PlainRegular DEF Shows, ListedWhenComplete
  <2> QED  BY <2>1, <2>2, <2>3, <2>4, JoinedRegular DEF TdUsers
<1>32. AllRegular(TdRounds)
  <2>1. AllRegular(Keeps({"td run"}, All({"once"})))
    BY PlainRegular DEF Keeps, ListedWhenComplete
  <2>2. AllRegular(Keeps({"td count --refresh", "td scheduler once", "td scheduler clear-errors", "td scheduler watch"}, {}))
    BY PlainRegular DEF Keeps, ListedWhenComplete
  <2> QED  BY <2>1, <2>2, JoinedRegular DEF TdRounds
<1> QED
  BY <1>1, <1>2, <1>3, <1>4, <1>5, <1>6, <1>7, <1>8, <1>9, <1>10, <1>11, <1>12, <1>13, <1>14, <1>15,
     <1>16, <1>17, <1>18, <1>19, <1>20, <1>21, <1>22, <1>23, <1>24, <1>25, <1>26, <1>27, <1>28,
     <1>29, <1>30, <1>31, <1>32, JoinedRegular DEF Handlers

-----------------------------------------------------------------------------
(* The help.  What it calls required is a table too; both are compared     *)
(* with one list of what is promised, command by command.                  *)

\* What the help calls required: of a command c the option o.
Promised(c, o) ==
    \/ o = "date" /\ c \in {"course date", "classroom query", "live resources", "cgyy day-info", "cgyy reserve",
                            "signin schedule"}
    \/ o = "campus" /\ c = "classroom query"
    \/ o = "term" /\ c \in {"spoc courses", "signin courses"}
    \/ o \in {"start-date", "end-date"} /\ c \in {"live week", "spoc schedule"}
    \/ o \in {"course-id", "sub-id"} /\ c = "live detail"
    \/ o = "course-id" /\ c \in {"bykc course show", "bykc select", "bykc unselect", "bykc sign",
                                 "signin course schedule"}
    \/ o \in {"sign-type", "lat", "lng"} /\ c = "bykc sign"
    \/ o \in {"username", "password"} /\ c = "login"
    \/ o \in {"key", "value"} /\ c \in {"config set mode", "config set proxy"}
    \/ o = "id" /\ c \in {"spoc assignment show", "file list", "file size", "file share-record",
                          "file download-url", "file share-parse", "file delete", "file recycle-delete",
                          "file recycle-restore"}
    \/ o \in {"id", "course-id", "item-id", "name"} /\ c = "spoc homework submit"
    \/ o \in {"id", "token"} /\ c \in {"srs course select", "srs course drop", "srs course preselect"}
    \/ o \in {"batch-id", "index"} /\ c = "srs course preselect"
    \/ o = "assignment-id" /\ c \in {"judge assignment show", "judge assignment details"}
    \/ o = "input" /\ c \in {"judge assignment details-batch", "file batch-download-url"}
    \/ o = "site-id" /\ c = "cgyy day-info"
    \/ o = "order-id" /\ c \in {"cgyy order show", "cgyy order cancel"}
    \/ o \in {"site-id", "space-id", "id", "purpose-type", "theme", "phone", "joiners", "captcha", "token"}
       /\ c = "cgyy reserve"
    \/ o = "library-id" /\ c = "libbook areas"
    \/ o = "area-id" /\ c \in {"libbook seats", "libbook area show"}
    \/ o = "booking-id" /\ c = "libbook cancel"
    \/ o = "photo" /\ c \in {"ygdk submit", "td image add"}
    \/ o = "name" /\ c = "td image delete"
    \/ o \in {"parent-id", "name"} /\ c \in {"file suggest-name", "file mkdir"}
    \/ o \in {"id", "name"} /\ c \in {"file rename", "file share-create"}
    \/ o \in {"id", "dest-id"} /\ c \in {"file move", "file copy"}
    \/ o = "share-id" /\ c \in {"file share-update", "file share-delete"}
    \/ o \in {"parent-id", "path"} /\ c = "file upload"
    \/ o = "student-id" /\ c \in {"td user add", "td user delete", "td user show"}
    \/ o = "once" /\ c = "td run"

Lists(c, options) == \A o : Promised(c, o) => o \in options

Served(c, clauses) == c \in DemandsMore \/ \A clause \in clauses : \E o \in clause : Promised(c, o)

AllServed(table) == \A c \in DOMAIN table : Served(c, table[c].needs)
AllListed(table) == \A c \in DOMAIN table : Lists(c, table[c])

LEMMA JoinedServed ==
    ASSUME NEW tables, \A t \in tables : AllServed(t)
    PROVE  AllServed(Joined(tables))
BY JoinedFrom DEF AllServed

LEMMA JoinedListed ==
    ASSUME NEW tables, \A t \in tables : AllListed(t)
    PROVE  AllListed(Joined(tables))
BY JoinedFrom DEF AllListed

LEMMA EachServed ==
    ASSUME NEW names, NEW does, NEW clauses, \A c \in names : Served(c, clauses)
    PROVE  AllServed(Each(names, does, clauses))
BY DEF AllServed, Each

LEMMA HelpListed ==
    ASSUME NEW names, NEW options, \A c \in names : Lists(c, options)
    PROVE  AllListed(Help(names, options))
BY DEF AllListed, Help

LEMMA TheseServed ==
    ASSUME NEW names, NEW does, NEW options,
           \A c \in names : c \in DemandsMore \/ \A o \in options : Promised(c, o)
    PROVE  AllServed(Each(names, does, All(options)))
<1>1. \A c \in names : Served(c, All(options))
  BY DEF Served, All
<1> QED  BY <1>1, EachServed

LEMMA NothingServed ==
    ASSUME NEW names, NEW does
    PROVE  AllServed(Each(names, does, {}))
BY EachServed DEF Served

LEMMA EveryHandlerServed == AllServed(Handlers)
<1>1. AllServed(General)
  <2>1. AllServed(Shows({"version", "help", "capability show", "config show", "mode", "app version"}))
    BY NothingServed DEF Shows
  <2>2. AllServed(Each({"whoami"}, "recalls", {}))
    BY NothingServed
  <2>3. AllServed(Each({"logout"}, "forgets", {}))
    BY NothingServed
  <2>4. AllServed(Each({"mode vpn", "mode direct"}, "sets", {}))
    BY NothingServed
  <2> QED  BY <2>1, <2>2, <2>3, <2>4, JoinedServed DEF General
<1>2. AllServed(Logins)
  <2>1. AllServed(Each({"login"}, "login", All({"username", "password"})))
    BY TheseServed DEF Promised, DemandsMore
  <2>2. AllServed(Each({"relogin"}, "login", All({"saved"})))
    BY TheseServed DEF Promised, DemandsMore
  <2> QED  BY <2>1, <2>2, JoinedServed DEF Logins
<1>3. AllServed(Settings)
  BY TheseServed DEF Promised, DemandsMore, Settings
<1>4. AllServed(CacheClear)
  BY NothingServed DEF Shows, CacheClear
<1>5. AllServed(CourseCommands)
  <2>1. AllServed(Asks({"course today"}, {}))
    BY NothingServed DEF Asks
  <2>2. AllServed(Asks({"course date"}, All({"date"})))
    BY TheseServed DEF Asks, Promised, DemandsMore
  <2>3. AllServed(Asks({"course week"}, All({"week", "term"})))
    BY TheseServed DEF Asks, Promised, DemandsMore
  <2> QED  BY <2>1, <2>2, <2>3, JoinedServed DEF CourseCommands
<1>6. AllServed(ExamCommands)
  BY TheseServed DEF Asks, Promised, DemandsMore, ExamCommands
<1>7. AllServed(ClassroomCommands)
  <2>1. \A c \in {"classroom query"}, o \in {"campus", "date"} : Promised(c, o)
    BY DEF Promised
  <2> QED  BY <2>1, TheseServed DEF Asks, ClassroomCommands
<1>8. AllServed(TermCommands)
  <2>1. AllServed(Asks({"term list"}, {}))
    BY NothingServed DEF Asks
  <2>2. AllServed(Asks({"week list"}, All({"term"})))
    BY TheseServed DEF Asks, Promised, DemandsMore
  <2> QED  BY <2>1, <2>2, JoinedServed DEF TermCommands
<1>9. AllServed(GradeCommands)
  <2>1. AllServed(Asks({"grade list"}, {{"all", "term"}}))
    BY EachServed DEF Asks, Served, Promised, DemandsMore
  <2>2. AllServed(Asks({"grade all"}, {}))
    BY NothingServed DEF Asks
  <2> QED  BY <2>1, <2>2, JoinedServed DEF GradeCommands
<1>10. AllServed(LiveWeek)
  BY TheseServed DEF Asks, Promised, DemandsMore, LiveWeek
<1>11. AllServed(LiveResources)
  BY TheseServed DEF Asks, Promised, DemandsMore, LiveResources
<1>12. AllServed(LiveDetail)
  BY TheseServed DEF Asks, Promised, DemandsMore, LiveDetail
<1>13. AllServed(LiveFetch)
  BY EachServed DEF Served, Promised, DemandsMore, LiveFetch
<1>14. AllServed(SpocCommands)
  <2>1. AllServed(Asks({"spoc assignments", "spoc week"}, {}))
    BY NothingServed DEF Asks
  <2>2. AllServed(Asks({"spoc schedule"}, All({"start-date", "end-date"})))
    BY TheseServed DEF Asks, Promised, DemandsMore
  <2>3. AllServed(Asks({"spoc courses"}, All({"term"})))
    BY TheseServed DEF Asks, Promised, DemandsMore
  <2>4. AllServed(Asks({"spoc assignment show"}, All({"id"})))
    BY TheseServed DEF Asks, Promised, DemandsMore
  <2>5. AllServed(Changes({"spoc homework submit"}, {{"id", "assignment-id"}} \cup All({"course-id",
      "item-id", "name"})))
    <3>1. ASSUME NEW o \in {"course-id", "item-id", "name", "id"} PROVE Promised("spoc homework submit", o)
      BY <3>1 DEF Promised
    <3>2. Served("spoc homework submit", {{"id", "assignment-id"}} \cup All({"course-id", "item-id", "name"}))
      BY <3>1 DEF Served, All
    <3> QED  BY <3>2, EachServed DEF Changes
  <2> QED  BY <2>1, <2>2, <2>3, <2>4, <2>5, JoinedServed DEF SpocCommands
<1>15. AllServed(JudgeCommands)
  <2>1. AllServed(Asks({"judge assignments"}, {}))
    BY NothingServed DEF Asks
  <2>2. AllServed(Asks({"judge assignment show", "judge assignment details"}, {{"assignment-id", "id"}}))
    BY EachServed DEF Asks, Served, Promised, DemandsMore
  <2>3. AllServed(Asks({"judge assignment details-batch"}, All({"input"})))
    BY TheseServed DEF Asks, Promised, DemandsMore
  <2> QED  BY <2>1, <2>2, <2>3, JoinedServed DEF JudgeCommands
<1>16. AllServed(BykcCommands)
  <2>1. AllServed(Asks({"bykc profile", "bykc courses", "bykc chosen", "bykc stats"}, {}))
    BY NothingServed DEF Asks
  <2>2. AllServed(Asks({"bykc course show"}, {{"course-id", "id"}}))
    BY EachServed DEF Asks, Served, Promised, DemandsMore
  <2>3. AllServed(Changes({"bykc select", "bykc unselect"}, {{"course-id", "id"}}))
    BY EachServed DEF Changes, Served, Promised, DemandsMore
  <2>4. AllServed(Changes({"bykc sign"}, {{"course-id", "id"}} \cup All({"sign-type", "lat", "lng"})))
    <3>1. ASSUME NEW o \in {"course-id", "sign-type", "lat", "lng"} PROVE Promised("bykc sign", o)
      BY <3>1 DEF Promised
    <3>2. Served("bykc sign", {{"course-id", "id"}} \cup All({"sign-type", "lat", "lng"}))
      BY <3>1 DEF Served, All
    <3> QED  BY <3>2, EachServed DEF Changes
  <2> QED  BY <2>1, <2>2, <2>3, <2>4, JoinedServed DEF BykcCommands
<1>17. AllServed(CgyyCommands)
  <2>1. AllServed(Asks({"cgyy sites", "cgyy purpose-types", "cgyy orders", "cgyy order lock-code"}, {}))
    BY NothingServed DEF Asks
  <2>2. AllServed(Asks({"cgyy day-info"}, {{"date"}, {"site-id", "id"}}))
    BY EachServed DEF Asks, Served, Promised, DemandsMore
  <2>3. AllServed(Asks({"cgyy order show"}, {{"order-id", "id"}}))
    BY EachServed DEF Asks, Served, Promised, DemandsMore
  <2>4. AllServed(Changes({"cgyy order cancel"}, {{"order-id", "id"}}))
    BY EachServed DEF Changes, Served, Promised, DemandsMore
  <2>5. AllServed(Changes({"cgyy reserve"}, All({"site-id", "space-id", "date", "id", "purpose-type",
      "theme", "phone", "joiners", "captcha", "token"})))
    <3>1. ASSUME NEW o \in {"site-id", "space-id", "date", "id", "purpose-type", "theme", "phone", "joiners",
                           "captcha", "token"}
          PROVE  Promised("cgyy reserve", o)
      BY <3>1 DEF Promised
    <3> QED  BY <3>1, TheseServed DEF Changes
  <2> QED  BY <2>1, <2>2, <2>3, <2>4, <2>5, JoinedServed DEF CgyyCommands
<1>18. AllServed(LibbookCommands)
  <2>1. AllServed(Asks({"libbook libraries", "libbook reservations"}, {}))
    BY NothingServed DEF Asks
  <2>2. AllServed(Asks({"libbook areas"}, All({"library-id"})))
    BY TheseServed DEF Asks, Promised, DemandsMore
  <2>3. AllServed(Asks({"libbook seats"}, All({"area-id"})))
    BY TheseServed DEF Asks, Promised, DemandsMore
  <2>4. AllServed(Asks({"libbook area show"}, {{"area-id", "id"}}))
    BY EachServed DEF Asks, Served, Promised, DemandsMore
  <2>5. AllServed(Changes({"libbook book"}, {{"seat-id", "id"}, {"date"}, {"segment", "start-time"},
      {"segment", "end-time"}}))
    BY EachServed DEF Changes, Served, Promised, DemandsMore
  <2>6. AllServed(Changes({"libbook cancel"}, {{"booking-id", "id"}}))
    BY EachServed DEF Changes, Served, Promised, DemandsMore
  <2> QED  BY <2>1, <2>2, <2>3, <2>4, <2>5, <2>6, JoinedServed DEF LibbookCommands
<1>19. AllServed(PersonCommands)
  BY NothingServed DEF Asks, PersonCommands
<1>20. AllServed(SrsCommands)
  <2>1. AllServed(Asks({"srs config", "srs batch", "srs preselected", "srs selected", "srs course query"},
      {}))
    BY NothingServed DEF Asks
  <2>2. AllServed(Changes({"srs course select", "srs course drop"}, {{"item-id", "id"}, {"token"}}))
    BY EachServed DEF Changes, Served, Promised, DemandsMore
  <2>3. AllServed(Changes({"srs course preselect"}, {{"item-id", "id"}, {"token"}, {"batch-id"},
      {"index"}}))
    BY EachServed DEF Changes, Served, Promised, DemandsMore
  <2> QED  BY <2>1, <2>2, <2>3, JoinedServed DEF SrsCommands
<1>21. AllServed(SigninCommands)
  <2>1. AllServed(Asks({"signin today"}, {}))
    BY NothingServed DEF Asks
  <2>2. AllServed(Asks({"signin schedule"}, All({"date"})))
    BY TheseServed DEF Asks, Promised, DemandsMore
  <2>3. AllServed(Asks({"signin courses"}, All({"term"})))
    BY TheseServed DEF Asks, Promised, DemandsMore
  <2>4. AllServed(Asks({"signin course schedule"}, {{"course-id", "id"}}))
    BY EachServed DEF Asks, Served, Promised, DemandsMore
  <2>5. AllServed(Changes({"signin do"}, {{"course-id", "id"}}))
    BY EachServed DEF Changes, Served, Promised, DemandsMore
  <2> QED  BY <2>1, <2>2, <2>3, <2>4, <2>5, JoinedServed DEF SigninCommands
<1>22. AllServed(WifiCommands)
  <2>1. AllServed(Changes({"wifi login"}, {{"username", "saved"}, {"password", "saved"}}))
    BY EachServed DEF Changes, Served, Promised, DemandsMore
  <2>2. AllServed(Changes({"wifi logout"}, {{"username", "saved"}}))
    BY EachServed DEF Changes, Served, Promised, DemandsMore
  <2> QED  BY <2>1, <2>2, JoinedServed DEF WifiCommands
<1>23. AllServed(YgdkCommands)
  <2>1. AllServed(Asks({"ygdk overview", "ygdk records"}, {}))
    BY NothingServed DEF Asks
  <2>2. AllServed(Changes({"ygdk submit"}, All({"photo"})))
    BY TheseServed DEF Changes, Promised, DemandsMore
  <2> QED  BY <2>1, <2>2, JoinedServed DEF YgdkCommands
<1>24. AllServed(EvaluationCommands)
  <2>1. AllServed(Asks({"evaluation list"}, {}))
    BY NothingServed DEF Asks
  <2>2. AllServed(Asks({"evaluation form"}, {{"id", "course-id"}}))
    BY EachServed DEF Asks, Served, Promised, DemandsMore
  <2>3. AllServed(Changes({"evaluation submit"}, {}))
    BY NothingServed DEF Changes
  <2>4. AllServed(Changes({"evaluation form submit"}, {{"id", "course-id"}}))
    BY EachServed DEF Changes, Served, Promised, DemandsMore
  <2> QED  BY <2>1, <2>2, <2>3, <2>4, JoinedServed DEF EvaluationCommands
<1>25. AllServed(FileLists)
  <2>1. AllServed(Asks({"file roots", "file root", "file recycle", "file shares", "file share-history"},
      {}))
    BY NothingServed DEF Asks
  <2>2. AllServed(Asks({"file list", "file size"}, All({"id"})))
    BY TheseServed DEF Asks, Promised, DemandsMore
  <2> QED  BY <2>1, <2>2, JoinedServed DEF FileLists
<1>26. AllServed(FileReads)
  <2>1. AllServed(Asks({"file suggest-name"}, {{"parent-id", "id"}, {"name"}}))
    BY EachServed DEF Asks, Served, Promised, DemandsMore
  <2>2. AllServed(Asks({"file share-record", "file download-url"}, {{"item-id", "id"}}))
    BY EachServed DEF Asks, Served, Promised, DemandsMore
  <2>3. AllServed(Asks({"file share-parse"}, {{"share-id", "id"}}))
    BY EachServed DEF Asks, Served, Promised, DemandsMore
  <2>4. AllServed(Asks({"file batch-download-url"}, {{"input", "item-id", "id"}}))
    BY EachServed DEF Asks, Served, Promised, DemandsMore
  <2> QED  BY <2>1, <2>2, <2>3, <2>4, JoinedServed DEF FileReads
<1>27. AllServed(FileChanges)
  <2>1. AllServed(Changes({"file mkdir"}, {{"parent-id", "id"}, {"name"}}))
    BY EachServed DEF Changes, Served, Promised, DemandsMore
  <2>2. AllServed(Changes({"file rename"}, {{"item-id", "id"}, {"name"}}))
    BY EachServed DEF Changes, Served, Promised, DemandsMore
  <2>3. AllServed(Changes({"file move", "file copy"}, {{"item-id", "id"}, {"dest-id"}}))
    BY EachServed DEF Changes, Served, Promised, DemandsMore
  <2>4. AllServed(Changes({"file delete", "file recycle-delete", "file recycle-restore"}, {{"item-id",
      "id"}}))
    BY EachServed DEF Changes, Served, Promised, DemandsMore
  <2> QED  BY <2>1, <2>2, <2>3, <2>4, JoinedServed DEF FileChanges
<1>28. AllServed(ShareChanges)
  <2>1. AllServed(Changes({"file share-create"}, {{"item-id", "id"}, {"name"}}))
    BY EachServed DEF Changes, Served, Promised, DemandsMore
  <2>2. AllServed(Changes({"file share-update", "file share-delete"}, {{"share-id", "id"}}))
    BY EachServed DEF Changes, Served, Promised, DemandsMore
  <2> QED  BY <2>1, <2>2, JoinedServed DEF ShareChanges
<1>29. AllServed(FileUpload)
  BY TheseServed DEF Changes, Promised, DemandsMore, FileUpload
<1>30. AllServed(TdImages)
  <2>1. AllServed(Keeps({"td init"}, {}))
    BY NothingServed DEF Keeps
  <2>2. AllServed(Keeps({"td image add"}, All({"photo"})))
    BY TheseServed DEF Keeps, Promised, DemandsMore
  <2>3. AllServed(Keeps({"td image delete"}, All({"name"})))
    BY TheseServed DEF Keeps, Promised, DemandsMore
  <2>4. AllServed(Shows({"td image list"}))
    BY NothingServed DEF Shows
  <2> QED  BY <2>1, <2>2, <2>3, <2>4, JoinedServed DEF TdImages
<1>31. AllServed(TdUsers)
  <2>1. AllServed(Keeps({"td user add"}, All({"student-id"}) \cup
      {{"quick", o} : o \in {"entrance", "exit", "entrance-image", "exit-image"}}))
    BY EachServed DEF Keeps, Served, DemandsMore
  <2>4. AllServed(Keeps({"td user delete"}, All({"student-id"})))
    BY TheseServed DEF Keeps, Promised, DemandsMore
  <2>2. AllServed(Each({"td user show"}, "shows", All({"student-id"})))
    BY TheseServed DEF Promised, DemandsMore
  <2>3. AllServed(Shows({"td user list", "td status", "td count"}))
    BY NothingServed DEF Shows
  <2> QED  BY <2>1, <2>2, <2>3, <2>4, JoinedServed DEF TdUsers
<1>32. AllServed(TdRounds)
  <2>1. AllServed(Keeps({"td run"}, All({"once"})))
    BY TheseServed DEF Keeps, Promised, DemandsMore
  <2>2. AllServed(Keeps({"td count --refresh", "td scheduler once", "td scheduler clear-errors",
      "td scheduler watch"}, {}))
    BY NothingServed DEF Keeps
  <2> QED  BY <2>1, <2>2, JoinedServed DEF TdRounds
<1> QED  BY <1>1, <1>2, <1>3, <1>4, <1>5, <1>6, <1>7, <1>8, <1>9, <1>10, <1>11, <1>12, <1>13, <1>14, <1>15,
    <1>16, <1>17, <1>18, <1>19, <1>20, <1>21, <1>22, <1>23, <1>24, <1>25, <1>26, <1>27, <1>28, <1>29, <1>30,
    <1>31, <1>32, JoinedServed DEF Handlers

LEMMA EveryHelpListed == AllListed(Required)
<1>1. AllListed(HelpCampus)
  <2>1. AllListed(Help({"course today", "exam list", "term list", "week list"}, {}))
    <3>1. ASSUME NEW c \in {"course today", "exam list", "term list", "week list"}, NEW o, Promised(c, o)
          PROVE  o \in {}
      BY <3>1 DEF Promised
    <3> QED  BY <3>1, HelpListed DEF Lists
  <2>2. AllListed(Help({"course date"}, {"date"}))
    <3>1. ASSUME NEW c \in {"course date"}, NEW o, Promised(c, o) PROVE  o \in {"date"}
      BY <3>1 DEF Promised
    <3> QED  BY <3>1, HelpListed DEF Lists
  <2>3. AllListed(Help({"course week"}, {"week"}))
    <3>1. ASSUME NEW c \in {"course week"}, NEW o, Promised(c, o) PROVE  o \in {"week"}
      BY <3>1 DEF Promised
    <3> QED  BY <3>1, HelpListed DEF Lists
  <2>4. AllListed(Help({"classroom query"}, {"campus", "date"}))
    <3>1. ASSUME NEW c \in {"classroom query"}, NEW o, Promised(c, o) PROVE  o \in {"campus", "date"}
      BY <3>1 DEF Promised
    <3> QED  BY <3>1, HelpListed DEF Lists
  <2> QED  BY <2>1, <2>2, <2>3, <2>4, JoinedListed DEF HelpCampus
<1>2. AllListed(HelpLive)
  <2>1. AllListed(Help({"live week"}, {"start-date", "end-date"}))
    <3>1. ASSUME NEW c \in {"live week"}, NEW o, Promised(c, o) PROVE  o \in {"start-date", "end-date"}
      BY <3>1 DEF Promised
    <3> QED  BY <3>1, HelpListed DEF Lists
  <2>2. AllListed(Help({"live resources"}, {"date"}))
    <3>1. ASSUME NEW c \in {"live resources"}, NEW o, Promised(c, o) PROVE  o \in {"date"}
      BY <3>1 DEF Promised
    <3> QED  BY <3>1, HelpListed DEF Lists
  <2>3. AllListed(Help({"live detail"}, {"course-id", "sub-id"}))
    <3>1. ASSUME NEW c \in {"live detail"}, NEW o, Promised(c, o) PROVE  o \in {"course-id", "sub-id"}
      BY <3>1 DEF Promised
    <3> QED  BY <3>1, HelpListed DEF Lists
  <2>4. AllListed(Help({"live download"}, {"out-dir"}))
    <3>1. ASSUME NEW c \in {"live download"}, NEW o, Promised(c, o) PROVE  o \in {"out-dir"}
      BY <3>1 DEF Promised
    <3> QED  BY <3>1, HelpListed DEF Lists
  <2> QED  BY <2>1, <2>2, <2>3, <2>4, JoinedListed DEF HelpLive
<1>3. AllListed(HelpFiles)
  <2>1. AllListed(Help({"file roots", "file root", "file recycle", "file shares"}, {}))
    <3>1. ASSUME NEW c \in {"file roots", "file root", "file recycle", "file shares"}, NEW o, Promised(c, o)
          PROVE  o \in {}
      BY <3>1 DEF Promised
    <3> QED  BY <3>1, HelpListed DEF Lists
  <2>2. AllListed(Help({"file list", "file size", "file delete", "file recycle-delete",
      "file recycle-restore", "file share-record", "file share-parse", "file download-url"}, {"id"}))
    <3>1. ASSUME NEW c \in {"file list", "file size", "file delete", "file recycle-delete",
        "file recycle-restore", "file share-record", "file share-parse", "file download-url"}, NEW o,
        Promised(c, o)
          PROVE  o \in {"id"}
      BY <3>1 DEF Promised
    <3> QED  BY <3>1, HelpListed DEF Lists
  <2>3. AllListed(Help({"file suggest-name", "file mkdir"}, {"parent-id", "name"}))
    <3>1. ASSUME NEW c \in {"file suggest-name", "file mkdir"}, NEW o, Promised(c, o)
          PROVE  o \in {"parent-id", "name"}
      BY <3>1 DEF Promised
    <3> QED  BY <3>1, HelpListed DEF Lists
  <2>4. AllListed(Help({"file rename", "file share-create"}, {"id", "name"}))
    <3>1. ASSUME NEW c \in {"file rename", "file share-create"}, NEW o, Promised(c, o)
          PROVE  o \in {"id", "name"}
      BY <3>1 DEF Promised
    <3> QED  BY <3>1, HelpListed DEF Lists
  <2>5. AllListed(Help({"file move", "file copy"}, {"id", "dest-id"}))
    <3>1. ASSUME NEW c \in {"file move", "file copy"}, NEW o, Promised(c, o)
          PROVE  o \in {"id", "dest-id"}
      BY <3>1 DEF Promised
    <3> QED  BY <3>1, HelpListed DEF Lists
  <2>6. AllListed(Help({"file share-update"}, {"share-id", "id", "name"}))
    <3>1. ASSUME NEW c \in {"file share-update"}, NEW o, Promised(c, o)
          PROVE  o \in {"share-id", "id", "name"}
      BY <3>1 DEF Promised
    <3> QED  BY <3>1, HelpListed DEF Lists
  <2>7. AllListed(Help({"file share-delete"}, {"share-id"}))
    <3>1. ASSUME NEW c \in {"file share-delete"}, NEW o, Promised(c, o) PROVE  o \in {"share-id"}
      BY <3>1 DEF Promised
    <3> QED  BY <3>1, HelpListed DEF Lists
  <2>8. AllListed(Help({"file batch-download-url"}, {"input"}))
    <3>1. ASSUME NEW c \in {"file batch-download-url"}, NEW o, Promised(c, o) PROVE  o \in {"input"}
      BY <3>1 DEF Promised
    <3> QED  BY <3>1, HelpListed DEF Lists
  <2>9. AllListed(Help({"file upload"}, {"parent-id", "path"}))
    <3>1. ASSUME NEW c \in {"file upload"}, NEW o, Promised(c, o) PROVE  o \in {"parent-id", "path"}
      BY <3>1 DEF Promised
    <3> QED  BY <3>1, HelpListed DEF Lists
  <2> QED  BY <2>1, <2>2, <2>3, <2>4, <2>5, <2>6, <2>7, <2>8, <2>9, JoinedListed DEF HelpFiles
<1>4. AllListed(HelpSrs)
  <2>1. AllListed(Help({"srs config", "srs batch", "srs course query", "srs preselected", "srs selected"},
      {}))
    <3>1. ASSUME NEW c \in {"srs config", "srs batch", "srs course query", "srs preselected",
        "srs selected"}, NEW o, Promised(c, o)
          PROVE  o \in {}
      BY <3>1 DEF Promised
    <3> QED  BY <3>1, HelpListed DEF Lists
  <2>2. AllListed(Help({"srs course preselect"}, {"id", "scope", "token", "batch-id", "index"}))
    <3>1. ASSUME NEW c \in {"srs course preselect"}, NEW o, Promised(c, o)
          PROVE  o \in {"id", "scope", "token", "batch-id", "index"}
      BY <3>1 DEF Promised
    <3> QED  BY <3>1, HelpListed DEF Lists
  <2>3. AllListed(Help({"srs course select", "srs course drop"}, {"id", "scope", "token"}))
    <3>1. ASSUME NEW c \in {"srs course select", "srs course drop"}, NEW o, Promised(c, o)
          PROVE  o \in {"id", "scope", "token"}
      BY <3>1 DEF Promised
    <3> QED  BY <3>1, HelpListed DEF Lists
  <2> QED  BY <2>1, <2>2, <2>3, JoinedListed DEF HelpSrs
<1>5. AllListed(HelpGeneral)
  <2>1. AllListed(Help({"capability show", "config show", "cache clear", "logout", "relogin", "version",
      "help", "mode", "mode vpn", "mode direct", "whoami"}, {}))
    <3>1. ASSUME NEW c \in {"capability show", "config show", "cache clear", "logout", "relogin", "version",
        "help", "mode", "mode vpn", "mode direct", "whoami"}, NEW o, Promised(c, o)
          PROVE  o \in {}
      BY <3>1 DEF Promised
    <3> QED  BY <3>1, HelpListed DEF Lists
  <2>2. AllListed(Help({"login"}, {"username", "password"}))
    <3>1. ASSUME NEW c \in {"login"}, NEW o, Promised(c, o) PROVE  o \in {"username", "password"}
      BY <3>1 DEF Promised
    <3> QED  BY <3>1, HelpListed DEF Lists
  <2>3. AllListed(Help({"config set mode", "config set proxy"}, {"key", "value"}))
    <3>1. ASSUME NEW c \in {"config set mode", "config set proxy"}, NEW o, Promised(c, o)
          PROVE  o \in {"key", "value"}
      BY <3>1 DEF Promised
    <3> QED  BY <3>1, HelpListed DEF Lists
  <2> QED  BY <2>1, <2>2, <2>3, JoinedListed DEF HelpGeneral
<1>6. AllListed(HelpTd)
  <2>1. AllListed(Help({"td init", "td image list", "td user list", "td status", "td count",
      "td scheduler once", "td scheduler clear-errors", "td scheduler watch"}, {}))
    <3>1. ASSUME NEW c \in {"td init", "td image list", "td user list", "td status", "td count",
        "td scheduler once", "td scheduler clear-errors", "td scheduler watch"}, NEW o, Promised(c, o)
          PROVE  o \in {}
      BY <3>1 DEF Promised
    <3> QED  BY <3>1, HelpListed DEF Lists
  <2>2. AllListed(Help({"td image add"}, {"photo"}))
    <3>1. ASSUME NEW c \in {"td image add"}, NEW o, Promised(c, o) PROVE  o \in {"photo"}
      BY <3>1 DEF Promised
    <3> QED  BY <3>1, HelpListed DEF Lists
  <2>3. AllListed(Help({"td image delete"}, {"name"}))
    <3>1. ASSUME NEW c \in {"td image delete"}, NEW o, Promised(c, o) PROVE  o \in {"name"}
      BY <3>1 DEF Promised
    <3> QED  BY <3>1, HelpListed DEF Lists
  <2>4. AllListed(Help({"td user add", "td user show", "td user delete"}, {"student-id"}))
    <3>1. ASSUME NEW c \in {"td user add", "td user show", "td user delete"}, NEW o, Promised(c, o)
          PROVE  o \in {"student-id"}
      BY <3>1 DEF Promised
    <3> QED  BY <3>1, HelpListed DEF Lists
  <2>5. AllListed(Help({"td run"}, {"once"}))
    <3>1. ASSUME NEW c \in {"td run"}, NEW o, Promised(c, o) PROVE  o \in {"once"}
      BY <3>1 DEF Promised
    <3> QED  BY <3>1, HelpListed DEF Lists
  <2> QED  BY <2>1, <2>2, <2>3, <2>4, <2>5, JoinedListed DEF HelpTd
<1>7. AllListed(HelpStudy)
  <2>1. AllListed(Help({"user info", "app version", "app announcement", "grade list", "grade all",
      "spoc week", "spoc assignments", "judge assignments"}, {}))
    <3>1. ASSUME NEW c \in {"user info", "app version", "app announcement", "grade list", "grade all",
        "spoc week", "spoc assignments", "judge assignments"}, NEW o, Promised(c, o)
          PROVE  o \in {}
      BY <3>1 DEF Promised
    <3> QED  BY <3>1, HelpListed DEF Lists
  <2>2. AllListed(Help({"spoc schedule"}, {"start-date", "end-date"}))
    <3>1. ASSUME NEW c \in {"spoc schedule"}, NEW o, Promised(c, o)
          PROVE  o \in {"start-date", "end-date"}
      BY <3>1 DEF Promised
    <3> QED  BY <3>1, HelpListed DEF Lists
  <2>3. AllListed(Help({"spoc courses"}, {"term"}))
    <3>1. ASSUME NEW c \in {"spoc courses"}, NEW o, Promised(c, o) PROVE  o \in {"term"}
      BY <3>1 DEF Promised
    <3> QED  BY <3>1, HelpListed DEF Lists
  <2>4. AllListed(Help({"spoc assignment show"}, {"id"}))
    <3>1. ASSUME NEW c \in {"spoc assignment show"}, NEW o, Promised(c, o) PROVE  o \in {"id"}
      BY <3>1 DEF Promised
    <3> QED  BY <3>1, HelpListed DEF Lists
  <2>5. AllListed(Help({"spoc homework submit"}, {"id", "course-id", "item-id", "name"}))
    <3>1. ASSUME NEW c \in {"spoc homework submit"}, NEW o, Promised(c, o)
          PROVE  o \in {"id", "course-id", "item-id", "name"}
      BY <3>1 DEF Promised
    <3> QED  BY <3>1, HelpListed DEF Lists
  <2>6. AllListed(Help({"judge assignment show", "judge assignment details"}, {"assignment-id"}))
    <3>1. ASSUME NEW c \in {"judge assignment show", "judge assignment details"}, NEW o, Promised(c, o)
          PROVE  o \in {"assignment-id"}
      BY <3>1 DEF Promised
    <3> QED  BY <3>1, HelpListed DEF Lists
  <2>7. AllListed(Help({"judge assignment details-batch"}, {"input"}))
    <3>1. ASSUME NEW c \in {"judge assignment details-batch"}, NEW o, Promised(c, o)
          PROVE  o \in {"input"}
      BY <3>1 DEF Promised
    <3> QED  BY <3>1, HelpListed DEF Lists
  <2> QED  BY <2>1, <2>2, <2>3, <2>4, <2>5, <2>6, <2>7, JoinedListed DEF HelpStudy
<1>8. AllListed(HelpSignin)
  <2>1. AllListed(Help({"signin today", "signin do", "wifi login", "wifi logout"}, {}))
    <3>1. ASSUME NEW c \in {"signin today", "signin do", "wifi login", "wifi logout"}, NEW o, Promised(c, o)
          PROVE  o \in {}
      BY <3>1 DEF Promised
    <3> QED  BY <3>1, HelpListed DEF Lists
  <2>2. AllListed(Help({"signin schedule"}, {"date"}))
    <3>1. ASSUME NEW c \in {"signin schedule"}, NEW o, Promised(c, o) PROVE  o \in {"date"}
      BY <3>1 DEF Promised
    <3> QED  BY <3>1, HelpListed DEF Lists
  <2>3. AllListed(Help({"signin courses"}, {"term"}))
    <3>1. ASSUME NEW c \in {"signin courses"}, NEW o, Promised(c, o) PROVE  o \in {"term"}
      BY <3>1 DEF Promised
    <3> QED  BY <3>1, HelpListed DEF Lists
  <2>4. AllListed(Help({"signin course schedule"}, {"course-id"}))
    <3>1. ASSUME NEW c \in {"signin course schedule"}, NEW o, Promised(c, o) PROVE  o \in {"course-id"}
      BY <3>1 DEF Promised
    <3> QED  BY <3>1, HelpListed DEF Lists
  <2> QED  BY <2>1, <2>2, <2>3, <2>4, JoinedListed DEF HelpSignin
<1>9. AllListed(HelpBookings)
  <2>1. AllListed(Help({"bykc profile", "bykc courses", "bykc chosen", "bykc stats", "cgyy sites",
      "cgyy purpose-types", "cgyy orders", "cgyy order lock-code", "libbook libraries",
      "libbook reservations"}, {}))
    <3>1. ASSUME NEW c \in {"bykc profile", "bykc courses", "bykc chosen", "bykc stats", "cgyy sites",
        "cgyy purpose-types", "cgyy orders", "cgyy order lock-code", "libbook libraries",
        "libbook reservations"}, NEW o, Promised(c, o)
          PROVE  o \in {}
      BY <3>1 DEF Promised
    <3> QED  BY <3>1, HelpListed DEF Lists
  <2>2. AllListed(Help({"bykc course show", "bykc select", "bykc unselect"}, {"course-id"}))
    <3>1. ASSUME NEW c \in {"bykc course show", "bykc select", "bykc unselect"}, NEW o, Promised(c, o)
          PROVE  o \in {"course-id"}
      BY <3>1 DEF Promised
    <3> QED  BY <3>1, HelpListed DEF Lists
  <2>3. AllListed(Help({"bykc sign"}, {"course-id", "sign-type", "lat", "lng"}))
    <3>1. ASSUME NEW c \in {"bykc sign"}, NEW o, Promised(c, o)
          PROVE  o \in {"course-id", "sign-type", "lat", "lng"}
      BY <3>1 DEF Promised
    <3> QED  BY <3>1, HelpListed DEF Lists
  <2>4. AllListed(Help({"cgyy day-info"}, {"site-id", "date"}))
    <3>1. ASSUME NEW c \in {"cgyy day-info"}, NEW o, Promised(c, o) PROVE  o \in {"site-id", "date"}
      BY <3>1 DEF Promised
    <3> QED  BY <3>1, HelpListed DEF Lists
  <2>5. AllListed(Help({"cgyy order show", "cgyy order cancel"}, {"order-id"}))
    <3>1. ASSUME NEW c \in {"cgyy order show", "cgyy order cancel"}, NEW o, Promised(c, o)
          PROVE  o \in {"order-id"}
      BY <3>1 DEF Promised
    <3> QED  BY <3>1, HelpListed DEF Lists
  <2>6. AllListed(Help({"cgyy reserve"}, {"site-id", "space-id", "date", "id", "purpose-type", "theme",
      "phone", "joiners", "captcha", "token"}))
    <3>1. ASSUME NEW c \in {"cgyy reserve"}, NEW o, Promised(c, o)
          PROVE  o \in {"site-id", "space-id", "date", "id", "purpose-type", "theme", "phone", "joiners", "captcha", "token"}
      BY <3>1 DEF Promised
    <3> QED  BY <3>1, HelpListed DEF Lists
  <2>7. AllListed(Help({"libbook areas"}, {"library-id"}))
    <3>1. ASSUME NEW c \in {"libbook areas"}, NEW o, Promised(c, o) PROVE  o \in {"library-id"}
      BY <3>1 DEF Promised
    <3> QED  BY <3>1, HelpListed DEF Lists
  <2>8. AllListed(Help({"libbook seats", "libbook area show"}, {"area-id"}))
    <3>1. ASSUME NEW c \in {"libbook seats", "libbook area show"}, NEW o, Promised(c, o)
          PROVE  o \in {"area-id"}
      BY <3>1 DEF Promised
    <3> QED  BY <3>1, HelpListed DEF Lists
  <2>9. AllListed(Help({"libbook book"}, {"seat-id", "date"}))
    <3>1. ASSUME NEW c \in {"libbook book"}, NEW o, Promised(c, o) PROVE  o \in {"seat-id", "date"}
      BY <3>1 DEF Promised
    <3> QED  BY <3>1, HelpListed DEF Lists
  <2>10. AllListed(Help({"libbook cancel"}, {"booking-id"}))
    <3>1. ASSUME NEW c \in {"libbook cancel"}, NEW o, Promised(c, o) PROVE  o \in {"booking-id"}
      BY <3>1 DEF Promised
    <3> QED  BY <3>1, HelpListed DEF Lists
  <2> QED  BY <2>1, <2>2, <2>3, <2>4, <2>5, <2>6, <2>7, <2>8, <2>9, <2>10, JoinedListed DEF HelpBookings
<1>10. AllListed(HelpLife)
  <2>1. AllListed(Help({"ygdk overview", "ygdk records", "evaluation list", "evaluation form",
      "evaluation submit", "evaluation form submit", "todo list"}, {}))
    <3>1. ASSUME NEW c \in {"ygdk overview", "ygdk records", "evaluation list", "evaluation form",
        "evaluation submit", "evaluation form submit", "todo list"}, NEW o, Promised(c, o)
          PROVE  o \in {}
      BY <3>1 DEF Promised
    <3> QED  BY <3>1, HelpListed DEF Lists
  <2>2. AllListed(Help({"ygdk submit"}, {"start-time", "end-time", "place", "photo"}))
    <3>1. ASSUME NEW c \in {"ygdk submit"}, NEW o, Promised(c, o)
          PROVE  o \in {"start-time", "end-time", "place", "photo"}
      BY <3>1 DEF Promised
    <3> QED  BY <3>1, HelpListed DEF Lists
  <2> QED  BY <2>1, <2>2, JoinedListed DEF HelpLife
<1> QED  BY <1>1, <1>2, <1>3, <1>4, <1>5, <1>6, <1>7, <1>8, <1>9, <1>10, JoinedListed DEF Required

-----------------------------------------------------------------------------
(* One download.                                                           *)

Reports == [status : Statuses \cup {"none"}, slides : {"unasked", "none", "all", "some", "lost"},
            video : {"unasked", "none", "hls", "bytes", "nothing", "lost"}, cut : BOOLEAN, gaps : BOOLEAN]

LiveTypes == LiveTypeOK /\ report \in [Resource -> Reports]

\* What the slides have made of the status, once they have been dealt with.
AfterSlides ==
    IF "ppt" \in wants
      THEN IF slides = "none" THEN "partial" ELSE SlidesStatus(slides, gaps)
      ELSE "empty"

SlidesDone ==
    IF "ppt" \in wants
      THEN /\ slides \in {"none", "all", "some", "lost"}
           /\ slides \in {"some", "lost"} => gaps
      ELSE slides = "unasked"

VideoFound == video \in IF "video" \in wants THEN {"none", "file", "hls"} ELSE {"unasked"}

\* When the outputs are written the status says what was fetched.
Fetched ==
    /\ SlidesDone
    /\ IF "video" \in wants
         THEN /\ video \in {"none", "hls", "bytes", "nothing", "lost"}
              /\ status = VideoStatus(AfterSlides, video)
         ELSE video = "unasked" /\ "ppt" \in wants /\ status = AfterSlides

Stage ==
    /\ doing \notin left
    /\ step = "list" => \A r \in Resource : report[r] = Unreported
    /\ step # "off" => wants # {} /\ fate = "none"
    /\ step \in {"detail", "slides"} => status = "empty"
    /\ step = "slides" => "ppt" \in wants /\ slides \in {"named", "unasked"} /\ VideoFound
    /\ step = "images" => "ppt" \in wants /\ VideoFound
    /\ step = "video" => "video" \in wants /\ VideoFound /\ SlidesDone /\ status = AfterSlides
    /\ step \in {"pptx", "mp4"} => Fetched
    /\ step = "mp4" /\ HasSlides => New(doing, "pptx")

LiveInv == LiveTypes /\ Stage /\ StatusIsTrue

\* What was done is as it was.
Undone == UNCHANGED <<asked, report>> /\ \A r \in Resource : r # doing => files'[r] = files[r]

LEMMA DoneStays ==
    ASSUME LiveInv, Undone
    PROVE  StatusIsTrue'
<1>1. ASSUME NEW r \in Resource, report[r] # Unreported
      PROVE  files'[r] = files[r]
  BY <1>1 DEF LiveInv, LiveTypes, LiveTypeOK, Undone
<1>2. ASSUME NEW r \in Resource, NEW f, report[r] # Unreported
      PROVE  New(r, f)' = New(r, f)
  BY <1>1, <1>2 DEF New
<1>3. \A r \in Resource : report[r].status \in {"completed", "partial"} => report[r] # Unreported
  BY DEF Unreported
<1>4. CompletedIsThere'
  BY <1>2, <1>3 DEF LiveInv, StatusIsTrue, CompletedIsThere, Undone, asked
<1>5. PartialIsSomething'
  BY <1>2, <1>3 DEF LiveInv, StatusIsTrue, PartialIsSomething, Undone, asked, File
<1> QED  BY <1>4, <1>5 DEF StatusIsTrue

LEMMA ListLive ==
    ASSUME LiveInv, NEW found \in SUBSET Resource, List(found)
    PROVE  LiveInv'
<1> USE DEF List, LiveInv
<1>1. LiveTypes'
  BY DEF LiveTypes, LiveTypeOK, asked, Stage
<1>2. Stage'
  BY ResourceAssumption DEF LiveTypes, LiveTypeOK, Stage, asked
<1>3. StatusIsTrue'
  BY DoneStays DEF Undone
<1> QED  BY <1>1, <1>2, <1>3

LEMMA FailsLive ==
    ASSUME LiveInv, NEW code \in Fate, Fails(code)
    PROVE  LiveInv'
<1> USE DEF Fails, LiveInv
<1>1. LiveTypes'
  <2>1. \A r \in Resource : report'[r] # Unreported => r \notin left' \cup {doing'}
    BY ResourceAssumption
  <2> QED  BY <2>1 DEF LiveTypes, LiveTypeOK, asked
<1>2. Stage'
  BY DEF Stage, asked
<1>3. StatusIsTrue'
  BY DoneStays DEF Undone
<1> QED  BY <1>1, <1>2, <1>3

LEMMA TakeLive ==
    ASSUME LiveInv, NEW r \in Resource, Take(r)
    PROVE  LiveInv'
<1> USE DEF Take, LiveInv
<1>1. LiveTypes'
  BY ResourceAssumption DEF LiveTypes, LiveTypeOK, asked, Statuses
<1>2. Stage'
  BY DEF Stage, asked
<1>3. StatusIsTrue'
  BY DoneStays DEF Undone
<1> QED  BY <1>1, <1>2, <1>3

LEMMA LiveEndsLive ==
    ASSUME LiveInv, LiveEnds
    PROVE  LiveInv'
<1> USE DEF LiveEnds, LiveInv
<1>1. LiveTypes'
  BY DEF LiveTypes, LiveTypeOK, asked, work, Fate
<1>2. Stage'
  BY ResourceAssumption DEF LiveTypes, LiveTypeOK, Stage, asked, work
<1>3. StatusIsTrue'
  BY DoneStays DEF Undone
<1> QED  BY <1>1, <1>2, <1>3

LEMMA DetailLive ==
    ASSUME LiveInv, NEW d \in ReadDetail, NEW room \in ReadRoom, Detail(d, room)
    PROVE  LiveInv'
<1> USE DEF Detail, LiveInv
<1>0. /\ video' = IF "video" \in wants THEN Merged(d, room).video ELSE "unasked"
      /\ Merged(d, room).video \in {"none", "file", "hls"}
      /\ slides' \in {"named", "unasked"} /\ ("ppt" \notin wants => slides' = "unasked")
  BY DEF Merged, ReadDetail, ReadRoom
<1>1. LiveTypes'
  BY <1>0 DEF LiveTypes, LiveTypeOK, asked, After
<1>2. Stage'
  <2>1. wants \subseteq {"ppt", "video"} /\ wants # {}
    BY DEF LiveTypes, LiveTypeOK, Stage
  <2>2. VideoFound'
    BY <1>0 DEF VideoFound, asked
  <2> QED  BY <1>0, <2>1, <2>2 DEF Stage, asked, After, SlidesDone, AfterSlides
<1>3. StatusIsTrue'
  BY DoneStays DEF Undone
<1> QED  BY <1>1, <1>2, <1>3

LEMMA SlidesLive ==
    ASSUME LiveInv, NEW found \in BOOLEAN, NEW failed \in BOOLEAN, NEW refused \in BOOLEAN,
           Slides(found, failed, refused)
    PROVE  LiveInv'
<1> USE DEF Slides, LiveInv
<1>1. LiveTypes'
  BY DEF LiveTypes, LiveTypeOK, asked, After, Statuses
<1>2. Stage'
  <2>1. wants \subseteq {"ppt", "video"} /\ "ppt" \in wants
    BY DEF LiveTypes, LiveTypeOK, Stage
  <2> QED  BY <2>1 DEF Stage, asked, After, SlidesDone, AfterSlides, VideoFound, Fetched
<1>3. StatusIsTrue'
  BY DoneStays DEF Undone
<1> QED  BY <1>1, <1>2, <1>3

LEMMA ImagesLive ==
    ASSUME LiveInv, NEW s \in {"all", "some", "lost"}, Images(s)
    PROVE  LiveInv'
<1> USE DEF Images, LiveInv
<1>1. LiveTypes'
  BY DEF LiveTypes, LiveTypeOK, asked, After, Statuses, SlidesStatus
<1>2. Stage'
  <2>1. wants \subseteq {"ppt", "video"} /\ "ppt" \in wants
    BY DEF LiveTypes, LiveTypeOK, Stage
  <2> QED  BY <2>1 DEF Stage, asked, After, SlidesDone, AfterSlides, VideoFound, Fetched
<1>3. StatusIsTrue'
  BY DoneStays DEF Undone
<1> QED  BY <1>1, <1>2, <1>3

LEMMA FetchLive ==
    ASSUME LiveInv, NEW v \in {"none", "hls", "bytes", "nothing", "lost"}, Fetch(v)
    PROVE  LiveInv'
<1> USE DEF Fetch, LiveInv
<1>1. LiveTypes'
  BY DEF LiveTypes, LiveTypeOK, asked, Statuses, VideoStatus
<1>2. Stage'
  BY DEF Stage, asked, SlidesDone, AfterSlides, Fetched
<1>3. StatusIsTrue'
  BY DoneStays DEF Undone
<1> QED  BY <1>1, <1>2, <1>3


\* Only files of the recording that is being done are written.
LEMMA PutOnly ==
    ASSUME LiveTypes, NEW f \in File, NEW c \in Content, doing # Nobody, Put(f, c)
    PROVE  /\ files' \in [Resource -> [File -> Content]]
           /\ files'[doing][f] = c
           /\ \A r \in Resource, g \in File : r # doing \/ g # f => files'[r][g] = files[r][g]
           /\ \A r \in Resource : r # doing => files'[r] = files[r]
BY DEF LiveTypes, LiveTypeOK, Put

LEMMA StopsLive ==
    ASSUME LiveInv, NEW f \in File, doing # Nobody, Stops(f)
    PROVE  LiveInv'
<1> USE DEF LiveInv
<1>1. CASE Fails("InvalidArgument")
  BY <1>1, FailsLive DEF Fate
<1>2. CASE /\ fate' = "Storage" /\ step' = "off" /\ doing' = Nobody /\ left' = {}
           /\ Put(f, "torn") \/ UNCHANGED files
           /\ UNCHANGED <<asked, slides, cut, gaps, video, status, report>>
  <2>1. /\ files' \in [Resource -> [File -> Content]]
        /\ \A r \in Resource : r # doing => files'[r] = files[r]
    <3>1. CASE Put(f, "torn")
      BY <3>1, PutOnly DEF Content
    <3>2. CASE UNCHANGED files
      BY <3>2 DEF LiveTypes, LiveTypeOK
    <3> QED  BY <1>2, <3>1, <3>2
  <2>2. LiveTypes'
    <3>1. \A r \in Resource : report'[r] # Unreported => r \notin left' \cup {doing'}
      BY <1>2, ResourceAssumption
    <3> QED  BY <1>2, <2>1, <3>1 DEF LiveTypes, LiveTypeOK, asked, Fate
  <2>3. Stage'
    BY <1>2 DEF Stage, asked
  <2>4. StatusIsTrue'
    BY <1>2, <2>1, DoneStays DEF Undone
  <2> QED  BY <2>2, <2>3, <2>4
<1> QED  BY <1>1, <1>2 DEF Stops

LEMMA WritePptxLive ==
    ASSUME LiveInv, WritePptx
    PROVE  LiveInv'
<1> USE DEF WritePptx, LiveInv
<1>0. doing \in Resource /\ doing # Nobody
  BY DEF LiveTypes, LiveTypeOK
<1>1. /\ files' \in [Resource -> [File -> Content]]
      /\ \A r \in Resource : r # doing => files'[r] = files[r]
      /\ HasSlides => files'[doing]["pptx"] \in Filled
  <2>1. CASE HasSlides
    BY <1>0, <2>1, PutOnly DEF Content, File, Filled
  <2>2. CASE ~HasSlides
    BY <2>2 DEF LiveTypes, LiveTypeOK
  <2> QED  BY <2>1, <2>2
<1>2. LiveTypes'
  BY <1>0, <1>1 DEF LiveTypes, LiveTypeOK, asked, work
<1>3. Stage'
  BY <1>1 DEF Stage, asked, work, Fetched, SlidesDone, AfterSlides, HasSlides, New
<1>4. StatusIsTrue'
  BY <1>1, DoneStays DEF Undone
<1> QED  BY <1>2, <1>3, <1>4

\* What StatusIsTrue says of one recording, its report and its files.
TrueReport(rep, its) ==
    /\ rep.status = "completed" =>
         /\ "ppt" \in wants =>
              \/ its["pptx"] \in Filled /\ rep.slides = "all" /\ ~rep.gaps /\ ~rep.cut
              \/ its["pptx"] \in Filled /\ rep.cut
              \/ rep.slides = "none" /\ rep.video = "hls"
         /\ "video" \in wants => its["mp4"] \in Filled \/ rep.video \in {"none", "nothing"}
    /\ rep.status = "partial" =>
         \/ \E f \in File : its[f] \in Filled
         \/ rep.slides \in {"none", "unasked"} /\ rep.video \in {"none", "nothing", "unasked"}

LEMMA EachReportTrue == StatusIsTrue <=> \A r \in Resource : TrueReport(report[r], files[r])
BY DEF StatusIsTrue, CompletedIsThere, PartialIsSomething, TrueReport, New

Reported(s) == [status |-> s, slides |-> slides, video |-> video, cut |-> cut, gaps |-> gaps]

\* A recording is done.
LEMMA DoneLive ==
    ASSUME LiveInv, step = "mp4", NEW s \in {"completed", "partial", "error"}, Done(s),
           files' \in [Resource -> [File -> Content]],
           \A r \in Resource : r # doing => files'[r] = files[r],
           TrueReport(Reported(s), files'[doing])
    PROVE  LiveInv'
<1> USE DEF LiveInv
<1>0. /\ doing \in Resource /\ doing # Nobody /\ doing' = Nobody
      /\ slides \in {"unasked", "none", "all", "some", "lost"}
      /\ video \in {"unasked", "none", "hls", "bytes", "nothing", "lost"}
      /\ cut \in BOOLEAN /\ gaps \in BOOLEAN
  BY DEF LiveTypes, LiveTypeOK, Stage, Fetched, SlidesDone, Done
<1>1. /\ report' = [report EXCEPT ![doing] = Reported(s)]
      /\ report \in [Resource -> Reports]
  BY DEF Done, Reported, LiveTypes
<1>2. Reported(s) \in Reports /\ Reported(s).status = s
  BY <1>0 DEF Reported, Reports, Statuses
<1>3. report' \in [Resource -> Reports] /\ report'[doing] = Reported(s)
      /\ \A r \in Resource : r # doing => report'[r] = report[r]
  BY <1>0, <1>1, <1>2
<1>4. LiveTypes'
  <2>1. \A r \in Resource : report'[r] # Unreported => r \notin left' \cup {doing'}
    <3>1. doing \notin left
      BY DEF Stage
    <3> QED  BY <1>0, <1>3, <3>1, ResourceAssumption DEF LiveTypes, LiveTypeOK, Done
  <2>2. \A r \in Resource : report'[r] = Unreported \/ report'[r].status \in Statuses \ {"empty"}
    BY <1>0, <1>2, <1>3 DEF LiveTypes, LiveTypeOK, Statuses
  <2> QED  BY <1>0, <1>3, <2>1, <2>2 DEF LiveTypes, LiveTypeOK, Done, asked, Statuses
<1>5. Stage'
  BY ResourceAssumption DEF LiveTypes, LiveTypeOK, Stage, Done, asked
<1>6. StatusIsTrue'
  <2>1. wants' = wants
    BY DEF Done, asked
  <2>2. \A r \in Resource : TrueReport(report'[r], files'[r])
    BY <1>3, EachReportTrue
  <2> QED
    BY <2>1, <2>2 DEF TrueReport, StatusIsTrue, CompletedIsThere, PartialIsSomething, New
<1> QED  BY <1>4, <1>5, <1>6

\* Unless the slides were all fetched the status is not "completed".
LEMMA MeaningOfStatus ==
    ASSUME LiveInv, step = "mp4"
    PROVE  /\ wants \subseteq {"ppt", "video"} /\ wants # {}
           /\ cut \in BOOLEAN /\ gaps \in BOOLEAN
           /\ Settled = status /\ status \in {"completed", "partial", "error"}
           /\ Fetched
           /\ HasSlides => files[doing]["pptx"] \in Filled
BY DEF LiveInv, LiveTypes, LiveTypeOK, Stage, Fetched, SlidesDone, AfterSlides, SlidesStatus, VideoStatus,
       Settled, New

LEMMA WriteVideoLive ==
    ASSUME LiveInv, WriteVideo
    PROVE  LiveInv'
<1>0. doing \in Resource /\ doing # Nobody /\ step = "mp4" /\ video # "hls"
  BY DEF LiveInv, LiveTypes, LiveTypeOK, WriteVideo
<1>1. /\ files' \in [Resource -> [File -> Content]]
      /\ \A r \in Resource : r # doing => files'[r] = files[r]
      /\ files'[doing]["pptx"] = files[doing]["pptx"]
      /\ video = "bytes" => files'[doing]["mp4"] \in Filled
  <2>1. CASE video = "bytes"
    BY <1>0, <2>1, PutOnly DEF LiveInv, WriteVideo, File, Content, Filled
  <2>2. CASE video # "bytes"
    BY <2>2 DEF LiveInv, LiveTypes, LiveTypeOK, WriteVideo
  <2> QED  BY <2>1, <2>2
<1>2. TrueReport(Reported(Settled), files'[doing])
  <2>1. Reported(Settled) = [status |-> status, slides |-> slides, video |-> video, cut |-> cut, gaps |-> gaps]
    BY <1>0, MeaningOfStatus DEF Reported
  <2>2. CASE "ppt" \in wants /\ "video" \in wants
    BY <1>0, <1>1, <2>1, <2>2, MeaningOfStatus
       DEF TrueReport, Fetched, SlidesDone, AfterSlides, SlidesStatus, VideoStatus, HasSlides, File
  <2>3. CASE "ppt" \in wants /\ "video" \notin wants
    BY <1>0, <1>1, <2>1, <2>3, MeaningOfStatus
       DEF TrueReport, Fetched, SlidesDone, AfterSlides, SlidesStatus, VideoStatus, HasSlides, File
  <2>4. CASE "ppt" \notin wants
    BY <1>0, <1>1, <2>1, <2>4, MeaningOfStatus
       DEF TrueReport, Fetched, SlidesDone, AfterSlides, SlidesStatus, VideoStatus, HasSlides, File
  <2> QED  BY <2>2, <2>3, <2>4
<1> QED
  BY <1>0, <1>1, <1>2, MeaningOfStatus, DoneLive DEF WriteVideo

LEMMA MergeLive ==
    ASSUME LiveInv, Merge
    PROVE  LiveInv'
<1>0. doing \in Resource /\ doing # Nobody /\ step = "mp4" /\ video = "hls"
  BY DEF LiveInv, LiveTypes, LiveTypeOK, Merge
<1>1. /\ files' \in [Resource -> [File -> Content]]
      /\ \A r \in Resource : r # doing => files'[r] = files[r]
      /\ files'[doing]["pptx"] = files[doing]["pptx"]
      /\ files'[doing]["mp4"] = "new"
  BY <1>0, PutOnly DEF LiveInv, Merge, File, Content
<1> DEFINE s == IF Settled = "error" THEN "error" ELSE IF gaps THEN "partial" ELSE "completed"
<1>2. TrueReport(Reported(s), files'[doing])
  BY <1>0, <1>1, MeaningOfStatus
     DEF Filled, Reported, TrueReport, Fetched, SlidesDone, AfterSlides, SlidesStatus, VideoStatus, HasSlides, File
<1>3. s \in {"completed", "partial", "error"} /\ Done(s)
  BY DEF Merge
<1> HIDE DEF s
<1> QED
  BY <1>0, <1>1, <1>2, <1>3, DoneLive

\* When ffmpeg fails the old video goes, whatever it leaves is removed.
LEMMA FfmpegOnly ==
    ASSUME LiveTypes, doing # Nobody, NEW c \in Content,
           files' = [files EXCEPT ![doing]["mp4"] = "absent", ![doing]["sidecar"] = c]
    PROVE  /\ files' \in [Resource -> [File -> Content]]
           /\ \A r \in Resource : r # doing => files'[r] = files[r]
           /\ files'[doing]["sidecar"] = c /\ files'[doing]["pptx"] = files[doing]["pptx"]
BY DEF LiveTypes, LiveTypeOK, File, Content

LEMMA SidecarLive ==
    ASSUME LiveInv, Sidecar
    PROVE  LiveInv'
<1>0. doing \in Resource /\ doing # Nobody /\ step = "mp4" /\ video = "hls"
  BY DEF LiveInv, LiveTypes, LiveTypeOK, Sidecar
<1>1. /\ files' \in [Resource -> [File -> Content]]
      /\ \A r \in Resource : r # doing => files'[r] = files[r]
      /\ files'[doing]["sidecar"] \in Filled
  BY <1>0, FfmpegOnly DEF LiveInv, Sidecar, Content, Filled
<1>2. TrueReport(Reported("partial"), files'[doing])
  BY <1>1 DEF Reported, TrueReport, File
<1> QED
  BY <1>0, <1>1, <1>2, DoneLive DEF Sidecar

LEMMA SidecarStopsLive ==
    ASSUME LiveInv, SidecarStops
    PROVE  LiveInv'
<1> USE DEF LiveInv
<1>0. doing \in Resource /\ doing # Nobody
  BY DEF LiveTypes, LiveTypeOK, SidecarStops
<1>1. PICK c \in IF MayWrite("sidecar") THEN {"torn", files[doing]["sidecar"]} ELSE {files[doing]["sidecar"]} :
        files' = [files EXCEPT ![doing]["mp4"] = "absent", ![doing]["sidecar"] = c]
  BY DEF SidecarStops
<1>2. c \in Content
  BY <1>0, <1>1 DEF LiveTypes, LiveTypeOK, Content, File
<1>3. /\ files' \in [Resource -> [File -> Content]]
      /\ \A r \in Resource : r # doing => files'[r] = files[r]
  BY <1>0, <1>1, <1>2, FfmpegOnly
<1>4. LiveTypes'
  <2>1. \A r \in Resource : report'[r] # Unreported => r \notin left' \cup {doing'}
    BY ResourceAssumption DEF SidecarStops
  <2> QED  BY <1>3, <2>1 DEF SidecarStops, LiveTypes, LiveTypeOK, asked, Fate
<1>5. Stage'
  BY DEF SidecarStops, Stage, asked
<1>6. StatusIsTrue'
  BY <1>3, DoneStays DEF SidecarStops, Undone
<1> QED  BY <1>4, <1>5, <1>6

\* Every step of a download keeps what is known of it.
LEMMA LiveStep ==
    ASSUME LiveInv, LiveNext
    PROVE  LiveInv'
<1>1. ASSUME NEW found \in SUBSET Resource, List(found) PROVE LiveInv'
  BY <1>1, ListLive
<1>2. CASE ListFails
  BY <1>2, FailsLive DEF ListFails, Fate
<1>3. CASE LiveEnds
  BY <1>3, LiveEndsLive
<1>4. CASE DetailFails
  BY <1>4, FailsLive DEF DetailFails, Fate
<1>5. ASSUME NEW r \in Resource, Take(r) PROVE LiveInv'
  BY <1>5, TakeLive
<1>6. ASSUME NEW d \in ReadDetail, NEW room \in ReadRoom, Detail(d, room) PROVE LiveInv'
  BY <1>6, DetailLive
<1>7. ASSUME NEW found \in BOOLEAN, NEW failed \in BOOLEAN, NEW refused \in BOOLEAN,
             Slides(found, failed, refused)
      PROVE  LiveInv'
  BY <1>7, SlidesLive
<1>8. ASSUME NEW s \in {"all", "some", "lost"}, Images(s) PROVE LiveInv'
  BY <1>8, ImagesLive
<1>9. ASSUME NEW v \in {"none", "hls", "bytes", "nothing", "lost"}, Fetch(v) PROVE LiveInv'
  BY <1>9, FetchLive
<1>10. CASE WritePptx
  BY <1>10, WritePptxLive
<1>11. step \in {"pptx", "mp4"} => doing # Nobody
  BY DEF LiveInv, LiveTypes, LiveTypeOK
<1>12. CASE WritePptxStops
  BY <1>11, <1>12, StopsLive DEF WritePptxStops, File
<1>13. CASE WriteVideo
  BY <1>13, WriteVideoLive
<1>14. CASE WriteVideoStops
  BY <1>11, <1>14, StopsLive DEF WriteVideoStops, File
<1>15. CASE Merge
  BY <1>15, MergeLive
<1>16. CASE Sidecar
  BY <1>16, SidecarLive
<1>17. CASE SidecarStops
  BY <1>17, SidecarStopsLive
<1> QED
  BY <1>1, <1>2, <1>3, <1>4, <1>5, <1>6, <1>7, <1>8, <1>9, <1>10, <1>12, <1>13, <1>14, <1>15, <1>16, <1>17
     DEF LiveNext

\* No step replaces or removes an old file unless --overwrite was given.
LEMMA LiveKeeps ==
    ASSUME LiveInv, LiveNext, NEW r \in Resource, NEW f \in File,
           files[r][f] = "old", files'[r][f] # "old"
    PROVE  overwrite
<1>0. SUFFICES ASSUME ~overwrite PROVE FALSE
  OBVIOUS
<1>1. MayWrite(f) => r # doing
  BY <1>0 DEF MayWrite
<1>2. files' # files
  OBVIOUS
<1>3. doing # Nobody /\ doing \in Resource
  BY <1>2 DEF LiveInv, LiveTypes, LiveTypeOK, LiveNext, List, ListFails, LiveEnds, DetailFails, Take, Detail, Slides,
              Images, Fetch, Fails, WritePptx, WritePptxStops, WriteVideo, WriteVideoStops, Merge, Sidecar, SidecarStops
<1>4. ASSUME NEW g \in File, NEW c \in Content, MayWrite(g), Put(g, c) PROVE FALSE
  BY <1>1, <1>3, <1>4, PutOnly DEF LiveInv
<1>5. ASSUME NEW c, MayWrite("mp4"), MayWrite("sidecar") \/ c = files[doing]["sidecar"],
             files' = [files EXCEPT ![doing]["mp4"] = "absent", ![doing]["sidecar"] = c]
      PROVE  FALSE
  BY <1>0, <1>3, <1>5 DEF MayWrite, LiveInv, LiveTypes, LiveTypeOK, File
<1>6. CASE WritePptx
  BY <1>2, <1>4, <1>6 DEF WritePptx, File, Content, Filled
<1>7. ASSUME NEW g \in File, Stops(g) PROVE FALSE
  BY <1>2, <1>4, <1>7 DEF Stops, Fails, Content
<1>8. CASE WriteVideo
  BY <1>2, <1>4, <1>8 DEF WriteVideo, File, Content, Filled
<1>9. CASE Merge
  BY <1>4, <1>9 DEF Merge, File, Content
<1>10. CASE Sidecar
  BY <1>5, <1>10 DEF Sidecar
<1>11. CASE SidecarStops
  <2>1. PICK c \in IF MayWrite("sidecar") THEN {"torn", files[doing]["sidecar"]} ELSE {files[doing]["sidecar"]} :
          files' = [files EXCEPT ![doing]["mp4"] = "absent", ![doing]["sidecar"] = c]
    BY <1>11 DEF SidecarStops
  <2> QED  BY <1>5, <1>11, <2>1 DEF SidecarStops
<1> QED
  BY <1>2, <1>6, <1>7, <1>8, <1>9, <1>10, <1>11
     DEF LiveNext, List, ListFails, LiveEnds, DetailFails, Take, Detail, Slides, Images, Fetch, Fails,
         WritePptxStops, WriteVideoStops, File

-----------------------------------------------------------------------------
(* The runs.                                                               *)

LEMMA HelpIsACommand == "help" \in Commands
<1>1. "help" \in DOMAIN General
  BY DEF General, Joined, Shows, Each
<1> QED  BY <1>1 DEF Commands, Handlers, Joined

LEMMA Does_Setters == \A c \in Commands : Does(c) = "sets" => c \in Setters
BY EveryCommandRegular DEF AllRegular, Regular, Does, Commands

LEMMA Does_Download == \A c \in Commands : Does(c) = "downloads" => c = "live download"
BY EveryCommandRegular DEF AllRegular, Regular, Does, Commands

ModeSetters == {"mode vpn", "mode direct", "config set mode"}

LEMMA NewModeIs ==
    ASSUME NEW c \in Setters, NEW o \in Mode \cup {"none"}, NEW m \in Mode
    PROVE  /\ NewMode(c, o, m) \in Mode
           /\ c \notin ModeSetters => NewMode(c, o, m) = IF o # "none" THEN o ELSE Load(config)
<1>1. CASE c = "mode vpn"
  <2>1. NewMode(c, o, m) = "vpn"
    BY <1>1 DEF NewMode
  <2> QED  BY <1>1, <2>1 DEF Mode, ModeSetters
<1>2. CASE c = "mode direct"
  <2>1. NewMode(c, o, m) = "direct"
    BY <1>2 DEF NewMode
  <2> QED  BY <1>2, <2>1 DEF Mode, ModeSetters
<1>3. CASE c = "config set mode"
  <2>1. NewMode(c, o, m) = m
    BY <1>3 DEF NewMode
  <2> QED  BY <1>3, <2>1 DEF ModeSetters
<1>4. CASE c = "config set proxy"
  <2>1. NewMode(c, o, m) = IF o # "none" THEN o ELSE Load(config)
    BY <1>4 DEF NewMode
  <2>2. Load(config) \in Mode
    BY DEF Load, Mode
  <2>3. NewMode(c, o, m) \in Mode
    BY <2>1, <2>2
  <2> QED  BY <2>1, <2>3
<1> QED  BY <1>1, <1>2, <1>3, <1>4 DEF Setters

LEMMA LinesAreTyped ==
    ASSUME NEW l \in CommandLines
    PROVE  l[1] \in Commands /\ l[3] \in Mode \cup {"none"}
BY DEF CommandLines

\* A command that begins works where its options, or the session, or the
\* configuration say, and one that looks for a session has found it.
LEMMA CommandBegins ==
    ASSUME TypeOK, NEW c \in Commands, NEW g, NEW o \in Mode \cup {"none"}, Begins(c, g, o)
    PROVE  /\ cmd' = c /\ over' = o /\ conn' \in Mode
           /\ o = "none" /\ c \in Listed \cup ListedWhenComplete =>
                session # "none" /\ conn' = session
<1>1. cmd' = c /\ over' = o /\ conn' = Chosen(c, g, o) /\ Objections(c, g, o, TRUE) = {}
  BY DEF Begins
<1>2. Chosen(c, g, o) \in Mode
  BY DEF Chosen, TypeOK, Load, Mode
<1>3. Holds(Needs(c), Options(g)) \/ (SessionWanted(c, g, o) /\ session = "none")
  BY <1>1 DEF Objections
<1>4. ~(SessionWanted(c, g, o) /\ session = "none")
  BY <1>1 DEF Objections
<1>5. ASSUME o = "none", c \in Listed \cup ListedWhenComplete
      PROVE  WantsSession(c, g)
  <2>1. CASE c \in Listed
    BY <2>1 DEF WantsSession
  <2>2. CASE c \in ListedWhenComplete
    <3>1. \A clause \in Needs(c) : clause \cap Options(g) # {} /\ "saved" \notin clause
      <4>1. \A clause \in Needs(c) : "saved" \notin clause
        BY <2>2, EveryCommandRegular DEF AllRegular, Regular, Needs, Commands
      <4> QED  BY <4>1, <1>3, <1>4 DEF Holds
    <3>2. \A clause \in Needs(c) : clause \cap g # {}
      BY <3>1 DEF Options
    <3>3. CASE c = "course week"
      <4>1. {"term"} \in Needs(c)
        BY <3>3, EveryCommandRegular DEF AllRegular, Regular, Needs, Commands
      <4>2. "term" \in g
        BY <3>2, <4>1
      <4> QED  BY <3>3, <4>2 DEF WantsSession
    <3>4. CASE c = "live download"
      BY <3>2, <3>4 DEF WantsSession, Holds
    <3>5. CASE c # "course week" /\ c # "live download"
      <4>1. Holds(Needs(c), g)
        BY <3>2 DEF Holds
      <4> QED  BY <2>2, <3>5, <4>1 DEF WantsSession
    <3> QED  BY <3>3, <3>4, <3>5
  <2> QED  BY <1>5, <2>1, <2>2
<1>6. c \in Listed \cup ListedWhenComplete => c # "relogin"
  BY DEF Listed, ListedWhenComplete
<1>7. ASSUME o = "none", c \in Listed \cup ListedWhenComplete
      PROVE  session # "none" /\ Chosen(c, g, o) = session
  <2>1. SessionWanted(c, g, o) /\ session # "none"
    BY <1>4, <1>5, <1>7 DEF SessionWanted
  <2> QED  BY <2>1, <1>6, <1>7 DEF Chosen
<1> QED  BY <1>1, <1>2, <1>7

-----------------------------------------------------------------------------
(* What the runs leave. *)

\* Until a download begins there is nothing of one.
Resting ==
    /\ pc = "idle" => Idle
    /\ pc # "done" => why = ""
    /\ pc \notin {"downloading", "done"} => LiveOff
    /\ LiveInv

\* A run that saves the configuration without setting the mode has read the one
\* intended, unless its copy is outdated.
Setting ==
    pc \in {"saving", "writing"} =>
        /\ cmd \in Setters
        /\ cmd \notin ModeSetters /\ over = "none" /\ ~outdated /\ intended \in Mode => mine = intended
Beside ==
    /\ other.at # "none" /\ ~other.sets /\ ~other.outdated /\ intended \in Mode => other.mode = intended
    /\ ~(pc = "writing" /\ other.at = "writing")
Kept == Setting /\ Beside /\ ModesKept

\* A command that looked for the session works in its mode.
Placed ==
    /\ pc = "downloading" => cmd = "live download"
    /\ pc \in {"asking", "downloading"} /\ over = "none" /\ cmd \in Listed \cup ListedWhenComplete =>
          session # "none" /\ conn = session

CliInv ==
    /\ TypeOK /\ Resting
    /\ Kept /\ Placed /\ NoFalseExpiry

LEMMA OffIsSound ==
    ASSUME LiveOff
    PROVE  LiveInv
<1> USE DEF LiveOff
<1>1. LiveTypes
  BY DEF LiveTypes, LiveTypeOK, NoFiles, File, Content, Unreported, Reports, Statuses, Fate
<1>2. Stage
  BY DEF Stage
<1>3. StatusIsTrue
  BY DEF StatusIsTrue, CompletedIsThere, PartialIsSomething, Unreported
<1> QED  BY <1>1, <1>2, <1>3 DEF LiveInv

\* The other run.
LEMMA NoOtherIs == NoOther \in Others /\ NoOther.at = "none"
BY DEF NoOther, Others, Mode

LEMMA OtherIs ==
    ASSUME CliInv
    PROVE  /\ other.at \in {"none", "read", "writing"} /\ other.sets \in BOOLEAN
           /\ other.mode \in Mode /\ other.outdated \in BOOLEAN
           /\ other = [at |-> other.at, sets |-> other.sets, mode |-> other.mode, outdated |-> other.outdated]
<1>1. other \in Others
  BY DEF CliInv, TypeOK
<1> QED  BY <1>1 DEF Others

LEMMA OtherBecomes ==
    ASSUME CliInv, NEW where \in {"none", "read", "writing"}, NEW late \in BOOLEAN
    PROVE  /\ [other EXCEPT !.at = where]
                = [at |-> where, sets |-> other.sets, mode |-> other.mode, outdated |-> other.outdated]
           /\ [other EXCEPT !.at = where] \in Others
           /\ [other EXCEPT !.outdated = late]
                = [at |-> other.at, sets |-> other.sets, mode |-> other.mode, outdated |-> late]
           /\ [other EXCEPT !.outdated = late] \in Others
<1>1. other \in Others
  BY DEF CliInv, TypeOK
<1>2. /\ other.at \in {"none", "read", "writing"} /\ other.sets \in BOOLEAN
      /\ other.mode \in Mode /\ other.outdated \in BOOLEAN
  BY <1>1 DEF Others
<1>3. [other EXCEPT !.at = where]
          = [at |-> where, sets |-> other.sets, mode |-> other.mode, outdated |-> other.outdated]
  BY <1>1 DEF Others
<1>4. [other EXCEPT !.outdated = late]
          = [at |-> other.at, sets |-> other.sets, mode |-> other.mode, outdated |-> late]
  BY <1>1 DEF Others
<1> QED  BY <1>2, <1>3, <1>4 DEF Others

LEMMA LoadIsMode == \A file : Load(file) \in Mode
BY DEF Load, Mode

LEMMA LoadOfMode == \A m \in Mode : Load(m) = m /\ m \in Mode \cup {"torn"}
BY DEF Load, Mode

LEMMA CliInit ==
    ASSUME Init
    PROVE  CliInv
<1> USE DEF Init, Idle
<1>1. LiveInv
  BY OffIsSound
<1>2. LiveTypeOK /\ step = "off"
  BY <1>1 DEF LiveInv, LiveTypes, LiveOff
<1>3. TypeOK
  BY <1>2, HelpIsACommand, NoOtherIs DEF TypeOK, Mode, Exits, Reasons, Refusals, Rebuffs
<1>4. Resting
  BY <1>1 DEF Resting
<1>5. Kept
  BY NoOtherIs, LoadOfMode DEF Kept, Setting, Beside, ModesKept, ModeKept, SessionCanBeRenewed
<1>6. Placed /\ NoFalseExpiry
  BY DEF Placed, NoFalseExpiry
<1> QED  BY <1>3, <1>4, <1>5, <1>6 DEF CliInv

LEMMA LiveStays ==
    ASSUME LiveInv, UNCHANGED live
    PROVE  LiveInv' /\ (LiveOff => LiveOff')
<1> USE DEF live, asked, work
<1>1. LiveTypes'
  BY DEF LiveInv, LiveTypes, LiveTypeOK
<1>2. Stage'
  BY DEF LiveInv, Stage, VideoFound, SlidesDone, AfterSlides, Fetched, HasSlides, New
<1>3. StatusIsTrue'
  BY DoneStays DEF LiveInv, Undone
<1> QED  BY <1>1, <1>2, <1>3 DEF LiveInv, LiveOff

\* A run ends, or goes on, without a download.
LEMMA WithoutDownload ==
    ASSUME CliInv, UNCHANGED live, pc # "downloading", pc' # "idle", pc' # "downloading",
           pc' # "done" => pc # "done" /\ why' = ""
    PROVE  Resting' /\ LiveTypeOK' /\ step' = step /\ step = "off" /\ fate' = fate
<1>1. LiveInv' /\ (LiveOff => LiveOff')
  BY LiveStays DEF CliInv, Resting
<1>2. Resting'
  BY <1>1 DEF CliInv, Resting
<1> QED  BY <1>1, <1>2 DEF CliInv, TypeOK, live, LiveInv, LiveTypes

\* A command line that is refused.
LEMMA RefusedKeeps ==
    ASSUME CliInv, NEW c \in Commands, pc = "idle", cmd' = c,
           why' \in Refusals, pc' = "done",
           exit' = IF why' = "sessionless" THEN "AuthRequired" ELSE "InvalidArgument",
           why' = "sessionless" => session = "none",
           UNCHANGED <<disk, world, over, conn, copy, touched, history, live>>
    PROVE  CliInv'
<1> USE DEF disk, world, copy, history
<1>1. Resting' /\ LiveTypeOK' /\ step' = "off"
  BY WithoutDownload
<1>2. touched = {}
  BY DEF CliInv, Resting, Idle
<1>3. TypeOK'
  <2>1. exit' \in {"InvalidArgument", "AuthRequired"} /\ exit' \in Exits /\ exit' # "none"
        /\ why' \in Reasons \ Rebuffs
    BY DEF Exits, Reasons, Refusals, Rebuffs
  <2> QED  BY <1>1, <1>2, <2>1 DEF CliInv, TypeOK
<1>4. Kept'
  BY DEF CliInv, Kept, Setting, Beside, ModesKept, ModeKept, SessionCanBeRenewed, Load
<1>5. Placed' /\ NoFalseExpiry'
  BY DEF CliInv, Placed, NoFalseExpiry, TypeOK
<1> QED  BY <1>1, <1>3, <1>4, <1>5 DEF CliInv

\* What is so whatever a command begins with.
LEMMA BeginsKeeps ==
    ASSUME CliInv, NEW c \in Commands, NEW g, NEW o \in Mode \cup {"none"}, Begins(c, g, o), pc = "idle"
    PROVE  /\ cmd' = c /\ over' = o /\ conn' \in Mode /\ why' = "" /\ touched = {} /\ exit = "none"
           /\ UNCHANGED <<other, history, config, saved>>
           /\ o = "none" /\ c \in Listed \cup ListedWhenComplete => session # "none" /\ conn' = session
<1>1. TypeOK /\ Idle /\ why = ""
  BY DEF CliInv, Resting
<1>2. why' = "" /\ UNCHANGED <<other, history, config, saved>>
  BY <1>1 DEF Begins
<1> QED  BY <1>1, <1>2, CommandBegins DEF Idle

LEMMA ShowKeeps ==
    ASSUME CliInv, pc = "idle", NEW c \in Commands, NEW g, NEW o \in Mode \cup {"none"}, Show(c, g, o)
    PROVE  CliInv'
<1> USE DEF Show, Ends, copy, history
<1>0. Begins(c, g, o)  OBVIOUS
<1>1. Resting' /\ LiveTypeOK' /\ step' = "off"
  BY WithoutDownload
<1>2. TypeOK'
  BY <1>0, <1>1, BeginsKeeps DEF CliInv, TypeOK, Exits, Reasons, Refusals, Rebuffs
<1>3. Kept'
  BY <1>0, BeginsKeeps DEF CliInv, Kept, Setting, Beside, ModesKept, ModeKept, SessionCanBeRenewed, Load
<1>4. Placed' /\ NoFalseExpiry'
  BY DEF Placed, NoFalseExpiry
<1> QED  BY <1>1, <1>2, <1>3, <1>4 DEF CliInv

LEMMA LogoutKeeps ==
    ASSUME CliInv, pc = "idle", NEW c \in Commands, NEW g, NEW o \in Mode \cup {"none"}, Logout(c, g, o)
    PROVE  CliInv'
<1> USE DEF Logout, Ends, copy, history
<1>0. Begins(c, g, o)  OBVIOUS
<1>1. Resting' /\ LiveTypeOK' /\ step' = "off"
  BY WithoutDownload
<1>2. TypeOK'
  BY <1>0, <1>1, BeginsKeeps DEF CliInv, TypeOK, Exits, Reasons, Refusals, Rebuffs
<1>3. Kept'
  BY <1>0, BeginsKeeps DEF CliInv, Kept, Setting, Beside, ModesKept, ModeKept, SessionCanBeRenewed, Load
<1>4. Placed' /\ NoFalseExpiry'
  BY DEF Placed, NoFalseExpiry
<1> QED  BY <1>1, <1>2, <1>3, <1>4 DEF CliInv

LEMMA StartLoginKeeps ==
    ASSUME CliInv, pc = "idle", NEW c \in Commands, NEW g, NEW o \in Mode \cup {"none"}, StartLogin(c, g, o)
    PROVE  CliInv'
<1> USE DEF StartLogin, Goes, copy, history
<1>0. Begins(c, g, o)  OBVIOUS
<1>1. Resting' /\ LiveTypeOK' /\ step' = "off"
  BY <1>0, WithoutDownload, BeginsKeeps
<1>2. TypeOK'
  BY <1>0, <1>1, BeginsKeeps DEF CliInv, TypeOK, Exits, Reasons, Refusals, Rebuffs
<1>3. Kept'
  BY <1>0, BeginsKeeps DEF CliInv, Kept, Setting, Beside, ModesKept, ModeKept, SessionCanBeRenewed, Load
<1>4. Placed' /\ NoFalseExpiry'
  BY DEF Placed, NoFalseExpiry
<1> QED  BY <1>1, <1>2, <1>3, <1>4 DEF CliInv

LEMMA StartSavingKeeps ==
    ASSUME CliInv, pc = "idle", NEW c \in Commands, NEW g, NEW o \in Mode \cup {"none"}, StartSaving(c, g, o)
    PROVE  CliInv'
<1> USE DEF StartSaving, Goes, history
<1>0. Begins(c, g, o) /\ c \in Setters
  BY Does_Setters
<1>1. Resting' /\ LiveTypeOK' /\ step' = "off"
  BY <1>0, WithoutDownload, BeginsKeeps
<1>2. /\ mine' \in Mode
      /\ c \notin ModeSetters => mine' = IF o # "none" THEN o ELSE Load(config)
  BY <1>0, NewModeIs
<1>3. TypeOK'
  <2>1. outdated' \in BOOLEAN
    BY DEF Sets
  <2> QED  BY <1>0, <1>1, <1>2, <2>1, BeginsKeeps DEF CliInv, TypeOK, Exits, Reasons, Refusals, Rebuffs
<1>4. Kept'
  BY <1>0, <1>2, BeginsKeeps
     DEF CliInv, Kept, Setting, Beside, ModesKept, ModeKept, SessionCanBeRenewed, Load, Sets, ModeSetters
<1>5. Placed' /\ NoFalseExpiry'
  BY DEF Placed, NoFalseExpiry
<1> QED  BY <1>1, <1>3, <1>4, <1>5 DEF CliInv

LEMMA StartAskingKeeps ==
    ASSUME CliInv, pc = "idle", NEW c \in Commands, NEW g, NEW o \in Mode \cup {"none"}, StartAsking(c, g, o)
    PROVE  CliInv'
<1> USE DEF StartAsking, Goes, copy, history
<1>0. Begins(c, g, o)  OBVIOUS
<1>1. Resting' /\ LiveTypeOK' /\ step' = "off"
  BY <1>0, WithoutDownload, BeginsKeeps
<1>2. TypeOK'
  BY <1>0, <1>1, BeginsKeeps DEF CliInv, TypeOK, Exits, Reasons, Refusals, Rebuffs
<1>3. Kept'
  BY <1>0, BeginsKeeps DEF CliInv, Kept, Setting, Beside, ModesKept, ModeKept, SessionCanBeRenewed, Load
<1>4. Placed' /\ NoFalseExpiry'
  BY <1>0, BeginsKeeps DEF Placed, NoFalseExpiry
<1> QED  BY <1>1, <1>2, <1>3, <1>4 DEF CliInv

LEMMA DownloadStarts ==
    ASSUME LiveOff, NEW w \in (SUBSET {"ppt", "video"}) \ {{}}, NEW again \in BOOLEAN,
           NEW before \in [Resource -> [File -> Content]], LiveBegins(w, again, before)
    PROVE  LiveInv' /\ step' = "list"
<1> USE DEF LiveBegins, LiveOff, work
<1>1. LiveTypes'
  BY OffIsSound DEF LiveInv, LiveTypes, LiveTypeOK
<1>2. Stage'
  <2>1. step' = "list" /\ left' = {} /\ fate' = "none" /\ wants' = w /\ w # {} /\ doing' = Nobody
    OBVIOUS
  <2>2. report' = [r \in Resource |-> Unreported]
    OBVIOUS
  <2>3. \A r \in Resource : report'[r] = Unreported
    BY <2>2
  <2> HIDE DEF LiveBegins, LiveOff, work
  <2> QED  BY <2>1, <2>3 DEF Stage
<1>3. StatusIsTrue'
  BY DEF StatusIsTrue, CompletedIsThere, PartialIsSomething, Unreported
<1> QED  BY <1>1, <1>2, <1>3 DEF LiveInv

LEMMA StartDownloadKeeps ==
    ASSUME CliInv, pc = "idle", NEW c \in Commands, NEW g, NEW o \in Mode \cup {"none"}, StartDownload(c, g, o)
    PROVE  CliInv'
<1> USE DEF StartDownload, Goes, copy, history
<1>0. Begins(c, g, o) /\ c = "live download"
  BY Does_Download
<1>1. LiveOff
  BY DEF CliInv, Resting
<1>2. PICK w \in (SUBSET {"ppt", "video"}) \ {{}}, again \in BOOLEAN, r \in Resource, there \in SUBSET File :
        LiveBegins(w, again, [files EXCEPT ![r] = [f \in File |-> IF f \in there THEN "old" ELSE "absent"]])
  OBVIOUS
<1> DEFINE before == [files EXCEPT ![r] = [f \in File |-> IF f \in there THEN "old" ELSE "absent"]]
<1>3. before \in [Resource -> [File -> Content]]
  BY <1>1 DEF LiveOff, NoFiles, File, Content
<1>4. LiveBegins(w, again, before)
  BY <1>2
<1> HIDE DEF before
<1>5. LiveInv' /\ step' = "list"
  BY <1>1, <1>3, <1>4, DownloadStarts
<1>6. Resting'
  BY <1>0, <1>5, BeginsKeeps DEF Resting
<1>7. TypeOK'
  BY <1>0, <1>5, BeginsKeeps DEF CliInv, TypeOK, Exits, Reasons, Refusals, Rebuffs, LiveInv, LiveTypes
<1>8. Kept'
  BY <1>0, BeginsKeeps DEF CliInv, Kept, Setting, Beside, ModesKept, ModeKept, SessionCanBeRenewed, Load
<1>9. Placed' /\ NoFalseExpiry'
  BY <1>0, BeginsKeeps DEF Placed, NoFalseExpiry
<1> QED  BY <1>6, <1>7, <1>8, <1>9 DEF CliInv

\* Without a login that is honoured a command is off its session.
LEMMA Astray ==
    ASSUME CliInv, pc \in {"asking", "downloading"}, honoured, ~LoggedIn, over = "none"
    PROVE  cmd \notin Listed \cup ListedWhenComplete /\ conn # session
BY DEF CliInv, Placed, LoggedIn

\* Who is sent to log in with a login that is honoured is so for one of the
\* reasons that are named.
LEMMA RebuffIsNamed ==
    ASSUME CliInv, pc \in {"asking", "downloading"}, honoured, NEW cause \in MayRebuff
    PROVE  \/ cause = "system"
           \/ cause = "token" /\ cmd \in LiveTokens /\ token # "good"
           \/ cause = "password" /\ cmd \in CloudDisk /\ saved = "none"
           \/ over # "none"
           \/ cmd \notin Listed \cup ListedWhenComplete /\ conn # session
<1>1. CASE cause = "login" /\ ~LoggedIn
  BY <1>1, Astray
<1>2. \/ cause = "login" /\ ~LoggedIn
      \/ cause = "system"
      \/ cause = "token" /\ cmd \in LiveTokens /\ token # "good"
      \/ cause = "password" /\ cmd \in CloudDisk /\ saved = "none"
  BY DEF MayRebuff
<1> QED  BY <1>1, <1>2

LEMMA RebuffsOnly == MayRebuff \subseteq Rebuffs
BY DEF MayRebuff, Rebuffs

LEMMA AnswerKeeps ==
    ASSUME CliInv, NEW code \in Exits, Answer(code)
    PROVE  CliInv'
<1> USE DEF Answer, Ends, line, copy, world, history
<1>1. LiveInv' /\ (LiveOff => LiveOff') /\ step' = step /\ LiveTypeOK' /\ step = "off"
  BY LiveStays DEF CliInv, Resting, TypeOK, live, LiveInv, LiveTypes
<1>2. Resting'
  BY <1>1 DEF Resting
<1>3. TypeOK'
  <2>1. Effect \subseteq {"campus", "config", "session", "td"}
    BY DEF Effect
  <2>2. Bearer \subseteq {"none", "good", "stale"}
    BY DEF Bearer, CliInv, TypeOK
  <2>3. touched' \subseteq {"campus", "config", "session", "td"}
    BY <2>1
  <2>4. token' \in {"none", "good", "stale"}
    BY <2>2 DEF CliInv, TypeOK
  <2>5. why' \in {""} \cup Rebuffs /\ (why' # "" => exit' = "AuthRequired")
    BY RebuffsOnly
  <2>6. why' \in Reasons \ Refusals /\ (why' \in Rebuffs => exit' = "AuthRequired")
    BY <2>5 DEF Reasons, Refusals, Rebuffs
  <2> QED  BY <1>1, <2>3, <2>4, <2>5, <2>6 DEF CliInv, TypeOK, Exits
<1>4. Kept'
  BY DEF CliInv, Kept, Setting, Beside, ModesKept, ModeKept, SessionCanBeRenewed, Load
<1>5. NoFalseExpiry'
  <2>1. code = "AuthRequired" => token' = token /\ why' \in MayRebuff
    OBVIOUS
  <2> QED  BY <2>1, RebuffIsNamed DEF NoFalseExpiry
<1>6. Placed'
  BY DEF Placed
<1> QED  BY <1>2, <1>3, <1>4, <1>5, <1>6 DEF CliInv

LEMMA LogInKeeps ==
    ASSUME CliInv, NEW stored \in BOOLEAN, LogIn(stored)
    PROVE  CliInv'
<1> USE DEF LogIn, Ends, line, copy
<1>1. Resting' /\ LiveTypeOK' /\ step' = "off" /\ why = ""
  BY WithoutDownload DEF CliInv, Resting
<1>2. TypeOK'
  <2>1. unsaved' \in BOOLEAN /\ exit' \in Exits
    BY DEF Exits
  <2>2. session' \in Mode /\ session' # "none" /\ saved' \in Mode \cup {"none"} /\ honoured' = TRUE
    BY DEF CliInv, TypeOK, SavedAs, Mode
  <2>3. pc' = "done" /\ exit' # "none" /\ why' = "" /\ touched' = {"session"}
    BY <1>1
  <2> QED  BY <1>1, <2>1, <2>2, <2>3 DEF CliInv, TypeOK, Exits, Reasons, Refusals, Rebuffs
<1>3. Kept'
  BY DEF CliInv, Kept, Setting, Beside, ModesKept, ModeKept, SessionCanBeRenewed, Load, SavedAs
<1>4. Placed' /\ NoFalseExpiry'
  BY DEF Placed, NoFalseExpiry
<1> QED  BY <1>1, <1>2, <1>3, <1>4 DEF CliInv

LEMMA LoginFailsKeeps ==
    ASSUME CliInv, LoginFails
    PROVE  CliInv'
<1> USE DEF LoginFails, Ends, line, copy, world, disk, history
<1>1. Resting' /\ LiveTypeOK' /\ step' = "off" /\ why = ""
  BY WithoutDownload DEF CliInv, Resting
<1>2. TypeOK'
  BY <1>1 DEF CliInv, TypeOK, Exits, Reasons, Refusals, Rebuffs
<1>3. Kept'
  BY DEF CliInv, Kept, Setting, Beside, ModesKept, ModeKept, SessionCanBeRenewed, Load
<1>4. Placed' /\ NoFalseExpiry'
  BY DEF Placed, NoFalseExpiry
<1> QED  BY <1>1, <1>2, <1>3, <1>4 DEF CliInv

LEMMA SetsIs == \A c : Sets(c) <=> c \in ModeSetters
BY DEF Sets, ModeSetters

LEMMA SetsIsBoolean == \A c : Sets(c) \in BOOLEAN
BY DEF Sets

\* What was intended is a mode, or that it was lost.
LEMMA IntendsTyped ==
    ASSUME CliInv, NEW sets \in BOOLEAN, NEW mode \in Mode, NEW o, NEW old
    PROVE  Intends(sets, mode, o, old) \in Mode \cup {"failed", "overridden", "raced"}
BY DEF Intends, CliInv, TypeOK

\* A mode that is intended after the file is written is the one that was set, or
\* the one intended before, and then the copy was not outdated.
LEMMA IntendsIs ==
    ASSUME NEW sets \in BOOLEAN, NEW mode, NEW o, NEW old \in BOOLEAN,
           Intends(sets, mode, o, old) \in Mode
    PROVE  \/ sets /\ Intends(sets, mode, o, old) = mode
           \/ ~sets /\ o = "none" /\ ~old /\ Intends(sets, mode, o, old) = intended
<1>1. "overridden" \notin Mode /\ "raced" \notin Mode
  BY DEF Mode
<1> QED  BY <1>1 DEF Intends

LEMMA SaveConfigKeeps ==
    ASSUME CliInv, SaveConfig
    PROVE  CliInv'
<1> USE DEF SaveConfig, Goes, line, copy, world, history
<1>1. LiveInv' /\ (LiveOff => LiveOff') /\ step' = step /\ LiveTypeOK'
  BY LiveStays DEF CliInv, Resting, live, LiveInv, LiveTypes
<1>2. Resting'
  BY <1>1 DEF CliInv, Resting, Idle
<1>3. TypeOK'
  BY <1>1 DEF CliInv, TypeOK, Exits, Reasons, Refusals, Rebuffs
<1>4. Kept'
  BY DEF CliInv, Kept, Setting, Beside, ModesKept, ModeKept, SessionCanBeRenewed, Load
<1>5. Placed' /\ NoFalseExpiry'
  BY DEF CliInv, TypeOK, Placed, NoFalseExpiry
<1> QED  BY <1>1, <1>2, <1>3, <1>4, <1>5 DEF CliInv

LEMMA WrittenKeeps ==
    ASSUME CliInv, Written
    PROVE  CliInv'
<1> USE DEF Written, Ends, line, copy
<1>1. LiveInv' /\ (LiveOff => LiveOff') /\ step' = step /\ LiveTypeOK'
  BY LiveStays DEF CliInv, Resting, live, LiveInv, LiveTypes
<1>2. Resting' /\ why = ""
  BY <1>1 DEF CliInv, Resting, Idle
<1>3. Sets(cmd) \in BOOLEAN /\ mine \in Mode /\ outdated \in BOOLEAN
  <2>1. Sets(cmd) \in BOOLEAN
    BY SetsIsBoolean
  <2> QED  BY <2>1 DEF CliInv, TypeOK
<1>4. /\ other' \in Others /\ other'.at = other.at /\ other'.sets = other.sets /\ other'.mode = other.mode
      /\ other'.outdated = (other.outdated \/ (Sets(cmd) /\ other.at = "read" /\ ~other.sets))
  <2> DEFINE late == other.outdated \/ (Sets(cmd) /\ other.at = "read" /\ ~other.sets)
  <2>1. late \in BOOLEAN /\ other' = [other EXCEPT !.outdated = late]
    BY OtherIs, <1>3
  <2> HIDE DEF late
  <2>2. /\ other' \in Others
        /\ other' = [at |-> other.at, sets |-> other.sets, mode |-> other.mode, outdated |-> late]
    BY <2>1, OtherBecomes
  <2>3. other'.at = other.at /\ other'.sets = other.sets /\ other'.mode = other.mode /\ other'.outdated = late
    BY <2>2
  <2> QED  BY <2>2, <2>3 DEF late
<1>5. intended' \in Mode \cup {"failed", "overridden", "raced"}
  BY <1>3, IntendsTyped
<1>6. TypeOK'
  BY <1>1, <1>2, <1>4, <1>5 DEF CliInv, TypeOK, Exits, Reasons, Refusals, Rebuffs
<1>7. ASSUME intended' \in Mode
      PROVE  \/ Sets(cmd) /\ intended' = mine
             \/ ~Sets(cmd) /\ over = "none" /\ ~outdated /\ intended' = intended
  BY <1>3, <1>7, IntendsIs
<1>8. Setting' /\ ModeKept'
  BY <1>3, <1>7, SetsIs, LoadOfMode DEF CliInv, Kept, Setting, ModeKept
<1>9. Beside'
  BY <1>3, <1>4, <1>7, OtherIs DEF CliInv, Kept, Beside
<1>10. SessionCanBeRenewed'
  BY DEF CliInv, Kept, ModesKept, SessionCanBeRenewed
<1>11. Placed' /\ NoFalseExpiry'
  BY DEF Placed, NoFalseExpiry
<1> QED  BY <1>1, <1>2, <1>6, <1>8, <1>9, <1>10, <1>11 DEF CliInv, Kept, ModesKept

LEMMA SaveFailsKeeps ==
    ASSUME CliInv, SaveFails
    PROVE  CliInv'
<1> USE DEF SaveFails, Ends, line, copy, world, disk
<1>1. LiveInv' /\ (LiveOff => LiveOff') /\ step' = step /\ LiveTypeOK'
  BY LiveStays DEF CliInv, Resting, live, LiveInv, LiveTypes
<1>2. Resting'
  BY <1>1 DEF CliInv, Resting, Idle
<1>3. TypeOK'
  BY <1>1 DEF CliInv, TypeOK, Exits, Reasons, Refusals, Rebuffs
<1>4. Kept'
  BY SetsIs DEF CliInv, Kept, Setting, Beside, ModesKept, ModeKept, SessionCanBeRenewed, Load, Mode
<1>5. Placed' /\ NoFalseExpiry'
  BY DEF CliInv, TypeOK, Placed, NoFalseExpiry
<1> QED  BY <1>1, <1>2, <1>3, <1>4, <1>5 DEF CliInv

LEMMA OtherReadsKeeps ==
    ASSUME CliInv, NEW sets \in BOOLEAN, NEW m \in Mode, OtherReads(sets, m)
    PROVE  CliInv'
<1> USE DEF OtherReads, run, line, copy, disk, history
<1>1. LiveInv' /\ (LiveOff => LiveOff') /\ step' = step /\ LiveTypeOK'
  BY LiveStays DEF CliInv, Resting, live, LiveInv, LiveTypes
<1>2. Resting'
  BY <1>1 DEF CliInv, Resting, Idle
<1>3. TypeOK'
  <2>1. other' \in Others
    BY LoadIsMode DEF Others
  <2> QED  BY <1>1, <2>1 DEF CliInv, TypeOK
<1>4. Kept'
  BY DEF CliInv, Kept, Setting, Beside, ModesKept, ModeKept, SessionCanBeRenewed, Load
<1>5. Placed' /\ NoFalseExpiry'
  BY DEF CliInv, TypeOK, Placed, NoFalseExpiry
<1> QED  BY <1>1, <1>2, <1>3, <1>4, <1>5 DEF CliInv

LEMMA OtherOpensKeeps ==
    ASSUME CliInv, OtherOpens
    PROVE  CliInv'
<1> USE DEF OtherOpens, run, line, copy, history
<1>1. LiveInv' /\ (LiveOff => LiveOff') /\ step' = step /\ LiveTypeOK'
  BY LiveStays DEF CliInv, Resting, live, LiveInv, LiveTypes
<1>2. Resting'
  BY <1>1 DEF CliInv, Resting, Idle
<1>3. TypeOK'
  <2>1. other' \in Others
    BY OtherBecomes
  <2>2. config' \in Mode \cup {"torn"}
    OBVIOUS
  <2>3. /\ UNCHANGED <<session, saved, token, honoured, pc, cmd, over, conn, mine, outdated, exit, why, touched>>
        /\ UNCHANGED <<intended, unsaved>>
    OBVIOUS
  <2> HIDE DEF OtherOpens, run, line, copy, history
  <2> QED  BY <1>1, <2>1, <2>2, <2>3 DEF CliInv, TypeOK
<1>4. Kept'
  <2>1. /\ other'.at = "writing" /\ other'.sets = other.sets
        /\ other'.mode = other.mode /\ other'.outdated = other.outdated
    <3>1. other' = [at |-> "writing", sets |-> other.sets, mode |-> other.mode, outdated |-> other.outdated]
      BY OtherBecomes
    <3> QED  BY <3>1
  <2> QED  BY <2>1 DEF CliInv, Kept, Setting, Beside, ModesKept, ModeKept, SessionCanBeRenewed, Load
<1>5. Placed' /\ NoFalseExpiry'
  BY DEF CliInv, TypeOK, Placed, NoFalseExpiry
<1> QED  BY <1>1, <1>2, <1>3, <1>4, <1>5 DEF CliInv

LEMMA OtherWrittenKeeps ==
    ASSUME CliInv, OtherWritten
    PROVE  CliInv'
<1> USE DEF OtherWritten, line
<1>1. LiveInv' /\ (LiveOff => LiveOff') /\ step' = step /\ LiveTypeOK'
  BY LiveStays DEF CliInv, Resting, live, LiveInv, LiveTypes
<1>2. /\ other.sets \in BOOLEAN /\ other.mode \in Mode /\ other.outdated \in BOOLEAN
      /\ outdated' \in BOOLEAN /\ other' \in Others /\ other'.at = "none"
  <2>1. Sets(cmd) \in BOOLEAN /\ outdated \in BOOLEAN
    BY SetsIsBoolean DEF CliInv, TypeOK
  <2> QED  BY <2>1, OtherIs, NoOtherIs
<1>3. intended' \in Mode \cup {"failed", "overridden", "raced"}
  BY <1>2, IntendsTyped
<1>4. pc # "idle" \/ outdated' = outdated
  BY <1>2 DEF CliInv, TypeOK
<1>5. Resting'
  BY <1>1, <1>4 DEF CliInv, Resting, Idle
<1>6. TypeOK'
  BY <1>1, <1>2, <1>3, LoadOfMode DEF CliInv, TypeOK
<1>7. ASSUME intended' \in Mode
      PROVE  \/ other.sets /\ intended' = other.mode
             \/ ~other.sets /\ ~other.outdated /\ intended' = intended
  BY <1>2, <1>7, IntendsIs
<1>8. ModeKept'
  BY <1>2, <1>7, LoadOfMode DEF CliInv, Kept, Beside, ModeKept
<1>9. Setting'
  BY <1>2, <1>7, SetsIs DEF CliInv, Kept, Setting, Beside
<1>10. Beside' /\ SessionCanBeRenewed'
  BY <1>2 DEF CliInv, Kept, Beside, ModesKept, SessionCanBeRenewed
<1>11. Placed' /\ NoFalseExpiry'
  BY DEF CliInv, Placed, NoFalseExpiry
<1> QED  BY <1>1, <1>5, <1>6, <1>8, <1>9, <1>10, <1>11 DEF CliInv, Kept, ModesKept

LEMMA OtherFailsKeeps ==
    ASSUME CliInv, OtherFails
    PROVE  CliInv'
<1> USE DEF OtherFails, run, line, copy, disk
<1>1. LiveInv' /\ (LiveOff => LiveOff') /\ step' = step /\ LiveTypeOK'
  BY LiveStays DEF CliInv, Resting, live, LiveInv, LiveTypes
<1>2. Resting'
  BY <1>1 DEF CliInv, Resting, Idle
<1>3. TypeOK'
  BY <1>1, NoOtherIs DEF CliInv, TypeOK
<1>4. Kept'
  BY NoOtherIs DEF CliInv, Kept, Setting, Beside, ModesKept, ModeKept, SessionCanBeRenewed, Load, Mode
<1>5. Placed' /\ NoFalseExpiry'
  BY DEF CliInv, TypeOK, Placed, NoFalseExpiry
<1> QED  BY <1>1, <1>2, <1>3, <1>4, <1>5 DEF CliInv

LEMMA DownloadsKeeps ==
    ASSUME CliInv, pc = "downloading", Downloads
    PROVE  CliInv'
<1> USE DEF Downloads, run, line, copy, world, disk, history
<1>1. LiveInv'
  BY LiveStep DEF CliInv, Resting
<1>2. Resting'
  BY <1>1 DEF CliInv, Resting
<1>3. TypeOK'
  BY <1>1 DEF CliInv, TypeOK, LiveInv, LiveTypes
<1>4. Kept'
  BY DEF CliInv, Kept, Setting, Beside, ModesKept, ModeKept, SessionCanBeRenewed, Load
<1>5. Placed' /\ NoFalseExpiry'
  BY DEF CliInv, Placed, NoFalseExpiry
<1> QED  BY <1>1, <1>2, <1>3, <1>4, <1>5 DEF CliInv

LEMMA DownloadEndsKeeps ==
    ASSUME CliInv, DownloadEnds
    PROVE  CliInv'
<1> USE DEF DownloadEnds, Ends, line, copy, history
<1>1. LiveInv' /\ step = "off" /\ why = "" /\ touched \subseteq {"campus", "config", "session", "td"}
  BY LiveStays DEF CliInv, Resting, LiveInv, Stage, TypeOK
<1>2. step' = "off" /\ LiveTypeOK'
  BY <1>1 DEF live, LiveInv, LiveTypes
<1>3. Resting'
  BY <1>1 DEF Resting
<1>4. fate \in Exits /\ fate # "none"
  BY DEF CliInv, TypeOK, LiveTypeOK, Fate, Exits
<1>5. TypeOK'
  <2>1. token' \in {"none", "good", "stale"}
    BY DEF Bearer, CliInv, TypeOK
  <2>2. honoured' \in BOOLEAN /\ (honoured' => honoured)
    BY DEF CliInv, TypeOK
  <2>3. why' \in {""} \cup Rebuffs /\ (why' # "" => exit' = "AuthRequired")
    BY RebuffsOnly DEF Rebuffs
  <2>4. why' \in Reasons \ Refusals /\ (why' \in Rebuffs => exit' = "AuthRequired")
    BY <2>3 DEF Reasons, Refusals, Rebuffs
  <2> QED  BY <1>1, <1>2, <1>4, <2>1, <2>2, <2>3, <2>4 DEF CliInv, TypeOK
<1>6. Kept'
  BY DEF CliInv, Kept, Setting, Beside, ModesKept, ModeKept, SessionCanBeRenewed, Load
<1>7. NoFalseExpiry'
  <2>1. fate = "AuthRequired" /\ honoured' => token' = token /\ honoured /\ why' \in MayRebuff
    BY DEF CliInv, TypeOK
  <2> QED  BY <2>1, RebuffIsNamed DEF NoFalseExpiry
<1>8. Placed'
  BY DEF Placed
<1> QED  BY <1>1, <1>3, <1>5, <1>6, <1>7, <1>8 DEF CliInv

LEMMA OffAgainIsSound ==
    ASSUME LiveOffAgain
    PROVE  LiveOff' /\ LiveInv'
<1> USE DEF LiveOffAgain
<1>1. LiveOff'
  BY DEF LiveOff
<1>2. LiveTypes'
  BY DEF LiveTypes, LiveTypeOK, NoFiles, File, Content, Unreported, Reports, Statuses, Fate
<1>3. Stage'
  BY DEF Stage
<1>4. StatusIsTrue'
  BY DEF StatusIsTrue, CompletedIsThere, PartialIsSomething, Unreported
<1> QED  BY <1>1, <1>2, <1>3, <1>4 DEF LiveInv

LEMMA ReturnKeeps ==
    ASSUME CliInv, Return
    PROVE  CliInv'
<1> USE DEF Return, IdleAgain, disk, world, history
<1>1. LiveOff' /\ LiveInv' /\ step' = "off" /\ LiveTypeOK'
  BY OffAgainIsSound DEF LiveOff, LiveInv, LiveTypes
<1>2. Resting'
  BY <1>1 DEF Resting, Idle
<1>3. TypeOK'
  <2>1. /\ pc' = "idle" /\ cmd' = "help" /\ over' = "none" /\ conn' = "vpn" /\ mine' = "vpn"
        /\ outdated' = FALSE /\ exit' = "none" /\ why' = "" /\ touched' = {}
    BY DEF Idle
  <2>2. "none" \notin Exits /\ "" \in Reasons \ (Refusals \cup Rebuffs) /\ "vpn" \in Mode
    BY DEF Exits, Reasons, Refusals, Rebuffs, Mode
  <2>3. /\ config' = config /\ session' = session /\ saved' = saved /\ token' = token
        /\ honoured' = honoured /\ intended' = intended /\ unsaved' = unsaved /\ other' = other
    OBVIOUS
  <2>4. /\ config \in Mode \cup {"torn"} /\ session \in Mode \cup {"none"}
        /\ saved \in Mode \cup {"none"} /\ token \in {"none", "good", "stale"}
        /\ honoured \in BOOLEAN /\ (honoured => session # "none")
        /\ intended \in Mode \cup {"failed", "overridden", "raced"} /\ unsaved \in BOOLEAN
        /\ other \in Others
    BY DEF CliInv, TypeOK
  <2> HIDE DEF Return, IdleAgain
  <2> QED  BY <1>1, <2>1, <2>2, <2>3, <2>4, HelpIsACommand DEF TypeOK
<1>4. Kept'
  BY DEF CliInv, Kept, Setting, Beside, ModesKept, ModeKept, SessionCanBeRenewed, Load
<1>5. Placed' /\ NoFalseExpiry'
  BY DEF Placed, NoFalseExpiry
<1> QED  BY <1>1, <1>2, <1>3, <1>4, <1>5 DEF CliInv

LEMMA SessionEndsKeeps ==
    ASSUME CliInv, SessionEnds
    PROVE  CliInv'
<1> USE DEF SessionEnds, run, line, copy, disk, history
<1>1. LiveInv' /\ (LiveOff => LiveOff') /\ step' = step /\ LiveTypeOK'
  BY LiveStays DEF CliInv, Resting, live, LiveInv, LiveTypes
<1>2. Resting'
  BY <1>1 DEF CliInv, Resting, Idle
<1>3. TypeOK'
  BY <1>1 DEF CliInv, TypeOK
<1>4. Kept'
  BY DEF CliInv, Kept, Setting, Beside, ModesKept, ModeKept, SessionCanBeRenewed, Load
<1>5. Placed' /\ NoFalseExpiry'
  BY DEF CliInv, Placed, NoFalseExpiry
<1> QED  BY <1>1, <1>2, <1>3, <1>4, <1>5 DEF CliInv

LEMMA TokenEndsKeeps ==
    ASSUME CliInv, TokenEnds
    PROVE  CliInv'
<1> USE DEF TokenEnds, run, line, copy, world, history
<1>1. LiveInv' /\ (LiveOff => LiveOff') /\ step' = step /\ LiveTypeOK'
  BY LiveStays DEF CliInv, Resting, live, LiveInv, LiveTypes
<1>2. Resting'
  BY <1>1 DEF CliInv, Resting, Idle
<1>3. TypeOK'
  BY <1>1 DEF CliInv, TypeOK
<1>4. Kept'
  BY DEF CliInv, Kept, Setting, Beside, ModesKept, ModeKept, SessionCanBeRenewed, Load
<1>5. Placed' /\ NoFalseExpiry'
  BY DEF CliInv, Placed, NoFalseExpiry, TypeOK
<1> QED  BY <1>1, <1>2, <1>3, <1>4, <1>5 DEF CliInv

LEMMA KillKeeps ==
    ASSUME CliInv, Kill
    PROVE  CliInv'
<1> USE DEF Kill, IdleAgain
<1>1. LiveInv' /\ (LiveOff => LiveOff') /\ step' = step /\ LiveTypeOK'
  BY LiveStays DEF CliInv, Resting, live, LiveInv, LiveTypes
<1>2. Resting'
  BY <1>1 DEF CliInv, Resting, Idle
<1>3. TypeOK'
  <2>1. /\ pc' = "idle" /\ cmd' = "help" /\ over' = "none" /\ conn' = "vpn" /\ mine' = "vpn"
        /\ outdated' = FALSE /\ exit' = "none" /\ why' = "" /\ touched' = {}
    BY DEF Idle
  <2>2. "none" \notin Exits /\ "" \in Reasons \ (Refusals \cup Rebuffs) /\ "vpn" \in Mode /\ "none" \notin Mode
    BY DEF Exits, Reasons, Refusals, Rebuffs, Mode
  <2>3. config' = config /\ saved' = saved /\ token' = token /\ other' = other
    OBVIOUS
  <2>4. intended' \in Mode \cup {"failed", "overridden", "raced"}
    BY DEF CliInv, TypeOK
  <2>5. /\ session' \in Mode \cup {"none"} /\ honoured' \in BOOLEAN /\ unsaved' \in BOOLEAN
        /\ (honoured' => session' # "none")
    <3>1. /\ session \in Mode \cup {"none"} /\ conn \in Mode
          /\ honoured \in BOOLEAN /\ (honoured => session # "none") /\ unsaved \in BOOLEAN
      BY DEF CliInv, TypeOK
    <3>2. CASE session' = conn /\ honoured' = TRUE /\ unsaved' = TRUE
      <4> HIDE DEF Kill, IdleAgain
      <4> QED  BY <2>2, <3>1, <3>2
    <3>3. CASE UNCHANGED <<session, honoured, unsaved>>
      <4> HIDE DEF Kill, IdleAgain
      <4> QED  BY <3>1, <3>3
    <3> QED  BY <3>2, <3>3
  <2>6. step' = "off"
    BY <1>1 DEF CliInv, TypeOK
  <2> QED  BY <1>1, <2>1, <2>2, <2>3, <2>4, <2>5, <2>6, HelpIsACommand DEF CliInv, TypeOK
<1>4. Kept'
  <2>1. "none" \notin Mode /\ "torn" \notin Mode
    BY DEF Mode
  <2>2. conn \in Mode
    BY DEF CliInv, TypeOK
  <2>3. Setting' /\ Beside' /\ ModeKept'
    BY DEF CliInv, Kept, Setting, Beside, ModesKept, ModeKept, Idle, Mode
  <2>4. SessionCanBeRenewed'
    <3>1. saved' = saved /\ (unsaved' \/ (session' = session /\ unsaved' = unsaved))
      OBVIOUS
    <3>2. SessionCanBeRenewed
      BY DEF CliInv, Kept, ModesKept
    <3> HIDE DEF Kill, IdleAgain
    <3> QED  BY <3>1, <3>2 DEF SessionCanBeRenewed
  <2> QED  BY <2>3, <2>4 DEF Kept, ModesKept
<1>5. Placed' /\ NoFalseExpiry'
  BY DEF Placed, NoFalseExpiry
<1> QED  BY <1>1, <1>2, <1>3, <1>4, <1>5 DEF CliInv

LEMMA StartsKeeps ==
    ASSUME CliInv, pc = "idle", Starts
    PROVE  CliInv'
<1>1. ASSUME NEW c \in Commands, Malformed(c) PROVE CliInv'
  BY <1>1, RefusedKeeps DEF Malformed, Ends, Refusals
<1>2. ASSUME NEW l \in CommandLines, NEW yes \in BOOLEAN, Refused(l[1], l[2], l[3], yes) PROVE CliInv'
  <2>1. why' \in Objections(l[1], l[2], l[3], yes)
    BY <1>2 DEF Refused
  <2>2. why' \in Refusals /\ (why' = "sessionless" => session = "none")
    BY <2>1 DEF Objections, Refusals
  <2> QED  BY <1>2, <2>2, LinesAreTyped, RefusedKeeps DEF Refused, Ends
<1>3. ASSUME NEW l \in CommandLines,
             \/ Show(l[1], l[2], l[3]) \/ Logout(l[1], l[2], l[3])
             \/ StartLogin(l[1], l[2], l[3]) \/ StartSaving(l[1], l[2], l[3])
             \/ StartAsking(l[1], l[2], l[3]) \/ StartDownload(l[1], l[2], l[3])
      PROVE  CliInv'
  BY <1>3, LinesAreTyped, ShowKeeps, LogoutKeeps, StartLoginKeeps, StartSavingKeeps, StartAskingKeeps,
     StartDownloadKeeps
<1> QED  BY <1>1, <1>2, <1>3 DEF Starts

LEMMA StutterKeeps ==
    ASSUME CliInv, UNCHANGED vars
    PROVE  CliInv'
<1> USE DEF vars, run, line, copy, world, disk, history
<1>1. LiveInv' /\ (LiveOff => LiveOff') /\ step' = step /\ LiveTypeOK'
  BY LiveStays DEF CliInv, Resting, live, LiveInv, LiveTypes
<1>2. Resting'
  BY <1>1 DEF CliInv, Resting, Idle
<1>3. TypeOK'
  <2>1. UNCHANGED <<config, session, saved, token, honoured, other, pc, cmd, over, conn, mine, outdated>>
    OBVIOUS
  <2>2. UNCHANGED <<exit, why, touched, intended, unsaved>>
    OBVIOUS
  <2> HIDE DEF vars, run, line, copy, world, disk, history
  <2> QED  BY <1>1, <2>1, <2>2 DEF CliInv, TypeOK
<1>4. Kept'
  BY DEF CliInv, Kept, Setting, Beside, ModesKept, ModeKept, SessionCanBeRenewed, Load
<1>5. Placed' /\ NoFalseExpiry'
  BY DEF CliInv, Placed, NoFalseExpiry
<1> QED  BY <1>1, <1>2, <1>3, <1>4, <1>5 DEF CliInv

LEMMA CliStep ==
    ASSUME CliInv, [Next]_vars
    PROVE  CliInv'
<1>1. CASE pc = "idle" /\ Starts
  BY <1>1, StartsKeeps
<1>2. CASE pc = "asking" /\ \E code \in Exits : Answer(code)
  BY <1>2, AnswerKeeps
<1>3. CASE pc = "login" /\ (LoginFails \/ \E stored \in BOOLEAN : LogIn(stored))
  BY <1>3, LoginFailsKeeps, LogInKeeps
<1>4. CASE pc \in {"saving", "writing"} /\ (SaveConfig \/ Written \/ SaveFails)
  BY <1>4, SaveConfigKeeps, WrittenKeeps, SaveFailsKeeps
<1>5. CASE pc = "downloading" /\ (Downloads \/ DownloadEnds)
  BY <1>5, DownloadsKeeps, DownloadEndsKeeps
<1>6. CASE Return \/ SessionEnds \/ TokenEnds \/ Kill
  BY <1>6, ReturnKeeps, SessionEndsKeeps, TokenEndsKeeps, KillKeeps
<1>7. CASE OtherRun
  BY <1>7, OtherReadsKeeps, OtherOpensKeeps, OtherWrittenKeeps, OtherFailsKeeps DEF OtherRun
<1>8. CASE UNCHANGED vars
  BY <1>8, StutterKeeps
<1> QED  BY <1>1, <1>2, <1>3, <1>4, <1>5, <1>6, <1>7, <1>8 DEF Next

\* The help and the handlers, joined.
LEMMA HelpIsEnough ==
    ASSUME NEW c \in Commands, c \in DOMAIN Required \ DemandsMore, NEW g, Required[c] \subseteq g
    PROVE  Holds(Needs(c), g)
<1>1. Lists(c, Required[c])
  BY EveryHelpListed DEF AllListed
<1>2. Served(c, Needs(c))
  BY EveryHandlerServed DEF AllServed, Commands, Needs
<1>3. ASSUME NEW clause \in Needs(c) PROVE clause \cap g # {}
  <2>1. PICK o \in clause : Promised(c, o)
    BY <1>2 DEF Served
  <2> QED  BY <1>1, <2>1 DEF Lists
<1> QED  BY <1>3 DEF Holds

LEMMA MissingIsMissed ==
    ASSUME NEW c \in Commands, NEW g, NEW o, NEW yes, "missing" \in Objections(c, g, o, yes)
    PROVE  ~Holds(Needs(c), g)
<1>1. ~Holds(Needs(c), Options(g))
  BY DEF Objections
<1>2. g \subseteq Options(g)
  BY DEF Options
<1> QED  BY <1>1, <1>2 DEF Holds

\* A step refuses a command line, or leaves what is known of the last refusal.
LEMMA RefusesOrNot ==
    ASSUME CliInv, [Next]_vars
    PROVE  \/ why' # "missing"
           \/ UNCHANGED <<cmd, given, why>>
           \/ \E l \in CommandLines, yes \in BOOLEAN : Refused(l[1], l[2], l[3], yes)
<1>1. pc # "done" => why # "missing"
  BY DEF CliInv, Resting
<1>2. CASE pc = "idle" /\ Starts
  <2>1. ASSUME NEW c \in Commands, Malformed(c) PROVE why' # "missing"
    BY <2>1 DEF Malformed
  <2>2. ASSUME NEW l \in CommandLines,
               \/ Show(l[1], l[2], l[3]) \/ Logout(l[1], l[2], l[3])
               \/ StartLogin(l[1], l[2], l[3]) \/ StartSaving(l[1], l[2], l[3])
               \/ StartAsking(l[1], l[2], l[3]) \/ StartDownload(l[1], l[2], l[3])
        PROVE  why' # "missing"
    BY <1>1, <1>2, <2>2 DEF Show, Logout, StartLogin, StartSaving, StartAsking, StartDownload, Begins
  <2> QED  BY <1>2, <2>1, <2>2 DEF Starts
<1>3. CASE pc = "asking" /\ \E code \in Exits : Answer(code)
  BY <1>1, <1>3 DEF Answer, MayRebuff
<1>4. CASE pc = "login" /\ (LoginFails \/ \E stored \in BOOLEAN : LogIn(stored))
  BY <1>1, <1>4 DEF LoginFails, LogIn
<1>5. CASE pc \in {"saving", "writing"} /\ (SaveConfig \/ Written \/ SaveFails)
  BY <1>1, <1>5 DEF SaveConfig, Written, SaveFails
<1>6. CASE pc = "downloading" /\ (Downloads \/ DownloadEnds)
  BY <1>1, <1>6 DEF Downloads, DownloadEnds, MayRebuff, run, line
<1>7. CASE Return \/ SessionEnds \/ TokenEnds \/ Kill
  BY <1>7 DEF Return, SessionEnds, TokenEnds, Kill, IdleAgain, run, line
<1>8. CASE OtherRun
  BY <1>8 DEF OtherRun, OtherReads, OtherOpens, OtherWritten, OtherFails, run, line
<1>9. CASE UNCHANGED vars
  BY <1>9 DEF vars, run, line
<1> QED  BY <1>2, <1>3, <1>4, <1>5, <1>6, <1>7, <1>8, <1>9 DEF Next

LEMMA HelpStep ==
    ASSUME CliInv, HelpSuffices, [Next]_vars
    PROVE  HelpSuffices'
<1>1. CASE why' # "missing"
  BY <1>1 DEF HelpSuffices
<1>2. CASE UNCHANGED <<cmd, given, why>>
  BY <1>2 DEF HelpSuffices
<1>3. ASSUME NEW l \in CommandLines, NEW yes \in BOOLEAN, Refused(l[1], l[2], l[3], yes), why' = "missing"
      PROVE  HelpSuffices'
  <2>1. l[1] \in Commands
    BY LinesAreTyped
  <2>2. cmd' = l[1] /\ given' = l[2] /\ "missing" \in Objections(l[1], l[2], l[3], yes)
    BY <1>3 DEF Refused
  <2>3. ~Holds(Needs(l[1]), l[2])
    BY <2>1, <2>2, MissingIsMissed
  <2> QED  BY <2>1, <2>2, <2>3, HelpIsEnough DEF HelpSuffices
<1> QED  BY <1>1, <1>2, <1>3, RefusesOrNot

-----------------------------------------------------------------------------
(* What follows.                                                           *)

\* The inductive invariant of the runs and of the download in them.
THEOREM CliInvariance == Spec => []CliInv
<1> QED  BY CliInit, CliStep, PTL DEF Spec

\* A recording is reported as completed, or as partial, only if what was asked
\* for, or something of it, is on disk: for any number of recordings, any files
\* left of an earlier download and any failures of the site, of ffmpeg and of the
\* disk.
THEOREM StatusAlwaysTrue == Spec => []StatusIsTrue
<1>1. CliInv => StatusIsTrue
  BY DEF CliInv, Resting, LiveInv
<1> QED  BY <1>1, CliInvariance, PTL

\* A file of an earlier download is lost only with --overwrite, or between two
\* runs.
THEOREM FilesAlwaysKept == Spec => KeptUnlessAsked
<1>1. ASSUME CliInv, [Next]_vars, NEW r \in Resource, NEW f \in File,
             files[r][f] = "old", files'[r][f] # "old", step # "off"
      PROVE  overwrite
  <2>1. pc = "downloading" /\ LiveInv /\ files' # files
    BY <1>1 DEF CliInv, TypeOK, Resting
  <2>2. Downloads
    BY <1>1, <2>1 DEF Next, DownloadEnds, Return, SessionEnds, TokenEnds, Kill, vars, live,
       OtherRun, OtherReads, OtherOpens, OtherWritten, OtherFails
  <2> QED  BY <1>1, <2>1, <2>2, LiveKeeps DEF Downloads
<1>2. CliInv /\ [Next]_vars =>
        [\A r \in Resource, f \in File :
           files[r][f] = "old" /\ files'[r][f] # "old" => overwrite \/ step = "off"]_live
  BY <1>1
<1> QED  BY <1>2, CliInvariance, PTL DEF Spec, KeptUnlessAsked

\* Nobody with a session the campus honours is told to log in for want of a login:
\* only because a system turned the command away, for the token of the recordings
\* site or the password of the cloud disk, with --mode, or where the command looks
\* for no session.
THEOREM NeverFalselyExpired == Spec => []NoFalseExpiry
<1>1. CliInv => NoFalseExpiry
  BY DEF CliInv
<1> QED  BY <1>1, CliInvariance, PTL

\* The configured mode is the one last set, unless a run whose copy of the file was
\* outdated, a --mode, or a write that failed or was killed came after it; that of
\* the credentials is the session's, unless they could not be stored.
THEOREM ModesAlwaysKept == Spec => []ModesKept
<1>1. CliInv => ModesKept
  BY DEF CliInv, Kept
<1> QED  BY <1>1, CliInvariance, PTL

\* Whoever gives a command what its help calls required is not told that an
\* option is missing, but for the commands that are named.
THEOREM HelpAlwaysSuffices == Spec => []HelpSuffices
<1>1. Init => HelpSuffices
  BY DEF Init, Idle, HelpSuffices
<1>2. CliInv /\ HelpSuffices /\ [Next]_vars => HelpSuffices'
  BY HelpStep
<1> QED  BY <1>1, <1>2, CliInvariance, PTL DEF Spec

\* Every variable keeps its type.
THEOREM CliTyped == Spec => []TypeOK
<1>1. CliInv => TypeOK
  BY DEF CliInv
<1> QED  BY <1>1, CliInvariance, PTL

-----------------------------------------------------------------------------
(* The commands that change something in a campus system: what the scripts *)
(* of Downstream have in common, and the inductive invariant.              *)

LEMMA ScriptsAre ==
    ASSUME NEW s \in AllServices
    PROVE  /\ s = "cgyy" => Script(s) = <<"write", "write">>
           /\ s = "ygdk" => Script(s) = <<"read", "read", "write", "write">>
           /\ s = "signin" => Script(s) = <<"open", "write">>
           /\ s = "evaluation" => Script(s) = <<"read", "read", "write", "read", "write">>
           /\ s \notin {"cgyy", "ygdk", "signin", "evaluation"} => Script(s) = <<"write">>
BY DEF Script, AllServices

\* The command is one of a script.
Scripted ==
    /\ Last \in 1..5
    /\ Writes \subseteq 1..Last
    /\ svc = "evaluation" => Last = 5
    /\ svc = "ygdk" => Last = 4
    /\ svc = "signin" => Last = 2 /\ Writes = {2}
    /\ svc \in JarServices => Last = 1
    /\ \A i \in 1..Last : Script(svc)[i] = "open" => svc = "signin" /\ i = 1

LEMMA ServiceHasScript == svc \in AllServices => Scripted
<1> SUFFICES ASSUME svc \in AllServices PROVE Scripted
  OBVIOUS
<1>1. CASE svc = "cgyy"
  BY <1>1, ScriptsAre DEF Scripted, Last, Writes, JarServices
<1>2. CASE svc = "ygdk"
  BY <1>2, ScriptsAre DEF Scripted, Last, Writes, JarServices
<1>3. CASE svc = "signin"
  BY <1>3, ScriptsAre DEF Scripted, Last, Writes, JarServices
<1>4. CASE svc = "evaluation"
  BY <1>4, ScriptsAre DEF Scripted, Last, Writes, JarServices
<1>5. CASE svc \notin {"cgyy", "ygdk", "signin", "evaluation"}
  BY <1>5, ScriptsAre DEF Scripted, Last, Writes, JarServices
<1> QED  BY <1>1, <1>2, <1>3, <1>4, <1>5

\* While no answer was taken for an expiry that meant something else, no write
\* is performed before its turn or twice, nor one that is about to be sent again.
Untouched ==
    /\ \A i \in 1..5 : i \notin Writes => done[i] = 0
    /\ "misread" \notin upsets =>
          /\ \A i \in 1..5 : done[i] < 2 /\ (i > at => done[i] = 0)
          /\ stage \in {"session", "request"} \/ answer \in {"expired", "refused"} => done[at] = 0

\* What an answer says of the request.
Heard ==
    /\ answer = "done" /\ at \in Writes => done[at] > 0
    /\ answer \in {"unreadable", "lost"} => "lost" \in upsets
    /\ answer = "refused" => "refused" \in upsets

\* The requests before the one at work are taken to have succeeded, and rightly so.
Believed ==
    /\ stage # "idle" => result = "none"
    /\ svc \notin {"evaluation", "ygdk"} /\ stage # "idle" => 1..(at - 1) \subseteq told
    /\ HonestElsewhere

\* While nothing was lost or misread, a write that was performed is known, or its
\* answer is in hand.
Unsaid ==
    /\ upsets \cap {"lost", "misread"} = {} =>
          \A i \in WritesDone : i \in told \/ (answer = "done" /\ i = at)
    /\ NothingUnsaid

\* The token in the jar that is the command's own.
Own == IF svc \in JarServices THEN jar[svc] ELSE "none"

\* While nothing else went wrong, a token that is no longer good was withdrawn, and one
\* that is bad after a renewal was withdrawn after it.
Spent ==
    /\ SurvivesOneExpiry
    /\ upsets = {} /\ stage # "idle" =>
          /\ held # "refused"
          /\ svc \in JarServices /\ held # "none" => Own = held
          /\ Own = "refused" => stage = "session" /\ forced
          /\ stage # "session" => held # "none"
          /\ retried => withdrawn > 0
          /\ held = "bad" \/ Own = "bad" \/ answer = "expired" => withdrawn > 0 /\ (retried => withdrawn = 2)

\* The inductive invariant.
ChangeInv == ChangeTypeOK /\ Untouched /\ Heard /\ Believed /\ Unsaid /\ Spent

LEMMA SameService ==
    svc' = svc => /\ Last' = Last
                  /\ Writes' = Writes
BY DEF Last, Writes

LEMMA GotoTyped ==
    ASSUME NEW n, Goto(n)
    PROVE  forced' \in BOOLEAN /\ retried' \in BOOLEAN
<1>1. retried' = (svc = "signin" /\ retried)
  BY DEF Goto
<1>2. (svc = "signin" /\ retried) \in BOOLEAN
  BY Zenon
<1>3. retried' \in BOOLEAN
  BY <1>1, <1>2, Zenon
<1> QED  BY <1>3 DEF Goto

LEMMA CountTyped == \A n \in 0..2 : Count(n) \in 0..2 /\ Count(n) > 0
BY DEF Count

LEMMA PerformedTyped ==
    ASSUME ChangeTypeOK, Scripted, Performed
    PROVE  done' \in [1..5 -> 0..2]
<1>1. CASE at \notin Writes
  BY <1>1 DEF ChangeTypeOK, Performed
<1>2. CASE at \in Writes
  <2>1. Count(done[at]) \in 0..2
    BY <1>2, CountTyped DEF ChangeTypeOK, Scripted
  <2> QED  BY <1>2, <2>1 DEF ChangeTypeOK, Performed, Scripted
<1> QED  BY <1>1, <1>2
-----------------------------------------------------------------------------
(* Every step of a changing command keeps the invariant.                    *)

LEMMA ReuseSafe ==
    ASSUME ChangeInv, Reuse
    PROVE  ChangeInv'
<1>1. svc' = svc
  BY DEF Reuse
<1>2. Scripted /\ Scripted' /\ Last' = Last /\ Writes' = Writes
  BY <1>1, ServiceHasScript, SameService, ServiceAssumption DEF ChangeInv, ChangeTypeOK, Scripted
<1>3. ChangeTypeOK'
  BY <1>1, <1>2 DEF ChangeInv, ChangeTypeOK, Reuse, tokens, past
<1>4. Untouched'
  BY <1>1, <1>2 DEF ChangeInv, Reuse, past, Untouched
<1>5. Heard'
  BY <1>1, <1>2 DEF ChangeInv, ChangeTypeOK, Reuse, Heard
<1>6. Believed'
  BY <1>1, <1>2 DEF ChangeInv, Reuse, past, HonestElsewhere, HonestReport, WritesDone, Believed
<1>7. Unsaid'
  BY <1>1, <1>2 DEF ChangeInv, Reuse, past, NothingUnsaid, WritesDone, Unsaid
<1>8. Spent'
  BY <1>1, <1>2 DEF ChangeInv, Reuse, tokens, past, SurvivesOneExpiry, Spent, Own
<1> QED  BY <1>3, <1>4, <1>5, <1>6, <1>7, <1>8 DEF ChangeInv

LEMMA FromJarSafe ==
    ASSUME ChangeInv, FromJar
    PROVE  ChangeInv'
<1>1. svc' = svc
  BY DEF FromJar, CookieWillDo
<1>2. Scripted /\ Scripted' /\ Last' = Last /\ Writes' = Writes
  BY <1>1, ServiceHasScript, SameService, ServiceAssumption DEF ChangeInv, ChangeTypeOK, Scripted
<1>3. ChangeTypeOK'
  BY <1>1, <1>2 DEF ChangeInv, ChangeTypeOK, FromJar, InJar, CookieWillDo, past
<1>4. Untouched'
  BY <1>1, <1>2 DEF ChangeInv, FromJar, past, Untouched
<1>5. Heard'
  BY <1>1, <1>2 DEF ChangeInv, ChangeTypeOK, FromJar, Heard
<1>6. Believed'
  BY <1>1, <1>2 DEF ChangeInv, FromJar, past, HonestElsewhere, HonestReport, WritesDone, Believed
<1>7. Unsaid'
  BY <1>1, <1>2 DEF ChangeInv, FromJar, past, NothingUnsaid, WritesDone, Unsaid
<1>8. Spent'
  BY <1>1, <1>2 DEF ChangeInv, FromJar, InJar, CookieWillDo, past, SurvivesOneExpiry, Spent, Own
<1> QED  BY <1>3, <1>4, <1>5, <1>6, <1>7, <1>8 DEF ChangeInv

LEMMA LogInSucceedsSafe ==
    ASSUME ChangeInv, LogInSucceeds
    PROVE  ChangeInv'
<1>1. svc' = svc
  BY DEF LogInSucceeds, MustLogIn, InJar
<1>2. Scripted /\ Scripted' /\ Last' = Last /\ Writes' = Writes
  BY <1>1, ServiceHasScript, SameService, ServiceAssumption DEF ChangeInv, ChangeTypeOK, Scripted
<1>3. ChangeTypeOK'
  BY <1>1, <1>2 DEF ChangeInv, ChangeTypeOK, Held, LogInSucceeds, MustLogIn, past
<1>4. Untouched'
  BY <1>1, <1>2 DEF ChangeInv, LogInSucceeds, MustLogIn, past, Untouched
<1>5. Heard'
  BY <1>1, <1>2 DEF ChangeInv, ChangeTypeOK, LogInSucceeds, MustLogIn, Heard
<1>6. Believed'
  BY <1>1, <1>2 DEF ChangeInv, LogInSucceeds, MustLogIn, past, HonestElsewhere, HonestReport,
     WritesDone, Believed
<1>7. Unsaid'
  BY <1>1, <1>2 DEF ChangeInv, LogInSucceeds, past, NothingUnsaid, WritesDone, Unsaid
<1>8. Spent'
  BY <1>1, <1>2 DEF ChangeInv, ChangeTypeOK, LogInSucceeds, MustLogIn, past, SurvivesOneExpiry, Spent, Own
<1> QED  BY <1>3, <1>4, <1>5, <1>6, <1>7, <1>8 DEF ChangeInv

LEMMA OldCookieSafe ==
    ASSUME ChangeInv, OldCookie
    PROVE  ChangeInv'
<1>1. svc' = svc
  BY DEF OldCookie, InJar
<1>2. Scripted /\ Scripted' /\ Last' = Last /\ Writes' = Writes
  BY <1>1, ServiceHasScript, SameService, ServiceAssumption DEF ChangeInv, ChangeTypeOK, Scripted
<1>3. ChangeTypeOK'
  BY <1>1, <1>2 DEF ChangeInv, ChangeTypeOK, Upsets, OldCookie, MustLogIn, InJar
<1>4. Untouched'
  BY <1>1, <1>2 DEF ChangeInv, OldCookie, MustLogIn, Untouched
<1>5. Heard'
  BY <1>1, <1>2 DEF ChangeInv, OldCookie, Heard
<1>6. Believed'
  BY <1>1, <1>2 DEF ChangeInv, OldCookie, MustLogIn, HonestElsewhere, HonestReport, WritesDone, Believed
<1>7. Unsaid'
  BY <1>1, <1>2 DEF ChangeInv, OldCookie, NothingUnsaid, WritesDone, Unsaid
<1>8. Spent'
  BY <1>1, <1>2 DEF OldCookie, SurvivesOneExpiry, Spent
<1> QED  BY <1>3, <1>4, <1>5, <1>6, <1>7, <1>8 DEF ChangeInv

LEMMA LogInRefusedSafe ==
    ASSUME ChangeInv, LogInRefused
    PROVE  ChangeInv'
<1>1. svc' = svc
  BY DEF LogInRefused, LogInFails, Finish
<1>2. Scripted /\ Scripted' /\ Last' = Last /\ Writes' = Writes
  BY <1>1, ServiceHasScript, SameService, ServiceAssumption DEF ChangeInv, ChangeTypeOK, Scripted
<1>3. ChangeTypeOK'
  BY <1>1, <1>2 DEF ChangeInv, ChangeTypeOK, Results, Upsets, LogInRefused, MustLogIn, LogInFails,
     Finish, tokens
<1>4. Untouched'
  BY <1>1, <1>2 DEF ChangeInv, LogInRefused, LogInFails, Finish, Untouched
<1>5. Heard'
  BY <1>1, <1>2 DEF ChangeInv, ChangeTypeOK, LogInRefused, MustLogIn, Heard
<1>6. Believed'
  BY <1>1, <1>2 DEF ChangeInv, LogInRefused, LogInFails, Finish, HonestElsewhere, HonestReport,
     WritesDone, Believed
<1>7. Unsaid'
  BY <1>1, <1>2 DEF ChangeInv, LogInRefused, MustLogIn, LogInFails, Finish, NothingUnsaid, WritesDone,
     Unsaid, Untouched
<1>8. Spent'
  BY <1>1, <1>2 DEF LogInRefused, SurvivesOneExpiry, Spent
<1> QED  BY <1>3, <1>4, <1>5, <1>6, <1>7, <1>8 DEF ChangeInv

LEMMA LogInLostSafe ==
    ASSUME ChangeInv, LogInLost
    PROVE  ChangeInv'
<1>1. svc' = svc
  BY DEF LogInLost, LogInFails, Finish
<1>2. Scripted /\ Scripted' /\ Last' = Last /\ Writes' = Writes
  BY <1>1, ServiceHasScript, SameService, ServiceAssumption DEF ChangeInv, ChangeTypeOK, Scripted
<1>3. ChangeTypeOK'
  BY <1>1, <1>2 DEF ChangeInv, ChangeTypeOK, Results, Upsets, LogInLost, MustLogIn, LogInFails, Finish,
     tokens
<1>4. Untouched'
  BY <1>1, <1>2 DEF ChangeInv, LogInLost, LogInFails, Finish, Untouched
<1>5. Heard'
  BY <1>1, <1>2 DEF ChangeInv, ChangeTypeOK, LogInLost, MustLogIn, Heard
<1>6. Believed'
  BY <1>1, <1>2 DEF ChangeInv, LogInLost, LogInFails, Finish, HonestElsewhere, HonestReport, WritesDone,
     Believed
<1>7. Unsaid'
  BY <1>1, <1>2 DEF LogInLost, NothingUnsaid, Unsaid
<1>8. Spent'
  BY <1>1, <1>2 DEF LogInLost, SurvivesOneExpiry, Spent
<1> QED  BY <1>3, <1>4, <1>5, <1>6, <1>7, <1>8 DEF ChangeInv

LEMMA AcceptedSafe ==
    ASSUME ChangeInv, Accepted
    PROVE  ChangeInv'
<1>1. svc' = svc
  BY DEF Accepted, Answered
<1>2. Scripted /\ Scripted' /\ Last' = Last /\ Writes' = Writes
  BY <1>1, ServiceHasScript, SameService, ServiceAssumption DEF ChangeInv, ChangeTypeOK, Scripted
<1>3. ChangeTypeOK'
  <2>1. done' \in [1..5 -> 0..2]
    BY <1>2, PerformedTyped DEF ChangeInv, Accepted
  <2> QED  BY <1>1, <1>2, <2>1 DEF ChangeInv, ChangeTypeOK, Answers, Upsets, Accepted, Answered, past,
              tokens
<1>4. Untouched'
  BY <1>1, <1>2 DEF ChangeInv, Accepted, Performed, Answered, Count, Untouched
<1>5. Heard'
  BY <1>1, <1>2 DEF ChangeInv, Scripted, ChangeTypeOK, Accepted, Performed, Answered, Count, Heard
<1>6. Believed'
  <2>1. \A i \in Writes : done[i] > 0 => done'[i] > 0
    BY <1>2 DEF ChangeInv, ChangeTypeOK, Accepted, Performed, Count
  <2>2. WritesDone \subseteq WritesDone'
    BY <1>2, <2>1 DEF WritesDone
  <2>3. stage # "idle" /\ stage' # "idle" /\ result' = result /\ told' = told /\ at' = at
    BY DEF Accepted, Answered
  <2> QED  BY <1>1, <1>2, <2>2, <2>3 DEF ChangeInv, Believed, HonestElsewhere, HonestReport
<1>7. Unsaid'
  BY <1>1, <1>2 DEF ChangeInv, Accepted, Performed, Answered, NothingUnsaid, WritesDone, Unsaid
<1>8. Spent'
  BY <1>1, <1>2 DEF ChangeInv, Accepted, Answered, SurvivesOneExpiry, Spent, Own
<1> QED  BY <1>3, <1>4, <1>5, <1>6, <1>7, <1>8 DEF ChangeInv

LEMMA RejectedSafe ==
    ASSUME ChangeInv, Rejected
    PROVE  ChangeInv'
<1>1. svc' = svc
  BY DEF Rejected, Answered
<1>2. Scripted /\ Scripted' /\ Last' = Last /\ Writes' = Writes
  BY <1>1, ServiceHasScript, SameService, ServiceAssumption DEF ChangeInv, ChangeTypeOK, Scripted
<1>3. ChangeTypeOK'
  BY <1>1, <1>2 DEF ChangeInv, ChangeTypeOK, Answers, Upsets, Rejected, Answered
<1>4. Untouched'
  BY <1>1, <1>2 DEF ChangeInv, Rejected, Answered, Untouched
<1>5. Heard'
  BY <1>1, <1>2 DEF Rejected, Answered, Heard
<1>6. Believed'
  BY <1>1, <1>2 DEF ChangeInv, Rejected, Answered, HonestElsewhere, HonestReport, WritesDone, Believed
<1>7. Unsaid'
  BY <1>1, <1>2 DEF ChangeInv, ChangeTypeOK, Rejected, Answered, NothingUnsaid, WritesDone, Unsaid
<1>8. Spent'
  BY <1>1, <1>2 DEF Rejected, Answered, SurvivesOneExpiry, Spent
<1> QED  BY <1>3, <1>4, <1>5, <1>6, <1>7, <1>8 DEF ChangeInv

LEMMA TurnedAwaySafe ==
    ASSUME ChangeInv, TurnedAway
    PROVE  ChangeInv'
<1>1. svc' = svc
  BY DEF TurnedAway, Honoured, Answered
<1>2. Scripted /\ Scripted' /\ Last' = Last /\ Writes' = Writes
  BY <1>1, ServiceHasScript, SameService, ServiceAssumption DEF ChangeInv, ChangeTypeOK, Scripted
<1>3. ChangeTypeOK'
  BY <1>1, <1>2 DEF ChangeInv, ChangeTypeOK, Answers, TurnedAway, Answered
<1>4. Untouched'
  BY <1>1, <1>2 DEF ChangeInv, TurnedAway, Answered, Untouched
<1>5. Heard'
  BY <1>1, <1>2 DEF TurnedAway, Answered, Heard
<1>6. Believed'
  BY <1>1, <1>2 DEF ChangeInv, TurnedAway, Answered, HonestElsewhere, HonestReport, WritesDone, Believed
<1>7. Unsaid'
  BY <1>1, <1>2 DEF ChangeInv, ChangeTypeOK, TurnedAway, Answered, NothingUnsaid, WritesDone, Unsaid
<1>8. Spent'
  BY <1>1, <1>2 DEF ChangeInv, ChangeTypeOK, Held, TurnedAway, Honoured, Answered, SurvivesOneExpiry,
     Spent, Own
<1> QED  BY <1>3, <1>4, <1>5, <1>6, <1>7, <1>8 DEF ChangeInv

LEMMA RedirectedSafe ==
    ASSUME ChangeInv, Redirected
    PROVE  ChangeInv'
<1>1. svc' = svc
  BY DEF Redirected, Honoured, Answered
<1>2. Scripted /\ Scripted' /\ Last' = Last /\ Writes' = Writes
  BY <1>1, ServiceHasScript, SameService, ServiceAssumption DEF ChangeInv, ChangeTypeOK, Scripted
<1>3. ChangeTypeOK'
  BY <1>1, <1>2 DEF ChangeInv, ChangeTypeOK, Held, Answers, Upsets, Redirected, Answered
<1>4. Untouched'
  BY <1>1, <1>2 DEF ChangeInv, Redirected, Answered, Untouched
<1>5. Heard'
  BY <1>1, <1>2 DEF Redirected, Answered, Heard
<1>6. Believed'
  BY <1>1, <1>2 DEF ChangeInv, Redirected, Answered, HonestElsewhere, HonestReport, WritesDone, Believed
<1>7. Unsaid'
  BY <1>1, <1>2 DEF ChangeInv, Redirected, Answered, NothingUnsaid, WritesDone, Unsaid
<1>8. Spent'
  BY <1>1, <1>2 DEF ChangeInv, Scripted, Redirected, Answered, SurvivesOneExpiry, Spent, Own
<1> QED  BY <1>3, <1>4, <1>5, <1>6, <1>7, <1>8 DEF ChangeInv

LEMMA LostSafe ==
    ASSUME ChangeInv, Lost
    PROVE  ChangeInv'
<1>1. svc' = svc
  BY DEF Lost, Answered
<1>2. Scripted /\ Scripted' /\ Last' = Last /\ Writes' = Writes
  BY <1>1, ServiceHasScript, SameService, ServiceAssumption DEF ChangeInv, ChangeTypeOK, Scripted
<1>3. ChangeTypeOK'
  BY <1>1, <1>2 DEF ChangeInv, ChangeTypeOK, Answers, Upsets, Lost, Answered
<1>4. Untouched'
  BY <1>1, <1>2 DEF ChangeInv, Lost, Answered, Untouched
<1>5. Heard'
  BY <1>1, <1>2 DEF Lost, Answered, Heard
<1>6. Believed'
  BY <1>1, <1>2 DEF ChangeInv, Lost, Answered, HonestElsewhere, HonestReport, WritesDone, Believed
<1>7. Unsaid'
  BY <1>1, <1>2 DEF Lost, Answered, NothingUnsaid, Unsaid
<1>8. Spent'
  BY <1>1, <1>2 DEF Lost, Answered, SurvivesOneExpiry, Spent
<1> QED  BY <1>3, <1>4, <1>5, <1>6, <1>7, <1>8 DEF ChangeInv

LEMMA ReadDoneSafe ==
    ASSUME ChangeInv, ReadDone
    PROVE  ChangeInv'
<1>1. svc' = svc
  BY DEF ReadDone, Goto, Conclude, Finish
<1>2. Scripted /\ Scripted' /\ Last' = Last /\ Writes' = Writes
  BY <1>1, ServiceHasScript, SameService, ServiceAssumption DEF ChangeInv, ChangeTypeOK, Scripted
<1>3. ChangeTypeOK'
  <2>1. told' \subseteq 1..Last
    BY DEF ChangeInv, ChangeTypeOK, ReadDone
  <2>2. at' \in 1..Last /\ stage' \in {"idle", "session"}
    BY <1>2 DEF ChangeInv, Scripted, ChangeTypeOK, ReadDone, Goto, Conclude, Finish
  <2>4. forced' \in BOOLEAN /\ retried' \in BOOLEAN
    BY GotoTyped DEF ChangeInv, ChangeTypeOK, ReadDone, Conclude, Finish
  <2>3. result' \in Results
    BY DEF ChangeInv, ChangeTypeOK, Results, ReadDone, Goto, Conclude, Finish
  <2> QED  BY <1>1, <1>2, <2>1, <2>2, <2>3, <2>4 DEF ChangeInv, ChangeTypeOK, Held, Answers, Results,
              Upsets, ReadDone, tokens
<1>4. Untouched'
  BY <1>1, <1>2 DEF ChangeInv, Scripted, ChangeTypeOK, ReadDone, Goto, Conclude, Finish, Untouched
<1>5. Heard'
  BY <1>1, <1>2 DEF ReadDone, Heard
<1>6. Believed'
  BY <1>1, <1>2 DEF ChangeInv, Scripted, ChangeTypeOK, ReadDone, Goto, Conclude, Finish,
     HonestElsewhere, HonestReport, WritesDone, Believed, Heard
<1>7. Unsaid'
  BY <1>1, <1>2 DEF ChangeInv, ReadDone, Goto, Conclude, Finish, NothingUnsaid, WritesDone, Unsaid
<1>8. Spent'
  BY <1>1, <1>2 DEF ChangeInv, ReadDone, Goto, Conclude, Finish, tokens, NeverRenews, SurvivesOneExpiry,
     Spent, Own
<1> QED  BY <1>3, <1>4, <1>5, <1>6, <1>7, <1>8 DEF ChangeInv

LEMMA ReadFailureSafe ==
    ASSUME ChangeInv, ReadFailure
    PROVE  ChangeInv'
<1>1. svc' = svc
  BY DEF ReadFailure, GiveUp, Goto, Conclude, Finish, Failures
<1>2. Scripted /\ Scripted' /\ Last' = Last /\ Writes' = Writes
  BY <1>1, ServiceHasScript, SameService, ServiceAssumption DEF ChangeInv, ChangeTypeOK, Scripted
<1>3. ChangeTypeOK'
  <2>2. at' \in 1..Last /\ stage' \in {"idle", "session"}
    BY <1>2 DEF ChangeInv, Scripted, ChangeTypeOK, ReadFailure, GiveUp, Goto, Conclude, Finish
  <2>4. forced' \in BOOLEAN /\ retried' \in BOOLEAN
    BY GotoTyped DEF ChangeInv, ChangeTypeOK, ReadFailure, GiveUp, Conclude, Finish
  <2>3. result' \in Results
    BY DEF ChangeInv, ChangeTypeOK, Results, ReadFailure, GiveUp, Goto, Conclude, Finish
  <2> QED  BY <1>1, <1>2, <2>2, <2>3, <2>4 DEF ChangeInv, ChangeTypeOK, Held, Answers, Results, Upsets,
              ReadFailure, tokens
<1>4. Untouched'
  BY <1>1, <1>2 DEF ChangeInv, ChangeTypeOK, ReadFailure, GiveUp, Goto, Conclude, Finish, Untouched
<1>5. Heard'
  BY <1>1, <1>2 DEF ReadFailure, Heard
<1>6. Believed'
  BY <1>1, <1>2 DEF ChangeInv, ReadFailure, GiveUp, Goto, Conclude, Finish, HonestElsewhere,
     HonestReport, WritesDone, Believed
<1>7. Unsaid'
  <2>1. done' = done /\ upsets' = upsets /\ told' = told /\ answer' = "none" /\ WritesDone' = WritesDone
    BY <1>2 DEF ReadFailure, WritesDone
  <2>2. upsets \cap {"lost", "misread"} = {} => answer = "refused" /\ at \notin WritesDone
    BY DEF ChangeInv, Heard, Untouched, ReadFailure, Failures, WritesDone
  <2>3. stage' = "idle" /\ result' \in {"expired", "failed"} => at' = at
    BY <1>1 DEF ReadFailure, GiveUp, Goto, Conclude, Finish
  <2> QED  BY <1>1, <1>2, <2>1, <2>2, <2>3 DEF ChangeInv, Unsaid, NothingUnsaid
<1>8. Spent'
  BY <1>1, <1>2 DEF ChangeInv, ReadFailure, Failures, SurvivesOneExpiry, Spent, Heard
<1> QED  BY <1>3, <1>4, <1>5, <1>6, <1>7, <1>8 DEF ChangeInv

LEMMA RenewSafe ==
    ASSUME ChangeInv, Renew
    PROVE  ChangeInv'
<1>1. svc' = svc
  BY DEF Renew
<1>2. Scripted /\ Scripted' /\ Last' = Last /\ Writes' = Writes
  BY <1>1, ServiceHasScript, SameService, ServiceAssumption DEF ChangeInv, ChangeTypeOK, Scripted
<1>3. ChangeTypeOK'
  BY <1>1, <1>2 DEF ChangeInv, Scripted, ChangeTypeOK, Held, Answers, Renew, SeenRefused, past
<1>4. Untouched'
  BY <1>1, <1>2 DEF ChangeInv, Scripted, ChangeTypeOK, Renew, MayRenew, past, Untouched
<1>5. Heard'
  BY <1>1, <1>2 DEF Renew, Heard
<1>6. Believed'
  BY <1>1, <1>2 DEF ChangeInv, Renew, past, HonestElsewhere, HonestReport, WritesDone, Believed
<1>7. Unsaid'
  BY <1>1, <1>2 DEF ChangeInv, Renew, MayRenew, past, NothingUnsaid, WritesDone, Unsaid
<1>8. Spent'
  BY <1>1, <1>2 DEF ChangeInv, ChangeTypeOK, Renew, MayRenew, SeenRefused, past, SurvivesOneExpiry,
     Spent, Own
<1> QED  BY <1>3, <1>4, <1>5, <1>6, <1>7, <1>8 DEF ChangeInv

LEMMA ReadExpiredSafe ==
    ASSUME ChangeInv, ReadExpired
    PROVE  ChangeInv'
<1>1. svc' = svc
  BY DEF ReadExpired, ExpiredAgain, GiveUp, Goto, Conclude, Finish
<1>2. Scripted /\ Scripted' /\ Last' = Last /\ Writes' = Writes
  BY <1>1, ServiceHasScript, SameService, ServiceAssumption DEF ChangeInv, ChangeTypeOK, Scripted
<1>3. ChangeTypeOK'
  <2>1. told' \subseteq 1..Last
    BY <1>2 DEF ChangeInv, ChangeTypeOK, ReadExpired, ExpiredAgain
  <2>2. at' \in 1..Last /\ stage' \in {"idle", "session"}
    BY <1>2 DEF ChangeInv, Scripted, ChangeTypeOK, ReadExpired, ExpiredAgain, GiveUp, Goto, Conclude, Finish
  <2>4. forced' \in BOOLEAN /\ retried' \in BOOLEAN
    BY GotoTyped DEF ChangeInv, ChangeTypeOK, ReadExpired, ExpiredAgain, GiveUp, Conclude, Finish
  <2>3. result' \in Results
    BY DEF ChangeInv, ChangeTypeOK, Results, ReadExpired, ExpiredAgain, GiveUp, Goto, Conclude, Finish
  <2> QED  BY <1>1, <1>2, <2>1, <2>2, <2>3, <2>4 DEF ChangeInv, ChangeTypeOK, Held, Answers, Results,
              Upsets, ReadExpired
<1>4. Untouched'
  BY <1>1, <1>2 DEF ChangeInv, ChangeTypeOK, ReadExpired, ExpiredAgain, GiveUp, Goto, Conclude, Finish,
     Untouched
<1>5. Heard'
  BY <1>1, <1>2 DEF ReadExpired, Heard
<1>6. Believed'
  BY <1>1, <1>2 DEF ChangeInv, ReadExpired, ExpiredAgain, GiveUp, Goto, Conclude, Finish,
     HonestElsewhere, HonestReport, WritesDone, Believed
<1>7. Unsaid'
  BY <1>1, <1>2 DEF ChangeInv, ReadExpired, ExpiredAgain, GiveUp, Goto, Conclude, Finish, NothingUnsaid,
     WritesDone, Unsaid, Untouched
<1>8. Spent'
  BY <1>1, <1>2 DEF ChangeInv, ChangeTypeOK, ReadExpired, Renews, ExpiredAgain, GiveUp, Goto, Conclude,
     Finish, SurvivesOneExpiry, Spent, Own
<1> QED  BY <1>3, <1>4, <1>5, <1>6, <1>7, <1>8 DEF ChangeInv

LEMMA WithdrawSafe ==
    ASSUME ChangeInv, Withdraw
    PROVE  ChangeInv'
<1>1. svc' = svc
  BY DEF Withdraw, control
<1>2. Scripted /\ Scripted' /\ Last' = Last /\ Writes' = Writes
  BY <1>1, ServiceHasScript, SameService, ServiceAssumption DEF ChangeInv, ChangeTypeOK, Scripted
<1>3. ChangeTypeOK'
  BY <1>1, <1>2 DEF ChangeInv, ChangeTypeOK, Held, Withdraw, Spoilt, Count, control
<1>4. Untouched'
  BY <1>1, <1>2 DEF ChangeInv, Withdraw, control, Untouched
<1>5. Heard'
  BY <1>1, <1>2 DEF ChangeInv, Withdraw, control, Heard
<1>6. Believed'
  BY <1>1, <1>2 DEF ChangeInv, Withdraw, control, HonestElsewhere, HonestReport, WritesDone, Believed
<1>7. Unsaid'
  BY <1>1, <1>2 DEF ChangeInv, Withdraw, control, NothingUnsaid, WritesDone, Unsaid
<1>8. Spent'
  BY <1>1, <1>2 DEF ChangeInv, ChangeTypeOK, Withdraw, Spoilt, Count, control, SurvivesOneExpiry, Spent, Own
<1> QED  BY <1>3, <1>4, <1>5, <1>6, <1>7, <1>8 DEF ChangeInv

LEMMA BetweenSafe ==
    ASSUME ChangeInv, Between
    PROVE  ChangeInv'
<1>1. svc' = svc
  BY DEF Between, Spoilt, control
<1>2. Scripted /\ Scripted' /\ Last' = Last /\ Writes' = Writes
  BY <1>1, ServiceHasScript, SameService, ServiceAssumption DEF ChangeInv, ChangeTypeOK, Scripted
<1>3. ChangeTypeOK'
  BY <1>1, <1>2 DEF ChangeInv, ChangeTypeOK, Held, Between, Spoilt, control, past
<1>4. Untouched'
  BY <1>1, <1>2 DEF ChangeInv, Between, control, past, Untouched
<1>5. Heard'
  BY <1>1, <1>2 DEF ChangeInv, ChangeTypeOK, Between, Heard
<1>6. Believed'
  BY <1>1, <1>2 DEF ChangeInv, Between, control, past, HonestElsewhere, HonestReport, WritesDone, Believed
<1>7. Unsaid'
  BY <1>1, <1>2 DEF ChangeInv, Between, control, past, NothingUnsaid, WritesDone, Unsaid
<1>8. Spent'
  BY <1>1, <1>2 DEF ChangeInv, Between, control, past, SurvivesOneExpiry, Spent
<1> QED  BY <1>3, <1>4, <1>5, <1>6, <1>7, <1>8 DEF ChangeInv

LEMMA BeginSafe ==
    ASSUME ChangeInv, NEW s \in Service,
           NEW confirmed \in BOOLEAN, NEW capable \in BOOLEAN, Begin(s, confirmed, capable)
    PROVE  ChangeInv'
<1>1. svc' = s /\ at' = 1 /\ answer' = "none" /\ told' = {} /\ done' = [i \in 1..5 |-> 0]
      /\ held' = "none" /\ upsets' = {} /\ retried' = FALSE /\ result' \in {"none", "denied"}
      /\ (stage' # "idle" => result' = "none")
  BY DEF Begin, Fresh
<1>2. Scripted' /\ WritesDone' = {}
  <2>1. (svc \in AllServices)'
    BY <1>1, ServiceAssumption
  <2>2. Scripted'
    BY <2>1, ServiceHasScript, PTL
  <2>3. \A i \in Writes' : done'[i] = 0
    BY <1>1, <2>2 DEF Scripted
  <2> QED  BY <2>2, <2>3 DEF WritesDone
<1>3. ChangeTypeOK'
  <2>1. jar' \in [JarServices -> Held \cup {"none"}]
    BY DEF ChangeInv, ChangeTypeOK, Held, Begin, Fresh
  <2>2. done' \in [1..5 -> 0..2] /\ withdrawn' \in 0..2 /\ at' \in 1..Last'
    BY <1>1, <1>2 DEF Scripted, Begin, Fresh
  <2>3. stage' \in {"idle", "session"} /\ forced' = FALSE
    BY DEF Begin, Fresh
  <2> QED  BY <1>1, <2>1, <2>2, <2>3 DEF ChangeTypeOK, Answers, Results, Upsets
<1>4. Untouched' /\ Heard'
  BY <1>1 DEF Untouched, Heard, Begin
<1>5. Believed'
  BY <1>1 DEF Believed, HonestElsewhere, HonestReport
<1>6. Unsaid'
  BY <1>1, <1>2 DEF Unsaid, NothingUnsaid
<1>7. Spent'
  BY <1>1 DEF Spent, Own, SurvivesOneExpiry, Begin, Fresh
<1> QED  BY <1>3, <1>4, <1>5, <1>6, <1>7 DEF ChangeInv

LEMMA ChangeStarts ==
    ASSUME ChangeInit
    PROVE  ChangeInv
<1>1. Scripted /\ WritesDone = {}
  <2>1. svc \in AllServices
    BY ServiceAssumption DEF ChangeInit
  <2>2. Scripted
    BY <2>1, ServiceHasScript
  <2>3. \A i \in Writes : done[i] = 0
    BY <2>2 DEF Scripted, ChangeInit
  <2> QED  BY <2>2, <2>3 DEF WritesDone
<1>2. ChangeTypeOK
  <2>1. jar \in [JarServices -> Held \cup {"none"}]
    BY DEF Held, ChangeInit
  <2>2. done \in [1..5 -> 0..2] /\ at \in 1..Last
    BY <1>1 DEF Scripted, ChangeInit
  <2>3. stage = "idle" /\ answer = "none" /\ held = "none" /\ forced = FALSE /\ retried = FALSE
        /\ result = "none" /\ told = {} /\ upsets = {} /\ withdrawn = 0 /\ svc \in Service
    BY DEF ChangeInit
  <2>4. told \subseteq 1..Last /\ upsets \subseteq Upsets /\ withdrawn \in 0..2
    BY <2>3
  <2> QED  BY <2>1, <2>2, <2>3, <2>4 DEF ChangeTypeOK, Held, Answers, Results
<1>3. Untouched /\ Heard /\ Believed
  BY DEF Untouched, Heard, Believed, HonestElsewhere, HonestReport, ChangeInit
<1>4. Unsaid /\ Spent
  BY <1>1 DEF Unsaid, NothingUnsaid, Spent, SurvivesOneExpiry, ChangeInit
<1> QED  BY <1>2, <1>3, <1>4 DEF ChangeInv

LEMMA ChangeStutters ==
    ASSUME ChangeInv, UNCHANGED changeVars
    PROVE  ChangeInv'
<1>1. svc' = svc /\ at' = at /\ stage' = stage /\ forced' = forced /\ retried' = retried /\ held' = held
      /\ jar' = jar /\ answer' = answer /\ result' = result /\ done' = done /\ told' = told
      /\ withdrawn' = withdrawn /\ upsets' = upsets
  BY DEF changeVars, control, tokens, past
<1>2. Last' = Last /\ Writes' = Writes
  BY <1>1, SameService
<1>3. WritesDone' = WritesDone
  BY <1>1, <1>2 DEF WritesDone
<1>4. ChangeTypeOK' /\ Untouched' /\ Heard'
  BY <1>1, <1>2 DEF ChangeInv, ChangeTypeOK, Untouched, Heard
<1>5. Believed' /\ Unsaid' /\ Spent'
  BY <1>1, <1>2, <1>3 DEF ChangeInv, Believed, HonestElsewhere, HonestReport, Unsaid, NothingUnsaid,
     Spent, Own, SurvivesOneExpiry
<1> QED  BY <1>4, <1>5 DEF ChangeInv

LEMMA ChangeSteps ==
    ASSUME ChangeInv, [ChangeNext]_changeVars
    PROVE  ChangeInv'
<1>1. ASSUME NEW s \in Service, NEW confirmed \in BOOLEAN, NEW capable \in BOOLEAN,
             Begin(s, confirmed, capable)
      PROVE  ChangeInv'
  BY <1>1, BeginSafe
<1>2. CASE Client
  BY <1>2, ReuseSafe, FromJarSafe, ReadDoneSafe, ReadFailureSafe, RenewSafe, ReadExpiredSafe DEF Client
<1>3. CASE Answering
  BY <1>3, LogInSucceedsSafe, OldCookieSafe, LogInRefusedSafe, LogInLostSafe, AcceptedSafe,
     RejectedSafe, TurnedAwaySafe, RedirectedSafe, LostSafe DEF Answering
<1>4. CASE Withdraw \/ Between
  BY <1>4, WithdrawSafe, BetweenSafe
<1>5. CASE UNCHANGED changeVars
  BY <1>5, ChangeStutters
<1> QED  BY <1>1, <1>2, <1>3, <1>4, <1>5 DEF ChangeNext

-----------------------------------------------------------------------------
(* What follows of the changing commands.                                  *)

\* The inductive invariant of the changing commands, for any of the services.
THEOREM ChangeInvariance == ChangeSpec => []ChangeInv
<1>1. ChangeInit => ChangeInv
  BY ChangeStarts
<1>2. ChangeInv /\ [ChangeNext]_changeVars => ChangeInv'
  BY ChangeSteps
<1> QED  BY <1>1, <1>2, PTL DEF ChangeSpec

\* What a command reports of its writes is what it did: what it counts as done was
\* done (the sports clock-in excepted), and what was done it knows of, while no
\* answer was lost or misread.
THEOREM AlwaysReportedTruly == ChangeSpec => []ReportedTruly
<1>1. ChangeInv => ReportedTruly
  BY DEF ChangeInv, Believed, Unsaid, ReportedTruly
<1> QED  BY <1>1, ChangeInvariance, PTL

\* However often a token is withdrawn, the retry after a renewal performs no write
\* twice, unless an answer that meant something else was read as an expiry.
THEOREM AlwaysDoneOnce == ChangeSpec => []DoneOnce
<1>1. ChangeInv => DoneOnce
  BY DEF ChangeInv, Untouched, DoneOnce
<1> QED  BY <1>1, ChangeInvariance, PTL

\* One token withdrawn before or during a command fails none of a service that
\* renews its token.
THEOREM OneExpirySurvived == ChangeSpec => []SurvivesOneExpiry
<1>1. ChangeInv => SurvivesOneExpiry
  BY DEF ChangeInv, Spent
<1> QED  BY <1>1, ChangeInvariance, PTL

\* Every variable keeps its type, and no request is made beyond the script of a
\* service: the next evaluation is always one of the courses there are.
THEOREM ChangeTyped == ChangeSpec => []ChangeTypeOK
<1>1. ChangeInv => ChangeTypeOK
  BY DEF ChangeInv
<1> QED  BY <1>1, ChangeInvariance, PTL

=============================================================================
