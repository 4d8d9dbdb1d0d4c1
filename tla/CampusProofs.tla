----------------------------- MODULE CampusProofs -----------------------------
(***************************************************************************)
(* Proofs about Campus, for any commands and any number of rounds: what    *)
(* the tables of CampusSystems have in common, and what follows for every  *)
(* query command.                                                          *)
(***************************************************************************)
EXTENDS Campus, TLAPS

-----------------------------------------------------------------------------
(* The tables.  They are put together of small ones, so what holds of each *)
(* entry of each of these holds of every entry.                            *)

LEMMA JoinedFrom ==
    ASSUME NEW tables, NEW n \in DOMAIN Joined(tables)
    PROVE  \E t \in tables : n \in DOMAIN t /\ Joined(tables)[n] = t[n]
<1>1. PICK t \in tables : n \in DOMAIN t
  BY DEF Joined
<1> DEFINE u == CHOOSE u \in tables : n \in DOMAIN u
<1>2. u \in tables /\ n \in DOMAIN u
  BY <1>1
<1>3. Joined(tables)[n] = u[n]
  BY <1>1 DEF Joined
<1> HIDE DEF u
<1> QED  BY <1>2, <1>3

LEMMA JoinedHas ==
    ASSUME NEW tables
    PROVE  DOMAIN Joined(tables) = UNION {DOMAIN t : t \in tables}
BY DEF Joined

\* What every command takes for an answer.
Plain == {"rows", "none", "odd"}

\* Only what is in empties is read as rows or as an empty list.
Honest(reading, empties) ==
    \A o \in DOMAIN reading : o \in {"rows", "empty"} => reading[o] \subseteq empties

\* What is in seen is read as an expiry, and a list is not read as a failure of
\* the session.
Seen(reading, seen) ==
    \A o \in DOMAIN reading :
        /\ o # "expired" => reading[o] \cap seen = {}
        /\ o \in {"expired", "auth", "network"} => reading[o] \cap {"rows", "none"} = {}

\* Only what is in empties is read as an expiry.
Swallows(reading, empties) == \A o \in DOMAIN reading : o = "expired" => reading[o] \subseteq empties

LetsIn(enter) == \A o \in DOMAIN enter : "in" \in enter[o] => o = "ready"

LEMMA JoinedHonest ==
    ASSUME NEW tables, NEW empties, \A t \in tables : Honest(t, empties)
    PROVE  Honest(Joined(tables), empties)
BY JoinedFrom DEF Honest

LEMMA JoinedSeen ==
    ASSUME NEW tables, NEW seen, \A t \in tables : Seen(t, seen)
    PROVE  Seen(Joined(tables), seen)
BY JoinedFrom DEF Seen

LEMMA JoinedSwallows ==
    ASSUME NEW tables, NEW empties, \A t \in tables : Swallows(t, empties)
    PROVE  Swallows(Joined(tables), empties)
BY JoinedFrom DEF Swallows

LEMMA MoreHonest ==
    ASSUME NEW reading, NEW E, NEW F, Honest(reading, E), E \subseteq F
    PROVE  Honest(reading, F)
BY DEF Honest

LEMMA LessSeen ==
    ASSUME NEW reading, NEW S, NEW T, Seen(reading, S), T \subseteq S
    PROVE  Seen(reading, T)
BY DEF Seen

-----------------------------------------------------------------------------
(* What a command needs of its requests.                                   *)

EmptyAfterAll == {"ygdk", "ygdkMore", "signin"}

Survivable(ask, seen) == ask.renews /\ Seen(ask.reading, seen) /\ LetsIn(ask.enter)

Fits(c, k) ==
    /\ k \in DOMAIN Kinds
    /\ Kinds[k].optional \/ Honest(Kinds[k].reading, Empties(c))
    /\ k \in EmptyAfterAll => "denied" \in Empties(c) /\ Swallows(Kinds[k].reading, Empties(c))
    /\ c \notin AskOnce => k \notin NoEntry /\ Survivable(Kinds[k], Recognised(c))

\* Commands that may start from their second request.
FromSecond == {"judge assignments"}

AllFit(c, script) ==
    /\ script \in Seq(DOMAIN Kinds) /\ Len(script) \in 1..8
    /\ c \in FromSecond => Len(script) >= 2
    /\ \A i \in 1..Len(script) : Fits(c, script[i])

ScriptsFit(table) == \A c \in DOMAIN table : AllFit(c, table[c])

-----------------------------------------------------------------------------
(* How answers are read.                                                   *)

\* Every system lets in whom it welcomes.
LEMMA EveryoneLetsIn ==
    /\ LetsIn(ByxtEnter) /\ LetsIn(AppEnter) /\ LetsIn(ScoreEnter) /\ LetsIn(SpocEnter)
    /\ LetsIn(JudgeEnter) /\ LetsIn(BykcEnter) /\ LetsIn(VenueEnter) /\ LetsIn(SeatEnter)
    /\ LetsIn(YgdkEnter) /\ LetsIn(SigninEnter) /\ LetsIn(EvaluationEnter)
    /\ \A cookie \in BOOLEAN : LetsIn(SrsEnter(cookie))
BY DEF LetsIn, ByxtEnter, AppEnter, ScoreEnter, SpocEnter, JudgeEnter, BykcEnter, VenueEnter, SeatEnter,
       YgdkEnter, SigninEnter, EvaluationEnter, SrsEnter

\* What the parsers make of an answer.
LEMMA ParsersAreHonest ==
    /\ \A r \in {Lenient, Required, Demanded, SpocParsed, BykcParsed, VenueParsed, SeatParsed, YgdkParsed,
                 SigninParsed, SrsParsed} :
          Honest(r, Plain) /\ Swallows(r, {})
    /\ Honest(JudgeParsed, Plain \cup {"page", "refused"})
BY DEF Honest, Swallows, Plain, Lenient, Required, Demanded, SpocParsed, BykcParsed, VenueParsed, SeatParsed, YgdkParsed,
       SigninParsed, SrsParsed, JudgeParsed

LEMMA ParsersSee ==
    /\ \A r \in {Lenient, Required, Demanded, SpocParsed, BykcParsed, VenueParsed, YgdkParsed, SrsParsed, JudgeParsed} :
          Seen(r, TurnedAway)
    /\ Seen(SeatParsed, {"away", "denied"})
    /\ Seen(SigninParsed, {"denied"})
BY DEF Seen, TurnedAway, Lenient, Required, Demanded, SpocParsed, BykcParsed, VenueParsed, SeatParsed, YgdkParsed,
       SigninParsed, SrsParsed, JudgeParsed

\* What the requests for a session of a system are read as.
LEMMA TurnedAreSeen ==
    /\ \A r \in {SpocTurned, BykcTurned, EvaluationTurned} : Honest(r, {}) /\ Seen(r, TurnedAway)
    /\ Honest(YgdkTurned, {}) /\ Seen(YgdkTurned, {"denied"}) /\ Swallows(YgdkTurned, {"denied"})
BY DEF Honest, Seen, Swallows, SpocTurned, BykcTurned, EvaluationTurned, YgdkTurned, TurnedAway, Broken

LEMMA SpocIsRead ==
    \A r \in {SpocReading, SpocFieldReading} : Honest(r, Plain) /\ Seen(r, TurnedAway)
<1>1. \A r \in {SpocParsed, Demanded, SpocTurned} : Honest(r, Plain) /\ Seen(r, TurnedAway)
  BY ParsersAreHonest, ParsersSee, TurnedAreSeen, MoreHonest
<1> QED  BY <1>1, JoinedHonest, JoinedSeen DEF SpocReading, SpocFieldReading

LEMMA JudgeIsRead == Honest(JudgeReading, Plain \cup {"page", "refused"}) /\ Seen(JudgeReading, TurnedAway)
<1> DEFINE turned == [expired |-> TurnedAway, network |-> {"down", "lost"}, unreadable |-> {"page"}]
<1>1. Honest(turned, Plain \cup {"page", "refused"}) /\ Seen(turned, TurnedAway)
  BY DEF Honest, Seen, TurnedAway
<1> HIDE DEF turned
<1>2. JudgeReading = Joined({JudgeParsed, turned})
  BY DEF JudgeReading, turned
<1> QED  BY <1>1, <1>2, ParsersAreHonest, ParsersSee, JoinedHonest, JoinedSeen

LEMMA BykcIsRead ==
    \A r \in {BykcReading, BykcConfigReading} : Honest(r, Plain) /\ Seen(r, TurnedAway)
<1>1. \A r \in {BykcParsed, Demanded, BykcTurned} : Honest(r, Plain) /\ Seen(r, TurnedAway)
  BY ParsersAreHonest, ParsersSee, TurnedAreSeen, MoreHonest
<1> QED  BY <1>1, JoinedHonest, JoinedSeen DEF BykcReading, BykcConfigReading

LEMMA VenueIsRead == Honest(VenueReading, Plain) /\ Seen(VenueReading, {"away", "login"})
<1> DEFINE turned == [expired |-> {"away", "login"}, network |-> Broken \cup {"denied"}]
<1>1. Honest(turned, Plain) /\ Seen(turned, {"away", "login"})
  BY DEF Honest, Seen, Broken
<1>2. Seen(VenueParsed, {"away", "login"})
  BY ParsersSee, LessSeen DEF TurnedAway
<1> HIDE DEF turned
<1>3. VenueReading = Joined({VenueParsed, turned})
  BY DEF VenueReading, turned
<1> QED  BY <1>1, <1>2, <1>3, ParsersAreHonest, JoinedHonest, JoinedSeen

LEMMA SeatIsRead == Honest(SeatReading, Plain) /\ Seen(SeatReading, {"away", "denied"})
<1> DEFINE turned == [expired |-> {"away", "denied"}, network |-> Broken]
<1>1. Honest(turned, Plain) /\ Seen(turned, {"away", "denied"})
  BY DEF Honest, Seen, Broken
<1> HIDE DEF turned
<1>2. SeatReading = Joined({SeatParsed, turned})
  BY DEF SeatReading, turned
<1> QED  BY <1>1, <1>2, ParsersAreHonest, ParsersSee, JoinedHonest, JoinedSeen

\* A refusal that speaks of the login passes for an empty list in the end.
LEMMA YgdkIsRead ==
    \A r \in {YgdkReading, YgdkClassReading} :
        Honest(r, Plain) /\ Seen(r, {"denied"}) /\ Swallows(r, {"denied"})
<1> DEFINE class == [rows |-> {"rows"}, unreadable |-> {"none", "odd"}]
           Good(r) == Honest(r, Plain) /\ Seen(r, {"denied"}) /\ Swallows(r, {"denied"})
<1>1. Good(class)
  BY DEF Honest, Seen, Swallows, Plain
<1>2. Good(YgdkParsed)
  <2>1. Seen(YgdkParsed, {"denied"})
    BY ParsersSee, LessSeen DEF TurnedAway
  <2>2. Swallows(YgdkParsed, {"denied"})
    BY DEF Swallows, YgdkParsed
  <2> QED  BY <2>1, <2>2, ParsersAreHonest
<1>3. Good(YgdkTurned)
  BY TurnedAreSeen, MoreHonest
<1>4. YgdkReading = Joined({YgdkParsed, YgdkTurned}) /\ YgdkClassReading = Joined({class, YgdkTurned})
  BY DEF YgdkReading, YgdkClassReading
<1> HIDE DEF class
<1> QED  BY <1>1, <1>2, <1>3, <1>4, JoinedHonest, JoinedSeen, JoinedSwallows

\* So does any refusal of a sign-in.
LEMMA SigninIsRead ==
    /\ Honest(SigninReading, Plain) /\ Seen(SigninReading, {"denied"})
    /\ Swallows(SigninReading, {"denied", "refused"})
<1> DEFINE turned == [expired |-> {"denied", "refused"}, network |-> {"away", "down", "lost"}]
<1>1. Honest(turned, Plain) /\ Seen(turned, {"denied"}) /\ Swallows(turned, {"denied", "refused"})
  BY DEF Honest, Seen, Swallows
<1>2. Swallows(SigninParsed, {"denied", "refused"})
  BY ParsersAreHonest DEF Swallows
<1> HIDE DEF turned
<1>3. SigninReading = Joined({SigninParsed, turned})
  BY DEF SigninReading, turned
<1> QED  BY <1>1, <1>2, <1>3, ParsersAreHonest, ParsersSee, JoinedHonest, JoinedSeen, JoinedSwallows

LEMMA EvaluationIsRead ==
    \A r \in {TasksReading, ArrayReading, YearReading} : Honest(r, Plain)
<1>1. \A r \in {Lenient, Required, Demanded, EvaluationTurned} : Honest(r, Plain)
  BY ParsersAreHonest, TurnedAreSeen, MoreHonest
<1> QED  BY <1>1, JoinedHonest DEF TasksReading, ArrayReading, YearReading

LEMMA SrsIsRead == Honest(SrsReading, Plain) /\ Seen(SrsReading, TurnedAway) /\ Honest(BatchReading, Plain)
<1> DEFINE turned == [expired |-> TurnedAway, network |-> Broken]
<1>1. Honest(turned, Plain) /\ Seen(turned, TurnedAway)
  BY DEF Honest, Seen, TurnedAway, Broken
<1>2. Honest(BatchReading, Plain)
  BY DEF Honest, Plain, BatchReading
<1> HIDE DEF turned
<1>3. SrsReading = Joined({SrsParsed, turned})
  BY DEF SrsReading, turned
<1> QED  BY <1>1, <1>2, <1>3, ParsersAreHonest, ParsersSee, JoinedHonest, JoinedSeen

\* The portal, and what is asked once only.
LEMMA FeaturesAreRead ==
    /\ \A r \in {CourseReading, ExamReading, TermReading, GradeReading, UserReading} : Honest(r, Plain)
    /\ \A r \in {ClassroomReading, AnnouncementReading} : Honest(r, Plain \cup {"refused"})
    /\ \A r \in {CourseReading, TermReading} : Seen(r, TurnedAway)
BY DEF Honest, Seen, Plain, TurnedAway, NotReady, CourseReading, ExamReading, TermReading, GradeReading, UserReading,
       ClassroomReading, AnnouncementReading

-----------------------------------------------------------------------------
(* The kinds of requests.                                                  *)

LEMMA KindsAre ==
    /\ DOMAIN Kinds =
          {"byxt", "byxtExam", "byxtTerm", "app", "score", "user", "notices", "spoc", "spocMore", "spocTerm",
           "judge", "bykc", "bykcTerm", "cgyy", "cgyyMore", "libbook", "ygdk", "ygdkMore", "ygdkClass",
           "signin", "tasks", "revise", "array", "year", "srs", "batch"}
    /\ Kinds["byxt"] = CourseAsk /\ Kinds["byxtExam"] = ExamAsk /\ Kinds["byxtTerm"] = TermAsk
    /\ Kinds["app"] = ClassroomAsk /\ Kinds["score"] = GradeAsk
    /\ Kinds["user"] = Ask(ByxtEnter, UserReading, FALSE, FALSE)
    /\ Kinds["notices"] = Ask(ByxtEnter, AnnouncementReading, FALSE, FALSE)
    /\ Kinds["spoc"] = SpocAsk /\ Kinds["spocMore"] = Optional(SpocAsk)
    /\ Kinds["spocTerm"] = [SpocAsk EXCEPT !.reading = SpocFieldReading]
    /\ Kinds["judge"] = JudgeAsk
    /\ Kinds["bykc"] = BykcAsk /\ Kinds["bykcTerm"] = [BykcAsk EXCEPT !.reading = BykcConfigReading]
    /\ Kinds["cgyy"] = VenueAsk /\ Kinds["cgyyMore"] = Optional(VenueAsk)
    /\ Kinds["libbook"] = SeatAsk
    /\ Kinds["ygdk"] = YgdkAsk /\ Kinds["ygdkMore"] = Optional(YgdkAsk)
    /\ Kinds["ygdkClass"] = [YgdkAsk EXCEPT !.reading = YgdkClassReading]
    /\ Kinds["signin"] = SigninAsk
    /\ Kinds["tasks"] = TasksAsk /\ Kinds["revise"] = Optional(TasksAsk)
    /\ Kinds["array"] = [TasksAsk EXCEPT !.reading = ArrayReading]
    /\ Kinds["year"] = [TasksAsk EXCEPT !.reading = YearReading]
    /\ Kinds["srs"] = SrsAsk /\ Kinds["batch"] = Ask(SrsEnter(FALSE), BatchReading, FALSE, FALSE)
BY DEF Kinds

LEMMA MoreFits ==
    ASSUME NEW c, NEW k \in DOMAIN Kinds, k \notin EmptyAfterAll \cup NoEntry, NEW seen,
           Honest(Kinds[k].reading, Plain), Survivable(Kinds[k], seen), Recognised(c) \subseteq seen
    PROVE  Fits(c, k)
<1>1. Plain \subseteq Empties(c)
  BY DEF Plain, Empties
<1>2. Honest(Kinds[k].reading, Empties(c))
  BY <1>1, MoreHonest
<1>3. Survivable(Kinds[k], Recognised(c))
  BY LessSeen DEF Survivable
<1> QED  BY <1>2, <1>3 DEF Fits

LEMMA OnceFits ==
    ASSUME NEW c \in AskOnce, NEW k \in DOMAIN Kinds, k \notin EmptyAfterAll,
           Honest(Kinds[k].reading, Plain)
    PROVE  Fits(c, k)
<1>1. Plain \subseteq Empties(c)
  BY DEF Plain, Empties
<1> QED  BY <1>1, MoreHonest DEF Fits

LEMMA RecognisedAtMost == \A c : Recognised(c) \subseteq TurnedAway
BY DEF Recognised

LEMMA PortalKinds ==
    \A k \in {"byxt", "byxtTerm"} :
        /\ k \in DOMAIN Kinds /\ k \notin EmptyAfterAll \cup NoEntry
        /\ Honest(Kinds[k].reading, Plain) /\ Survivable(Kinds[k], TurnedAway)
BY KindsAre, FeaturesAreRead, EveryoneLetsIn DEF Survivable, CourseAsk, TermAsk, Ask, EmptyAfterAll, NoEntry

LEMMA SpocKinds ==
    \A k \in {"spoc", "spocMore", "spocTerm"} :
        /\ k \in DOMAIN Kinds /\ k \notin EmptyAfterAll \cup NoEntry
        /\ Honest(Kinds[k].reading, Plain) /\ Survivable(Kinds[k], TurnedAway)
BY KindsAre, SpocIsRead, EveryoneLetsIn DEF Survivable, SpocAsk, Optional, Ask, EmptyAfterAll, NoEntry

LEMMA BykcKinds ==
    \A k \in {"bykc", "bykcTerm"} :
        /\ k \in DOMAIN Kinds /\ k \notin EmptyAfterAll \cup NoEntry
        /\ Honest(Kinds[k].reading, Plain) /\ Survivable(Kinds[k], TurnedAway)
BY KindsAre, BykcIsRead, EveryoneLetsIn DEF Survivable, BykcAsk, Ask, EmptyAfterAll, NoEntry

LEMMA VenueKinds ==
    \A k \in {"cgyy", "cgyyMore"} :
        /\ k \in DOMAIN Kinds /\ k \notin EmptyAfterAll \cup NoEntry
        /\ Honest(Kinds[k].reading, Plain) /\ Survivable(Kinds[k], {"away", "login"})
BY KindsAre, VenueIsRead, EveryoneLetsIn DEF Survivable, VenueAsk, Optional, Ask, EmptyAfterAll, NoEntry

LEMMA OtherKinds ==
    /\ "libbook" \in DOMAIN Kinds /\ Honest(Kinds["libbook"].reading, Plain)
    /\ Survivable(Kinds["libbook"], {"away", "denied"}) /\ "libbook" \notin EmptyAfterAll \cup NoEntry
    /\ "srs" \in DOMAIN Kinds /\ Honest(Kinds["srs"].reading, Plain)
    /\ Survivable(Kinds["srs"], TurnedAway) /\ "srs" \notin EmptyAfterAll \cup NoEntry
    /\ "judge" \in DOMAIN Kinds /\ Honest(Kinds["judge"].reading, Plain \cup {"page", "refused"})
    /\ Survivable(Kinds["judge"], TurnedAway) /\ "judge" \notin EmptyAfterAll \cup NoEntry
    /\ "signin" \in DOMAIN Kinds /\ Honest(Kinds["signin"].reading, Plain)
    /\ Survivable(Kinds["signin"], {"denied"}) /\ "signin" \notin NoEntry
    /\ Swallows(Kinds["signin"].reading, {"denied", "refused"})
<1> USE DEF Survivable, Ask, EmptyAfterAll, NoEntry
<1>1. /\ "libbook" \in DOMAIN Kinds /\ Honest(Kinds["libbook"].reading, Plain)
      /\ Survivable(Kinds["libbook"], {"away", "denied"}) /\ "libbook" \notin EmptyAfterAll \cup NoEntry
  BY KindsAre, SeatIsRead, EveryoneLetsIn DEF SeatAsk
<1>2. /\ "srs" \in DOMAIN Kinds /\ Honest(Kinds["srs"].reading, Plain)
      /\ Survivable(Kinds["srs"], TurnedAway) /\ "srs" \notin EmptyAfterAll \cup NoEntry
  <2>1. LetsIn(SrsEnter(FALSE))
    BY EveryoneLetsIn
  <2> DEFINE enter == SrsEnter(FALSE)
  <2>2. "srs" \in DOMAIN Kinds /\ Kinds["srs"] = Ask(enter, SrsReading, TRUE, FALSE)
    BY KindsAre DEF SrsAsk
  <2> HIDE DEF enter
  <2>3. Kinds["srs"].enter = enter /\ Kinds["srs"].reading = SrsReading /\ Kinds["srs"].renews
    BY <2>2
  <2> QED  BY <2>1, <2>2, <2>3, SrsIsRead DEF enter
<1>3. /\ "judge" \in DOMAIN Kinds /\ Honest(Kinds["judge"].reading, Plain \cup {"page", "refused"})
      /\ Survivable(Kinds["judge"], TurnedAway) /\ "judge" \notin EmptyAfterAll \cup NoEntry
  BY KindsAre, JudgeIsRead, EveryoneLetsIn DEF JudgeAsk
<1>4. /\ "signin" \in DOMAIN Kinds /\ Honest(Kinds["signin"].reading, Plain)
      /\ Survivable(Kinds["signin"], {"denied"}) /\ "signin" \notin NoEntry
      /\ Swallows(Kinds["signin"].reading, {"denied", "refused"})
  BY KindsAre, SigninIsRead, EveryoneLetsIn DEF SigninAsk
<1> QED  BY <1>1, <1>2, <1>3, <1>4

LEMMA YgdkKindsFit ==
    \A k \in {"ygdk", "ygdkMore", "ygdkClass"} :
        /\ k \in DOMAIN Kinds /\ k \notin NoEntry
        /\ Honest(Kinds[k].reading, Plain) /\ Survivable(Kinds[k], {"denied"})
        /\ Swallows(Kinds[k].reading, {"denied"})
BY KindsAre, YgdkIsRead, EveryoneLetsIn DEF Survivable, YgdkAsk, Optional, Ask, NoEntry

LEMMA AskedOnceKinds ==
    /\ \A k \in {"byxtExam", "score", "user", "tasks", "revise", "array", "year", "batch"} :
          k \in DOMAIN Kinds /\ k \notin EmptyAfterAll /\ Honest(Kinds[k].reading, Plain)
    /\ \A k \in {"app", "notices"} :
          k \in DOMAIN Kinds /\ k \notin EmptyAfterAll /\ Honest(Kinds[k].reading, Plain \cup {"refused"})
BY KindsAre, FeaturesAreRead, EvaluationIsRead, SrsIsRead
   DEF ExamAsk, GradeAsk, TasksAsk, ClassroomAsk, Optional, Ask, EmptyAfterAll

-----------------------------------------------------------------------------
(* The scripts.  The provers tell names of commands apart without looking  *)
(* into the tables.                                                        *)

LEMMA TwoHave ==
    ASSUME NEW a, NEW b, NEW u, NEW v
    PROVE  DOMAIN Joined({Each(a, u), Each(b, v)}) = a \cup b
<1> DEFINE s == Each(a, u)
           t == Each(b, v)
<1>1. DOMAIN s = a /\ DOMAIN t = b
  BY DEF Each
<1> HIDE DEF s, t
<1>2. UNION {DOMAIN f : f \in {s, t}} = DOMAIN s \cup DOMAIN t
  OBVIOUS
<1>3. DOMAIN Joined({s, t}) = UNION {DOMAIN f : f \in {s, t}}
  BY JoinedHas
<1>4. DOMAIN Joined({s, t}) = a \cup b
  BY <1>1, <1>2, <1>3
<1> QED  BY <1>4 DEF s, t

LEMMA NamesOfCommands ==
    /\ DOMAIN JudgeScripts = {"judge assignments", "judge show"}
    /\ DOMAIN VenueScripts =
          {"cgyy sites", "cgyy day-info", "cgyy orders", "cgyy order", "cgyy lock-code"} \cup {"cgyy purpose-types"}
    /\ DOMAIN SeatScripts =
          {"libbook libraries", "libbook areas", "libbook area", "libbook seats", "libbook reservations"}
    /\ DOMAIN YgdkScripts = {"ygdk overview"} \cup {"ygdk records"}
    /\ DOMAIN SigninScripts = {"signin today", "signin schedule", "signin courses", "signin course"}
    /\ DOMAIN EvaluationScripts = {"evaluation list"} \cup {"evaluation form"}
<1>1. DOMAIN JudgeScripts = {"judge assignments", "judge show"}
  BY DEF JudgeScripts, Each
<1>2. DOMAIN VenueScripts =
          {"cgyy sites", "cgyy day-info", "cgyy orders", "cgyy order", "cgyy lock-code"} \cup {"cgyy purpose-types"}
  BY TwoHave DEF VenueScripts
<1>3. DOMAIN SeatScripts =
          {"libbook libraries", "libbook areas", "libbook area", "libbook seats", "libbook reservations"}
  BY DEF SeatScripts, Each
<1>4. DOMAIN YgdkScripts = {"ygdk overview"} \cup {"ygdk records"}
  BY TwoHave DEF YgdkScripts
<1>5. DOMAIN SigninScripts = {"signin today", "signin schedule", "signin courses", "signin course"}
  BY DEF SigninScripts, Each
<1>6. DOMAIN EvaluationScripts = {"evaluation list"} \cup {"evaluation form"}
  BY TwoHave DEF EvaluationScripts
<1> QED  BY <1>1, <1>2, <1>3, <1>4, <1>5, <1>6

LEMMA Apart ==
    /\ \A c \in {"announcement", "classroom"} :
          c \notin DOMAIN JudgeScripts /\ c \notin DOMAIN YgdkScripts /\ c \notin DOMAIN SigninScripts
    /\ \A c \in DOMAIN JudgeScripts : c \notin DOMAIN YgdkScripts /\ c \notin DOMAIN SigninScripts
    /\ \A c \in DOMAIN YgdkScripts : c \notin DOMAIN SigninScripts
    /\ \A c \in DOMAIN VenueScripts :
          c \notin DOMAIN SeatScripts /\ c \notin DOMAIN YgdkScripts /\ c \notin DOMAIN SigninScripts
    /\ \A c \in DOMAIN SeatScripts : c \notin DOMAIN YgdkScripts /\ c \notin DOMAIN SigninScripts
BY NamesOfCommands

LEMMA EmptiesHave ==
    /\ \A c : Plain \subseteq Empties(c)
    /\ \A c \in {"announcement", "classroom"} : "refused" \in Empties(c)
    /\ \A c \in DOMAIN JudgeScripts : {"page", "refused"} \subseteq Empties(c)
    /\ \A c \in DOMAIN YgdkScripts : "denied" \in Empties(c)
    /\ \A c \in DOMAIN SigninScripts : {"denied", "refused"} \subseteq Empties(c)
<1>1. \A c : Plain \subseteq Empties(c)
  BY DEF Plain, Empties
<1> DEFINE more(c) == CASE c \in {"announcement", "classroom"} -> {"refused"}
                        [] c \in DOMAIN JudgeScripts -> {"page", "refused"}
                        [] c \in DOMAIN YgdkScripts -> {"denied"}
                        [] c \in DOMAIN SigninScripts -> {"denied", "refused"}
                        [] OTHER -> {}
<1>2. \A c : Empties(c) = {"rows", "none", "odd"} \cup more(c)
  BY DEF Empties
<1>3. \A c \in {"announcement", "classroom"} : more(c) = {"refused"}
  BY Apart
<1>4. \A c \in DOMAIN JudgeScripts : more(c) = {"page", "refused"}
  BY Apart
<1>5. \A c \in DOMAIN YgdkScripts : more(c) = {"denied"}
  BY Apart
<1>6. \A c \in DOMAIN SigninScripts : more(c) = {"denied", "refused"}
  BY Apart
<1> HIDE DEF more
<1> QED  BY <1>1, <1>2, <1>3, <1>4, <1>5, <1>6

\* A service of another kind than these knows every way of turning it away.
LEMMA RecognisedBy ==
    /\ \A c \in DOMAIN VenueScripts : Recognised(c) = {"away", "login"}
    /\ \A c \in DOMAIN SeatScripts : Recognised(c) = {"away", "denied"}
    /\ \A c \in DOMAIN YgdkScripts \cup DOMAIN SigninScripts : Recognised(c) = {"denied"}
<1> DEFINE unseen(c) == CASE c \in DOMAIN VenueScripts -> {"denied"}
                          [] c \in DOMAIN SeatScripts -> {"login"}
                          [] c \in DOMAIN YgdkScripts \cup DOMAIN SigninScripts -> {"away", "login"}
                          [] OTHER -> {}
<1>1. \A c : Recognised(c) = TurnedAway \ unseen(c)
  BY DEF Recognised
<1>2. \A c \in DOMAIN VenueScripts : unseen(c) = {"denied"}
  BY Apart
<1>3. \A c \in DOMAIN SeatScripts : unseen(c) = {"login"}
  BY Apart
<1>4. \A c \in DOMAIN YgdkScripts \cup DOMAIN SigninScripts : unseen(c) = {"away", "login"}
  BY Apart
<1> HIDE DEF unseen
<1> QED  BY <1>1, <1>2, <1>3, <1>4 DEF TurnedAway

LEMMA EachFits ==
    ASSUME NEW names, NEW script, \A c \in names : AllFit(c, script)
    PROVE  ScriptsFit(Each(names, script))
BY DEF ScriptsFit, Each

LEMMA JoinedFit ==
    ASSUME NEW tables, \A t \in tables : ScriptsFit(t)
    PROVE  ScriptsFit(Joined(tables))
BY JoinedFrom DEF ScriptsFit

LEMMA OneFits ==
    ASSUME NEW names, NEW k, \A c \in names : Fits(c, k) /\ c \notin FromSecond
    PROVE  ScriptsFit(Each(names, <<k>>))
<1>1. ASSUME NEW c \in names PROVE AllFit(c, <<k>>)
  <2>1. Fits(c, k) /\ k \in DOMAIN Kinds /\ c \notin FromSecond
    BY DEF Fits
  <2> QED  BY <2>1 DEF AllFit
<1> QED  BY <1>1, EachFits

LEMMA TwoFit ==
    ASSUME NEW names, NEW j, NEW k, \A c \in names : Fits(c, j) /\ Fits(c, k)
    PROVE  ScriptsFit(Each(names, <<j, k>>))
<1>1. ASSUME NEW c \in names PROVE AllFit(c, <<j, k>>)
  <2>1. Fits(c, j) /\ Fits(c, k) /\ j \in DOMAIN Kinds /\ k \in DOMAIN Kinds
    BY DEF Fits
  <2> QED  BY <2>1 DEF AllFit
<1> QED  BY <1>1, EachFits

LEMMA FeatureScriptsFit == ScriptsFit(FeatureScripts)
<1>1. ScriptsFit(Each({"course", "course week"}, <<"byxt">>))
  BY PortalKinds, MoreFits, RecognisedAtMost, OneFits DEF FromSecond
<1>2. ScriptsFit(Each({"exam"}, <<"byxtExam">>))
  BY AskedOnceKinds, OnceFits, OneFits DEF AskOnce, FromSecond
<1>3. ScriptsFit(Each({"term", "week"}, <<"byxtTerm">>))
  BY PortalKinds, MoreFits, RecognisedAtMost, OneFits DEF FromSecond
<1>4. ScriptsFit(Each({"classroom"}, <<"app">>))
  <2>1. Honest(Kinds["app"].reading, Empties("classroom"))
    BY AskedOnceKinds, EmptiesHave, MoreHonest
  <2>2. Fits("classroom", "app")
    BY <2>1, AskedOnceKinds DEF Fits, AskOnce
  <2> QED  BY <2>2, OneFits DEF FromSecond
<1>5. ScriptsFit(Each({"grade"}, <<"score">>))
  BY AskedOnceKinds, OnceFits, OneFits DEF AskOnce, FromSecond
<1>6. ScriptsFit(Each({"user"}, <<"user">>))
  BY AskedOnceKinds, OnceFits, OneFits DEF AskOnce, FromSecond
<1>7. ScriptsFit(Each({"announcement"}, <<"notices">>))
  <2>1. Honest(Kinds["notices"].reading, Empties("announcement"))
    BY AskedOnceKinds, EmptiesHave, MoreHonest
  <2>2. Fits("announcement", "notices")
    BY <2>1, AskedOnceKinds DEF Fits, AskOnce
  <2> QED  BY <2>2, OneFits DEF FromSecond
<1> QED  BY <1>1, <1>2, <1>3, <1>4, <1>5, <1>6, <1>7, JoinedFit DEF FeatureScripts

LEMMA SpocScriptsFit == ScriptsFit(SpocScripts)
<1>1. \A c, k : k \in {"spoc", "spocMore", "spocTerm"} => Fits(c, k)
  BY SpocKinds, MoreFits, RecognisedAtMost
<1>2. ScriptsFit(Each({"spoc week"}, <<"spocTerm">>))
  BY <1>1, OneFits DEF FromSecond
<1>3. ScriptsFit(Each({"spoc schedule", "spoc courses"}, <<"spoc">>))
  BY <1>1, OneFits DEF FromSecond
<1>4. \A c : AllFit(c, <<"spocTerm", "spocMore", "spoc">>)
  BY <1>1, SpocKinds DEF AllFit
<1>5. ScriptsFit(Each({"spoc assignments"}, <<"spocTerm", "spocMore", "spoc">>))
  BY <1>4, EachFits
<1>6. ScriptsFit(Each({"spoc show"}, <<"spoc", "spocMore">>))
  BY <1>1, TwoFit
<1> QED  BY <1>2, <1>3, <1>5, <1>6, JoinedFit DEF SpocScripts

LEMMA JudgeScriptsFit == ScriptsFit(JudgeScripts)
<1>1. ASSUME NEW c \in DOMAIN JudgeScripts PROVE Fits(c, "judge")
  <2>1. Plain \cup {"page", "refused"} \subseteq Empties(c)
    BY EmptiesHave
  <2>2. Honest(Kinds["judge"].reading, Empties(c))
    BY <2>1, OtherKinds, MoreHonest
  <2>3. Survivable(Kinds["judge"], Recognised(c))
    BY OtherKinds, RecognisedAtMost, LessSeen DEF Survivable
  <2> QED  BY <2>2, <2>3, OtherKinds DEF Fits
<1>2. ASSUME NEW c \in DOMAIN JudgeScripts PROVE AllFit(c, <<"judge", "judge", "judge", "judge">>)
  BY <1>1, OtherKinds DEF AllFit
<1> QED  BY <1>2, EachFits DEF JudgeScripts, Each

LEMMA BykcScriptsFit == ScriptsFit(BykcScripts)
<1>1. \A c, k : k \in {"bykc", "bykcTerm"} => Fits(c, k)
  BY BykcKinds, MoreFits, RecognisedAtMost
<1>2. ScriptsFit(Each({"bykc profile", "bykc courses", "bykc course", "bykc stats"}, <<"bykc">>))
  BY <1>1, OneFits DEF FromSecond
<1>3. ScriptsFit(Each({"bykc chosen"}, <<"bykcTerm", "bykc">>))
  BY <1>1, TwoFit
<1> QED  BY <1>2, <1>3, JoinedFit DEF BykcScripts

LEMMA VenueScriptsFit == ScriptsFit(VenueScripts)
<1> DEFINE one == {"cgyy sites", "cgyy day-info", "cgyy orders", "cgyy order", "cgyy lock-code"}
           two == {"cgyy purpose-types"}
<1> HIDE DEF one, two
<1>1. ASSUME NEW c \in DOMAIN VenueScripts, NEW k \in {"cgyy", "cgyyMore"} PROVE Fits(c, k)
  BY VenueKinds, MoreFits, RecognisedBy
<1>2. DOMAIN VenueScripts = one \cup two
  BY NamesOfCommands DEF one, two
<1>3. \A c \in one \cup two : c \notin FromSecond
  BY DEF one, two, FromSecond
<1>4. ScriptsFit(Each(one, <<"cgyy">>)) /\ ScriptsFit(Each(two, <<"cgyyMore">>))
  BY <1>1, <1>2, <1>3, OneFits
<1> QED  BY <1>4, JoinedFit DEF VenueScripts, one, two

LEMMA SeatScriptsFit == ScriptsFit(SeatScripts)
<1>1. ASSUME NEW c \in DOMAIN SeatScripts PROVE Fits(c, "libbook")
  BY OtherKinds, MoreFits, RecognisedBy
<1> QED  BY <1>1, NamesOfCommands, OneFits DEF SeatScripts, FromSecond

LEMMA YgdkScriptsFit == ScriptsFit(YgdkScripts)
<1> DEFINE one == {"ygdk overview"}
           two == {"ygdk records"}
           many == <<"ygdkClass", "ygdkMore", "ygdkMore", "ygdkMore">>
<1> HIDE DEF one, two, many
<1>1. ASSUME NEW c \in DOMAIN YgdkScripts, NEW k \in {"ygdk", "ygdkMore", "ygdkClass"} PROVE Fits(c, k)
  <2>1. Honest(Kinds[k].reading, Empties(c)) /\ "denied" \in Empties(c)
    BY YgdkKindsFit, EmptiesHave, MoreHonest
  <2>2. Swallows(Kinds[k].reading, Empties(c))
    BY <2>1, YgdkKindsFit DEF Swallows
  <2>3. Recognised(c) = {"denied"}
    BY RecognisedBy
  <2> QED  BY <2>1, <2>2, <2>3, YgdkKindsFit DEF Fits
<1>2. DOMAIN YgdkScripts = one \cup two
  BY NamesOfCommands DEF one, two
<1>3. ScriptsFit(Each(two, <<"ygdkClass", "ygdk">>))
  BY <1>1, <1>2, TwoFit
<1>4. ASSUME NEW c \in one PROVE AllFit(c, many)
  BY <1>1, <1>2, YgdkKindsFit DEF AllFit, many
<1>5. ScriptsFit(Each(one, many))
  BY <1>4, EachFits
<1> QED  BY <1>3, <1>5, JoinedFit DEF YgdkScripts, one, two, many

LEMMA SigninScriptsFit == ScriptsFit(SigninScripts)
<1>1. ASSUME NEW c \in DOMAIN SigninScripts PROVE Fits(c, "signin")
  <2>1. Plain \subseteq Empties(c) /\ {"denied", "refused"} \subseteq Empties(c)
    BY EmptiesHave
  <2>2. Honest(Kinds["signin"].reading, Empties(c))
    BY <2>1, OtherKinds, MoreHonest
  <2>3. Swallows(Kinds["signin"].reading, Empties(c))
    BY <2>1, OtherKinds DEF Swallows
  <2>4. Recognised(c) = {"denied"}
    BY RecognisedBy
  <2> QED  BY <2>1, <2>2, <2>3, <2>4, OtherKinds DEF Fits
<1> QED  BY <1>1, NamesOfCommands, OneFits DEF SigninScripts, FromSecond

LEMMA EvaluationScriptsFit == ScriptsFit(EvaluationScripts)
<1> DEFINE one == {"evaluation list"}
           two == {"evaluation form"}
           list == <<"year", "tasks", "array", "revise", "array", "array">>
           form == <<"year", "tasks", "array", "revise", "array", "array", "revise", "array">>
<1> HIDE DEF one, two, list, form
<1>1. ASSUME NEW c \in DOMAIN EvaluationScripts, NEW k \in {"year", "tasks", "array", "revise"} PROVE Fits(c, k)
  BY AskedOnceKinds, OnceFits DEF AskOnce
<1>2. DOMAIN EvaluationScripts = one \cup two
  BY NamesOfCommands DEF one, two
<1>3. ASSUME NEW c \in one PROVE AllFit(c, list)
  BY <1>1, <1>2, AskedOnceKinds DEF AllFit, list
<1>4. ASSUME NEW c \in two PROVE AllFit(c, form)
  BY <1>1, <1>2, AskedOnceKinds DEF AllFit, form
<1>5. ScriptsFit(Each(one, list)) /\ ScriptsFit(Each(two, form))
  BY <1>3, <1>4, EachFits
<1> QED  BY <1>5, JoinedFit DEF EvaluationScripts, one, two, list, form

LEMMA SrsScriptsFit == ScriptsFit(SrsScripts)
<1>1. \A c : Fits(c, "srs")
  BY OtherKinds, MoreFits, RecognisedAtMost
<1>2. ScriptsFit(Each({"srs config", "srs courses", "srs preselected", "srs selected"}, <<"srs">>))
  BY <1>1, OneFits DEF FromSecond
<1>3. ScriptsFit(Each({"srs batch"}, <<"batch">>))
  BY AskedOnceKinds, OnceFits, OneFits DEF AskOnce, FromSecond
<1> QED  BY <1>2, <1>3, JoinedFit DEF SrsScripts

\* Every request of every query command is read honestly, and, unless the command
\* asks once only, knows an expiry for what it is and is asked again.
LEMMA EveryScriptFits == ScriptsFit(Scripts)
BY JoinedFit, FeatureScriptsFit, SpocScriptsFit, JudgeScriptsFit, BykcScriptsFit, VenueScriptsFit,
   SeatScriptsFit, YgdkScriptsFit, SigninScriptsFit, EvaluationScriptsFit, SrsScriptsFit DEF Scripts

-----------------------------------------------------------------------------
(* The invariant.                                                          *)

\* A request of the command is under way.
Where ==
    /\ part \in 1..Len(Parts(cmd))
    /\ Name \in DOMAIN Scripts
    /\ at \in 1..Len(Script)

\* The finished parts are accounted for.
Accounted ==
    IF pc = "idle" THEN got = <<>> \/ Len(got) = Len(Parts(cmd)) ELSE Len(got) = part - 1

\* What went wrong so far.
Told ==
    /\ session = "bad" => ended >= 1
    /\ ~trouble => cas
    /\ retried => pc \in {"ask", "renew"}

\* While nothing but one session failed, an expiry is met at most once, and with
\* a session that is good after it.
Steady ==
    ended <= 1 /\ ~trouble /\ Name \notin AskOnce =>
        /\ failed \notin {"expired", "auth", "network"}
        /\ pc = "ask" => known
        /\ known => session # "none"
        /\ retried => ended = 1 /\ (pc = "ask" => session = "good")

Unfailed == ended <= 1 /\ ~trouble /\ cmd \notin AskOnce => \A i \in DOMAIN got : ~got[i]

\* While nothing failed, a list is asked for in the course that was selected.
Filing ==
    ended = 0 /\ ~trouble =>
        /\ ~misfiled
        /\ Name \in DOMAIN JudgeScripts /\ at \in JudgeLists /\ pc \notin {"idle", "done"} =>
              known /\ course = "ours"

CampusInv == TypeOK /\ Where /\ Accounted /\ Told /\ ~hidden /\ Steady /\ Unfailed /\ Filing

-----------------------------------------------------------------------------
(* Where a command is.                                                     *)

LEMMA FourIn ==
    ASSUME NEW a, NEW b, NEW c, NEW d, NEW S, a \in S, b \in S, c \in S, d \in S
    PROVE  Len(<<a, b, c, d>>) = 4 /\ \A p \in 1..4 : <<a, b, c, d>>[p] \in S
OBVIOUS

LEMMA TwoIn ==
    ASSUME NEW a, NEW S, a \in S
    PROVE  Len(<<a, a>>) = 2 /\ \A p \in 1..2 : <<a, a>>[p] \in S
OBVIOUS

\* The command that keeps its service for all of its parts may ask more than once.
LEMMA OneServiceAsksAgain ==
    ASSUME NEW c \in OneService
    PROVE  c \notin AskOnce
<1>1. c = "judge batch"
  BY DEF OneService
<1>2. c \notin {"exam", "classroom", "grade", "user", "announcement", "srs batch", "todo"}
  BY <1>1
<1>3. c \notin DOMAIN EvaluationScripts
  BY <1>1, NamesOfCommands
<1> QED  BY <1>2, <1>3 DEF AskOnce

\* A command is made of parts, each with a script.
LEMMA PartsAre ==
    ASSUME NEW c \in Commands
    PROVE  /\ Len(Parts(c)) \in 1..4
           /\ \A p \in 1..Len(Parts(c)) :
                 /\ Parts(c)[p] \in DOMAIN Scripts
                 /\ c \notin AskOnce => Parts(c)[p] \notin AskOnce
           /\ c \in FromSecond => \A p \in 1..Len(Parts(c)) : Parts(c)[p] = c
<1> DEFINE todo == <<"spoc assignments", "judge assignments", "signin today", "evaluation list">>
           batch == <<"judge show", "judge show">>
<1>1. /\ "spoc assignments" \in DOMAIN SpocScripts /\ "judge assignments" \in DOMAIN JudgeScripts
      /\ "signin today" \in DOMAIN SigninScripts /\ "evaluation list" \in DOMAIN EvaluationScripts
      /\ "judge show" \in DOMAIN JudgeScripts
  <2>1. "spoc assignments" \in DOMAIN Each({"spoc assignments"}, <<"spocTerm", "spocMore", "spoc">>)
    BY DEF Each
  <2>2. "spoc assignments" \in DOMAIN SpocScripts
    BY <2>1, JoinedHas DEF SpocScripts
  <2> QED  BY <2>2, NamesOfCommands
<1>2. \A t \in {SpocScripts, JudgeScripts, SigninScripts, EvaluationScripts} : DOMAIN t \subseteq DOMAIN Scripts
  BY JoinedHas DEF Scripts
<1>3. /\ "spoc assignments" \in DOMAIN Scripts /\ "judge assignments" \in DOMAIN Scripts
      /\ "signin today" \in DOMAIN Scripts /\ "evaluation list" \in DOMAIN Scripts
      /\ "judge show" \in DOMAIN Scripts
  BY <1>1, <1>2
<1>4. CASE c = "todo"
  <2>1. Parts(c) = todo
    BY <1>4 DEF Parts
  <2>2. c \in AskOnce /\ c \notin FromSecond
    BY <1>4 DEF AskOnce, FromSecond
  <2>3. Len(todo) = 4 /\ \A p \in 1..4 : todo[p] \in DOMAIN Scripts
    BY <1>3, FourIn
  <2> HIDE DEF todo
  <2> QED  BY <2>1, <2>2, <2>3
<1>5. CASE c = "judge batch"
  <2>1. Parts(c) = batch
    BY <1>5 DEF Parts
  <2>2. "judge show" \notin AskOnce
    BY NamesOfCommands DEF AskOnce
  <2>3. c \notin FromSecond
    BY <1>5 DEF FromSecond
  <2>4. Len(batch) = 2 /\ \A p \in 1..2 : batch[p] \in DOMAIN Scripts /\ batch[p] \notin AskOnce
    <3>1. "judge show" \in {n \in DOMAIN Scripts : n \notin AskOnce}
      BY <1>3, <2>2
    <3>2. Len(batch) = 2 /\ \A p \in 1..2 : batch[p] \in {n \in DOMAIN Scripts : n \notin AskOnce}
      BY <3>1, TwoIn
    <3> HIDE DEF batch
    <3> QED  BY <3>2
  <2> HIDE DEF batch
  <2> QED  BY <2>1, <2>3, <2>4
<1>6. CASE c \notin {"todo", "judge batch"}
  <2>1. Parts(c) = <<c>> /\ c \in DOMAIN Scripts
    BY <1>6 DEF Parts, Commands
  <2> QED  BY <2>1
<1> QED  BY <1>4, <1>5, <1>6

LEMMA FitsHere ==
    ASSUME Where
    PROVE  /\ Len(Script) \in 1..8 /\ Kind \in DOMAIN Kinds /\ This = Kinds[Kind]
           /\ Fits(Name, Kind)
BY EveryScriptFits DEF ScriptsFit, AllFit, Where, Script, Kind, This

\* Where a command may go next.
LEMMA WaysOfJudge ==
    ASSUME NEW c, NEW i \in Nat, NEW got0, NEW next \in JudgeWays(c, i, got0)
    PROVE  next \in Nat \ {0} /\ (next \in JudgeLists => i \in JudgeSelects)
<1>1. \/ JudgeWays(c, i, got0) = {5} \/ JudgeWays(c, i, got0) = {2, 5}
      \/ JudgeWays(c, i, got0) = {2, 4, 5} \/ JudgeWays(c, i, got0) = {i + 1}
  BY DEF JudgeWays
<1> QED  BY <1>1 DEF JudgeLists, JudgeSelects

LEMMA WaysAhead ==
    ASSUME Where, NEW outcome, NEW R, NEW next \in Ways(Name, at, outcome, R)
    PROVE  /\ next \in Nat \ {0}
           /\ Name \in DOMAIN JudgeScripts /\ next \in JudgeLists => at \in JudgeSelects
<1>1. at \in Nat /\ Len(Script) \in 1..8
  BY FitsHere DEF Where
<1>2. Name \in DOMAIN JudgeScripts => Ways(Name, at, outcome, R) = JudgeWays(Name, at, outcome)
  BY NamesOfCommands DEF Ways
<1>3. \/ next \in SpocWays(at) \/ next \in JudgeWays(Name, at, outcome)
      \/ next \in EvaluationWays(Name, at, outcome, R) \/ next = at + 1
  BY DEF Ways
<1>4. next \in SpocWays(at) => next \in Nat \ {0}
  BY <1>1 DEF SpocWays
<1>5. next \in EvaluationWays(Name, at, outcome, R) => next \in Nat \ {0}
  <2> DEFINE end == Len(Scripts[Name]) + 1
             listed == IF Name = "evaluation form" /\ 5 \in R THEN {7, end} ELSE {end}
  <2>1. listed \subseteq {7, end}
    OBVIOUS
  <2> HIDE DEF listed
  <2>2. EvaluationWays(Name, at, outcome, R) \subseteq {3, 4, end, at + 1} \cup listed
    BY DEF EvaluationWays, listed
  <2>3. end \in Nat \ {0}
    BY <1>1 DEF Script
  <2> HIDE DEF end
  <2>4. 3 \in Nat \ {0} /\ 4 \in Nat \ {0} /\ 7 \in Nat \ {0} /\ at + 1 \in Nat \ {0}
    BY <1>1
  <2> QED  BY <2>1, <2>2, <2>3, <2>4
<1> QED  BY <1>1, <1>2, <1>3, <1>4, <1>5, WaysOfJudge

-----------------------------------------------------------------------------
(* What the actions have in common.                                        *)

\* A part starts at a request of its own.
LEMMA PartStarts ==
    ASSUME NEW c \in Commands, NEW p \in 1..Len(Parts(c)), NEW s \in {"none", "good", "bad"},
           NEW kept \in BOOLEAN, StartPart(c, p, s, kept), cmd' = c
    PROVE  /\ Where' /\ part' = p /\ at' \in 1..8
           /\ c \notin AskOnce => Name' \notin AskOnce
           /\ Name' \notin AskOnce => (known' => session' # "none" \/ kept)
           /\ Name' \in DOMAIN JudgeScripts => at' \notin JudgeLists
<1> DEFINE n == Parts(c)[p]
<1>1. n \in DOMAIN Scripts /\ Name' = n /\ part' = p
  BY PartsAre DEF StartPart, Name
<1>2. AllFit(n, Scripts[n])
  BY <1>1, EveryScriptFits DEF ScriptsFit
<1>3. c \notin AskOnce => n \notin AskOnce
  BY PartsAre
<1>4. at' = 1 \/ (at' = 2 /\ c \in FromSecond)
  BY DEF StartPart, Starts, FromSecond
<1>5. c \in FromSecond => n = c
  BY PartsAre
<1> HIDE DEF n
<1>6. at' \in 1..Len(Scripts[n]) /\ at' \in 1..8
  <2> DEFINE length == Len(Scripts[n])
  <2>1. length \in 1..8
    BY <1>2 DEF AllFit
  <2>2. c \in FromSecond => length >= 2
    BY <1>2, <1>5 DEF AllFit
  <2> HIDE DEF length
  <2>3. at' \in 1..length /\ at' \in 1..8
    BY <1>4, <2>1, <2>2
  <2> QED  BY <2>3 DEF length
<1>7. Where'
  BY <1>1, <1>6 DEF Where, Script, Name
<1>8. n \notin AskOnce => (known' => session' # "none" \/ kept)
  <2>1. Fits(n, Scripts[n][1])
    BY <1>2 DEF AllFit
  <2>2. known' = (kept \/ Scripts[n][1] \in NoEntry \/ (Scripts[n][1] = "srs" /\ s # "none")) /\ session' = s
    BY DEF StartPart, n
  <2> QED  BY <2>1, <2>2 DEF Fits
<1>9. at' \notin JudgeLists
  BY <1>4 DEF JudgeLists, JudgeSelects
<1> QED  BY <1>1, <1>3, <1>6, <1>7, <1>8, <1>9

\* A request comes to an end.
LEMMA CloseIs ==
    ASSUME CampusInv, UNCHANGED <<cmd, part>>,
           NEW outcome \in Errors \cup {"rows", "empty"}, NEW answer, Close(outcome, answer),
           outcome \notin Errors => This.optional \/ answer \in Empties(Name)
    PROVE  /\ Where' /\ at' \in 1..8 /\ rounds' \in 0..MaxRounds
           /\ pc' \in {"enter", "done"} /\ retried' = FALSE /\ rows' \subseteq 1..8
           /\ failed' \in {"none"} \cup Errors /\ (failed' = failed \/ failed' = outcome)
           /\ hidden' = FALSE
           /\ Name \in DOMAIN JudgeScripts /\ at' \in JudgeLists /\ pc' = "enter" => at \in JudgeSelects
<1> DEFINE length == Len(Script)
<1>0. Where
  BY DEF CampusInv
<1>a. length \in 1..8
  BY <1>0, FitsHere
<1>1. /\ length \in 1..8 /\ at \in 1..length /\ at \in 1..8
      /\ rounds \in 0..MaxRounds /\ MaxRounds \in Nat
  BY <1>0, <1>a, AskedAssumption DEF CampusInv, Where, TypeOK
<1>2. rows \subseteq 1..8 /\ failed \in {"none"} \cup Errors /\ hidden = FALSE
  BY DEF CampusInv, TypeOK
<1>3. Name' = Name /\ Script' = Script
  BY DEF Name, Script
<1>4. at' \in 1..Len(Script) => Where' /\ at' \in 1..8
  <2>1. part' \in 1..Len(Parts(cmd')) /\ Name' \in DOMAIN Scripts
    BY <1>3 DEF CampusInv, Where
  <2>2. Len(Script') = length
    BY <1>3
  <2>3. ASSUME at' \in 1..length PROVE Where'
    BY <1>3, <2>1, <2>2, <2>3 DEF Where
  <2> HIDE DEF length
  <2>4. at' \in 1..length => at' \in 1..8
    BY <1>1
  <2> QED  BY <2>3, <2>4 DEF length
<1>5. ASSUME NEW o, Proceed(o, answer), This.optional \/ answer \in Empties(Name)
      PROVE  /\ at' \in 1..Len(Script) /\ rounds' \in 0..MaxRounds
             /\ pc' \in {"enter", "done"} /\ retried' = FALSE /\ rows' \subseteq 1..8
             /\ failed' = failed /\ hidden' = FALSE
             /\ Name \in DOMAIN JudgeScripts /\ at' \in JudgeLists /\ pc' = "enter" => at \in JudgeSelects
  <2>1. PICK next \in Ways(Name, at, o, rows') :
            /\ next <= at => rounds < MaxRounds
            /\ rounds' = IF next <= at THEN rounds + 1 ELSE rounds
            /\ at' = IF next > Len(Script) THEN at ELSE next
            /\ pc' = IF next > Len(Script) THEN "done" ELSE "enter"
    BY <1>5 DEF Proceed
  <2>2. next \in Nat \ {0} /\ (Name \in DOMAIN JudgeScripts /\ next \in JudgeLists => at \in JudgeSelects)
    BY <1>0, <2>1, WaysAhead
  <2>3. at' \in 1..Len(Script) /\ rounds' \in 0..MaxRounds
    BY <1>1, <2>1, <2>2
  <2>4. pc' \in {"enter", "done"}
    BY <2>1
  <2>5. Name \in DOMAIN JudgeScripts /\ at' \in JudgeLists /\ pc' = "enter" => at \in JudgeSelects
    BY <2>1, <2>2
  <2>6. retried' = FALSE /\ failed' = failed
    BY <1>5 DEF Proceed
  <2>7. hidden' = FALSE
    BY <1>2, <1>5 DEF Proceed
  <2>8. rows' \subseteq 1..8
    <3>1. rows' = rows \cup {at} \/ rows' = rows
      BY <1>5 DEF Proceed
    <3>2. at \in 1..8
      BY <1>1
    <3> QED  BY <1>2, <3>1, <3>2
  <2> QED  BY <2>3, <2>4, <2>5, <2>6, <2>7, <2>8
<1>6. CASE outcome \notin Errors
  <2>1. Proceed(outcome, answer)
    BY <1>6 DEF Close
  <2> QED  BY <1>1, <1>2, <1>4, <1>5, <1>6, <2>1
<1>7. CASE outcome \in Errors /\ This.optional
  <2>1. Proceed("empty", answer)
    BY <1>7 DEF Close
  <2> QED  BY <1>1, <1>2, <1>4, <1>5, <1>7, <2>1
<1>8. CASE outcome \in Errors /\ ~This.optional
  <2>1. /\ pc' = "done" /\ failed' = outcome /\ retried' = FALSE
        /\ UNCHANGED <<at, rounds, rows, hidden>>
    BY <1>8 DEF Close
  <2> QED  BY <1>1, <1>2, <1>4, <1>8, <2>1
<1> QED  BY <1>6, <1>7, <1>8

-----------------------------------------------------------------------------
(* The actions.                                                            *)

LEMMA SamePlace ==
    ASSUME UNCHANGED <<cmd, part>>
    PROVE  /\ Name' = Name /\ Script' = Script
           /\ UNCHANGED at => Kind' = Kind /\ This' = This /\ (Where => Where')
<1>1. Name' = Name /\ Script' = Script
  BY DEF Name, Script
<1>2. UNCHANGED at => Kind' = Kind /\ This' = This
  BY <1>1 DEF Kind, This
<1>3. UNCHANGED at /\ Where => Where'
  BY <1>1 DEF Where
<1> QED  BY <1>1, <1>2, <1>3

LEMMA CampusInit == Init => CampusInv
<1> SUFFICES ASSUME Init PROVE CampusInv
  OBVIOUS
<1>1. cmd \in Commands
  BY AskedAssumption DEF Init
<1>2. Where
  <2>1. part \in 1..Len(Parts(cmd)) /\ Name \in DOMAIN Scripts
    BY <1>1, PartsAre DEF Init, Name
  <2>2. Len(Script) \in 1..8
    BY <2>1, EveryScriptFits DEF ScriptsFit, AllFit, Script
  <2>3. at \in 1..Len(Script)
    <3>1. at = 1
      BY DEF Init
    <3> QED  BY <2>2, <3>1
  <2> QED  BY <2>1, <2>3 DEF Where
<1>3. TypeOK
  <2>1. got \in Seq(BOOLEAN)
    <3>1. got = <<>>
      BY DEF Init
    <3> QED  BY <3>1
  <2>2. rounds \in 0..MaxRounds
    BY AskedAssumption DEF Init
  <2>3. /\ cmd \in Asked /\ part \in 1..4 /\ at \in 1..8 /\ pc = "idle"
        /\ retried = FALSE /\ cas = TRUE /\ known = FALSE /\ session = "none" /\ course = "none"
        /\ rows = {} /\ failed = "none" /\ ended = 0
        /\ trouble = FALSE /\ hidden = FALSE /\ misfiled = FALSE
    BY DEF Init
  <2>4. /\ retried \in BOOLEAN /\ cas \in BOOLEAN /\ known \in BOOLEAN
        /\ trouble \in BOOLEAN /\ hidden \in BOOLEAN /\ misfiled \in BOOLEAN
    BY <2>3
  <2>5. /\ pc \in {"idle", "enter", "ask", "renew", "done"} /\ session \in {"none", "good", "bad"}
        /\ course \in {"none", "ours", "other"} /\ rows \subseteq 1..8
        /\ failed \in {"none"} \cup Errors /\ ended \in 0..2
    BY <2>3
  <2> QED  BY <2>1, <2>2, <2>3, <2>4, <2>5 DEF TypeOK
<1>4. Accounted /\ Told /\ Unfailed /\ Steady /\ Filing
  BY DEF Init, Accounted, Told, Unfailed, Steady, Filing
<1> QED  BY <1>2, <1>3, <1>4 DEF CampusInv, Init

LEMMA BeginKeeps ==
    ASSUME CampusInv, NEW c \in Asked, NEW alive \in BOOLEAN, NEW s \in {"none", "good", "bad"},
           Begin(c, alive, s)
    PROVE  CampusInv'
<1>1. c \in Commands /\ StartPart(c, 1, s, FALSE) /\ cmd' = c
  BY AskedAssumption DEF Begin
<1>2. 1 \in 1..Len(Parts(c))
  BY <1>1, PartsAre
<1>3. /\ Where' /\ part' = 1 /\ at' \in 1..8
      /\ Name' \notin AskOnce => (known' => session' # "none")
      /\ Name' \in DOMAIN JudgeScripts => at' \notin JudgeLists
  BY <1>1, <1>2, PartStarts
<1>4. /\ pc' = "enter" /\ retried' = FALSE /\ rounds' = 0 /\ session' = s /\ course' = "none"
      /\ rows' = {} /\ failed' = "none" /\ hidden' = FALSE /\ known' \in BOOLEAN
  BY <1>1 DEF StartPart
<1>5. /\ cas' = alive /\ got' = <<>> /\ ended' = (IF s = "bad" THEN 1 ELSE 0)
      /\ trouble' = ~alive /\ misfiled' = FALSE
  BY DEF Begin
<1>6. trouble' \in BOOLEAN
  BY <1>5
<1>7. TypeOK'
  <2>1. got' \in Seq(BOOLEAN)
    BY <1>5
  <2>2. rounds' \in 0..MaxRounds /\ part' \in 1..4 /\ ended' \in 0..2
    BY <1>3, <1>4, <1>5, AskedAssumption
  <2> QED  BY <1>1, <1>3, <1>4, <1>5, <1>6, <2>1, <2>2 DEF TypeOK
<1>8. Accounted' /\ Told'
  <2>1. Len(got') = part' - 1
    BY <1>3, <1>5
  <2>2. Accounted'
    BY <1>4, <2>1 DEF Accounted
  <2>3. Told'
    <3>1. ~trouble' => cas'
      BY <1>5
    <3> QED  BY <1>4, <1>5, <3>1 DEF Told
  <2> QED  BY <2>2, <2>3
<1>9. Steady' /\ Unfailed'
  BY <1>3, <1>4, <1>5 DEF Steady, Unfailed
<1>10. Filing'
  BY <1>3, <1>4, <1>5 DEF Filing
<1> QED  BY <1>3, <1>4, <1>7, <1>8, <1>9, <1>10 DEF CampusInv

LEMMA ConcludeKeeps ==
    ASSUME CampusInv, Conclude
    PROVE  CampusInv'
<1> DEFINE bad == failed \in {"expired", "auth", "network"}
<1>1. /\ pc = "done" /\ got' = Append(got, bad) /\ UNCHANGED <<cmd, cas, trouble, misfiled>>
  BY DEF Conclude
<1>2. /\ got \in Seq(BOOLEAN) /\ bad \in BOOLEAN /\ part \in Nat /\ Len(got) = part - 1
      /\ cmd \in Commands /\ ended \in 0..2
  BY <1>1, AskedAssumption DEF CampusInv, TypeOK, Accounted
<1>3. ended <= 1 /\ ~trouble /\ cmd \notin AskOnce => ~bad
  BY <1>2, PartsAre DEF CampusInv, Where, Steady, Name
<1>4. ended <= 1 /\ ~trouble /\ cmd \notin AskOnce => \A i \in DOMAIN got : ~got[i]
  BY DEF CampusInv, Unfailed
<1> HIDE DEF bad
<1>5. got' \in Seq(BOOLEAN) /\ Len(got') = part
  BY <1>1, <1>2
<1>6. ended <= 1 /\ ~trouble /\ cmd \notin AskOnce => \A i \in DOMAIN got' : ~got'[i]
  BY <1>1, <1>2, <1>3, <1>4
<1>7. CASE GoesOn(Outcome)
  <2> DEFINE kept == cmd \in OneService /\ known
  <2>1. PICK s \in {"none", "good", "bad"} :
            /\ cmd \in OneService => s = session
            /\ StartPart(cmd, part + 1, s, kept)
            /\ ended' = IF s = "bad" /\ cmd \notin OneService THEN Count(ended) ELSE ended
    BY <1>7 DEF Conclude, CampusInv, TypeOK
  <2>a. kept \in BOOLEAN /\ (kept => cmd \in OneService /\ known)
    BY DEF CampusInv, TypeOK
  <2> HIDE DEF kept
  <2>2. part + 1 \in 1..Len(Parts(cmd)) /\ Len(Parts(cmd)) \in 1..4
    BY <1>2, <1>7, PartsAre DEF GoesOn
  <2>3. /\ Where' /\ part' = part + 1 /\ at' \in 1..8
        /\ Name' \notin AskOnce => (known' => session' # "none" \/ kept)
        /\ Name' \in DOMAIN JudgeScripts => at' \notin JudgeLists
    BY <1>1, <1>2, <2>1, <2>2, <2>a, PartStarts
  <2>4. /\ pc' = "enter" /\ retried' = FALSE /\ rounds' = 0 /\ session' = s /\ course' = "none"
        /\ rows' = {} /\ failed' = "none" /\ hidden' = FALSE /\ known' \in BOOLEAN
    BY <2>1 DEF StartPart
  <2>5. ended' \in 0..2 /\ ended' >= ended /\ (s = "bad" => ended' >= 1)
    BY <1>2, <2>1 DEF Count, CampusInv, Told
  <2>6. TypeOK'
    <3> DEFINE length == Len(Parts(cmd))
    <3>a. length \in 1..4 /\ part + 1 \in 1..length
      BY <2>2
    <3> HIDE DEF length
    <3>1. rounds' \in 0..MaxRounds /\ part' \in 1..4
      BY <3>a, <2>3, <2>4, AskedAssumption
    <3> QED  BY <1>1, <1>5, <2>3, <2>4, <2>5, <3>1 DEF CampusInv, TypeOK
  <2>7. Accounted' /\ Told'
    BY <1>1, <1>2, <1>5, <2>3, <2>4, <2>5 DEF CampusInv, Accounted, Told
  <2>b. kept /\ ended' <= 1 /\ ~trouble => session' # "none"
    <3>1. kept => Name \notin AskOnce
      <4>1. part \in 1..Len(Parts(cmd))
        BY DEF CampusInv, Where
      <4>2. cmd \notin AskOnce => Name \notin AskOnce
        BY <1>2, <4>1, PartsAre DEF Name
      <4> QED  BY <2>a, <4>2, OneServiceAsksAgain
    <3>2. kept => known /\ s = session
      BY <2>1, <2>a
    <3>3. kept /\ ended <= 1 /\ ~trouble => session # "none"
      BY <3>1, <3>2 DEF CampusInv, Steady
    <3> QED  BY <1>2, <2>4, <2>5, <3>2, <3>3
  <2>8. Steady' /\ Unfailed'
    BY <1>1, <1>2, <1>6, <2>3, <2>4, <2>5, <2>b DEF Steady, Unfailed
  <2>9. Filing'
    BY <1>1, <1>2, <2>3, <2>4, <2>5 DEF CampusInv, Filing
  <2> QED  BY <2>3, <2>4, <2>6, <2>7, <2>8, <2>9 DEF CampusInv
<1>8. CASE ~GoesOn(Outcome)
  <2>1. /\ pc' = "idle"
        /\ UNCHANGED <<part, at, rounds, retried, session, known, course, rows, failed, ended, hidden>>
    BY <1>8 DEF Conclude
  <2>2. Where' /\ Name' = Name
    BY <1>1, <2>1, SamePlace DEF CampusInv
  <2>3. part = Len(Parts(cmd))
    BY <1>2, <1>8, PartsAre DEF GoesOn, CampusInv, Where
  <2>4. TypeOK'
    BY <1>1, <1>5, <2>1 DEF CampusInv, TypeOK
  <2>5. Accounted' /\ Told'
    BY <1>1, <1>5, <2>1, <2>3 DEF CampusInv, Accounted, Told
  <2>6. Steady' /\ Unfailed'
    BY <1>1, <1>6, <2>1, <2>2 DEF CampusInv, Steady, Unfailed, Told
  <2>7. Filing'
    BY <1>1, <2>1, <2>2 DEF CampusInv, Filing
  <2> QED  BY <2>1, <2>2, <2>4, <2>5, <2>6, <2>7 DEF CampusInv
<1> QED  BY <1>7, <1>8


LEMMA ReuseKeeps ==
    ASSUME CampusInv, Reuse
    PROVE  CampusInv'
<1>1. /\ pc = "enter" /\ known /\ pc' = "ask"
      /\ UNCHANGED <<cmd, part, at, rounds, retried, cas, session, known, course, rows, failed, got,
                     ended, trouble, hidden, misfiled>>
  BY DEF Reuse, place, system, result, history
<1>2. Where' /\ Name' = Name
  BY <1>1, SamePlace DEF CampusInv
<1>3. TypeOK'
  BY <1>1 DEF CampusInv, TypeOK
<1>4. Accounted' /\ Told'
  BY <1>1 DEF CampusInv, Accounted, Told
<1>5. Steady' /\ Unfailed'
  BY <1>1, <1>2 DEF CampusInv, Steady, Unfailed, Told
<1>6. Filing'
  BY <1>1, <1>2 DEF CampusInv, Filing
<1> QED  BY <1>1, <1>2, <1>3, <1>4, <1>5, <1>6 DEF CampusInv

\* Whom a system welcomes it lets in; while nothing went wrong it welcomes all.
LEMMA WelcomesAll ==
    ASSUME CampusInv, NEW w \in Welcomes, NEW e \in Errors \cup {"ready"}, Entering(w, e),
           Name \notin AskOnce, ~trouble'
    PROVE  w = "in" /\ e = "ready" /\ ~trouble
<1>1. ~trouble /\ w \in {"in", "turned"}
  BY DEF Entering, CampusInv, TypeOK
<1>2. cas
  BY <1>1 DEF CampusInv, Told
<1>3. w = "in"
  BY <1>1, <1>2 DEF Entering
<1>4. LetsIn(EnterTable)
  <2>1. CASE Kind = "srs"
    BY <2>1, EveryoneLetsIn DEF EnterTable
  <2>2. CASE Kind # "srs"
    BY <2>2, FitsHere DEF CampusInv, Fits, Survivable, EnterTable
  <2> QED  BY <2>1, <2>2
<1>5. e = "ready"
  BY <1>3, <1>4 DEF Entering, LetsIn
<1> QED  BY <1>1, <1>3, <1>5

LEMMA EnterKeeps ==
    ASSUME CampusInv, NEW w \in Welcomes, Enter(w)
    PROVE  CampusInv'
<1>1. /\ pc = "renew" \/ (pc = "enter" /\ ~known)
      /\ pc' = "ask" /\ known' = TRUE
      /\ session' = IF w = "in" THEN "good" ELSE session
      /\ course' = IF w = "in" /\ session # "good" THEN "none" ELSE course
      /\ trouble' = (trouble \/ w \notin {"in", "turned"})
      /\ UNCHANGED <<cmd, part, at, rounds, retried, cas, rows, failed, got, ended, hidden, misfiled>>
  BY DEF Enter, Entering
<1>2. Where' /\ Name' = Name
  BY <1>1, SamePlace DEF CampusInv
<1>3. trouble' \in BOOLEAN /\ (~trouble' => ~trouble)
  BY <1>1 DEF CampusInv, TypeOK
<1>4. Name \notin AskOnce /\ ~trouble' => w = "in"
  BY WelcomesAll DEF Enter
<1>5. TypeOK'
  BY <1>1, <1>3 DEF CampusInv, TypeOK
<1>6. Accounted' /\ Told'
  BY <1>1, <1>3 DEF CampusInv, Accounted, Told
<1>7. Steady' /\ Unfailed'
  BY <1>1, <1>2, <1>3, <1>4 DEF CampusInv, Steady, Unfailed, Told
<1>8. Filing'
  <2> SUFFICES ASSUME ended = 0, ~trouble'
               PROVE  ~misfiled /\ (Name \in DOMAIN JudgeScripts /\ at \in JudgeLists => course' = "ours")
    BY <1>1, <1>2 DEF Filing
  <2>1. Name \in DOMAIN JudgeScripts => Name \notin AskOnce
    BY NamesOfCommands DEF AskOnce
  <2>2. ASSUME Name \in DOMAIN JudgeScripts, at \in JudgeLists
        PROVE  known /\ course = "ours" /\ session = "good"
    <3>1. known /\ course = "ours"
      BY <1>1, <1>3, <2>2 DEF CampusInv, Filing
    <3>2. session # "none"
      BY <1>3, <2>1, <2>2, <3>1 DEF CampusInv, Steady
    <3> QED  BY <3>1, <3>2 DEF CampusInv, TypeOK, Told
  <2> QED  BY <1>1, <1>3, <2>2 DEF CampusInv, Filing
<1> QED  BY <1>1, <1>2, <1>5, <1>6, <1>7, <1>8 DEF CampusInv

\* An expiry that was not overcome.
LEMMA NotOvercomeIs ==
    /\ NotOvercome \in Errors \cup {"empty"}
    /\ NotOvercome \notin Errors => Kind \in EmptyAfterAll
BY DEF NotOvercome, Errors, EmptyAfterAll

\* An action that ends a request.
LEMMA RequestEnds ==
    ASSUME CampusInv, UNCHANGED <<cmd, part, cas, got, ended>>,
           pc \in {"enter", "ask", "renew"},
           Where', at' \in 1..8, rounds' \in 0..MaxRounds, pc' \in {"enter", "done"},
           retried' = FALSE, rows' \subseteq 1..8, failed' \in {"none"} \cup Errors, hidden' = FALSE,
           trouble' \in BOOLEAN, ~trouble' => ~trouble,
           session' \in {"none", "good", "bad"}, session' = "bad" => session = "bad",
           known' \in BOOLEAN, course' \in {"none", "ours", "other"}, misfiled' \in BOOLEAN
    PROVE  TypeOK' /\ Accounted' /\ Told' /\ Unfailed'
<1>1. TypeOK'
  BY DEF CampusInv, TypeOK
<1>2. Accounted' /\ Told'
  BY DEF CampusInv, Accounted, Told
<1>3. Unfailed'
  BY DEF CampusInv, Unfailed
<1> QED  BY <1>1, <1>2, <1>3

LEMMA EnterFailsKeeps ==
    ASSUME CampusInv, NEW w \in Welcomes, NEW e \in Errors, EnterFails(w, e)
    PROVE  CampusInv'
<1> DEFINE outcome == IF pc = "renew" /\ Kind \in YgdkKinds THEN NotOvercome ELSE e
<1>1. /\ pc = "renew" \/ (pc = "enter" /\ ~known)
      /\ e # "ready" /\ Entering(w, e)
      /\ session' = IF Kind \in JarKinds THEN session ELSE "none"
      /\ known' = (known /\ Kind \notin YgdkKinds \cup {"judge"})
      /\ Close(outcome, "denied")
      /\ trouble' = (trouble \/ w \notin {"in", "turned"})
      /\ UNCHANGED <<cmd, part, cas, got, ended, misfiled, course>>
  BY DEF EnterFails, Entering
<1>2. outcome \in Errors \cup {"empty"}
  BY NotOvercomeIs
<1>3. outcome \notin Errors => This.optional \/ "denied" \in Empties(Name)
  BY NotOvercomeIs, FitsHere DEF CampusInv, Fits
<1> HIDE DEF outcome
<1>4. /\ Where' /\ at' \in 1..8 /\ rounds' \in 0..MaxRounds
      /\ pc' \in {"enter", "done"} /\ retried' = FALSE /\ rows' \subseteq 1..8
      /\ failed' \in {"none"} \cup Errors /\ hidden' = FALSE
  BY <1>1, <1>2, <1>3, CloseIs
<1>5. trouble' \in BOOLEAN /\ (~trouble' => ~trouble)
  BY <1>1 DEF CampusInv, TypeOK
<1>6. known' \in BOOLEAN /\ session' \in {"none", "good", "bad"} /\ (session' = "bad" => session = "bad")
      /\ course' \in {"none", "ours", "other"} /\ misfiled' \in BOOLEAN
  BY <1>1 DEF CampusInv, TypeOK
<1>7. TypeOK' /\ Accounted' /\ Told' /\ Unfailed'
  BY <1>1, <1>4, <1>5, <1>6, RequestEnds
<1>8. Name \notin AskOnce => trouble'
  BY <1>1, WelcomesAll DEF CampusInv
<1>9. Name' = Name
  BY <1>1, SamePlace
<1>10. Steady'
  BY <1>5, <1>8, <1>9 DEF Steady
<1>11. Filing'
  <2>1. Name \in DOMAIN JudgeScripts => Name \notin AskOnce
    BY NamesOfCommands DEF AskOnce
  <2>2. ended' = 0 /\ ~trouble' => ~misfiled'
    BY <1>1, <1>5 DEF CampusInv, Filing
  <2> QED  BY <1>5, <1>8, <1>9, <2>1, <2>2 DEF Filing
<1> QED  BY <1>4, <1>7, <1>10, <1>11 DEF CampusInv


\* While nothing else goes wrong, an answer is a list from a good session, or it
\* is read as the expiry of the only session that ended.
LEMMA HearsWell ==
    ASSUME CampusInv, NEW a \in Answers, NEW o, Hears(a, o),
           Name \notin AskOnce, ended <= 1, ~trouble'
    PROVE  /\ ~trouble /\ known /\ session # "none"
           /\ \/ /\ a \in {"rows", "none"} /\ o \notin {"expired", "auth", "network"} /\ session = "good"
              \/ a \notin {"rows", "none"} /\ o = "expired" /\ session = "bad" /\ ended = 1 /\ ~retried
<1>1. /\ pc = "ask" /\ MayAnswer(a) /\ o \in DOMAIN This.reading /\ a \in This.reading[o]
      /\ ~trouble /\ a \in {"rows", "none"} \cup Recognised(Name)
  BY DEF Hears, CampusInv, TypeOK
<1>2. /\ Kind \notin NoEntry /\ Seen(This.reading, Recognised(Name))
  BY FitsHere DEF CampusInv, Fits, Survivable
<1>3. known /\ session # "none" /\ (retried => ended = 1 /\ session = "good")
  BY <1>1 DEF CampusInv, Steady
<1>4. session \in {"none", "good", "bad"} /\ (session = "bad" => ended = 1)
  BY DEF CampusInv, TypeOK, Told
<1>5. CASE a \in {"rows", "none"}
  <2>1. session = "good"
    BY <1>1, <1>2, <1>5 DEF MayAnswer, NoEntry, TurnedAway
  <2>2. o \notin {"expired", "auth", "network"}
    BY <1>1, <1>2, <1>5 DEF Seen
  <2> QED  BY <1>1, <1>3, <1>5, <2>1, <2>2
<1>6. CASE a \notin {"rows", "none"}
  <2>1. a \in Recognised(Name) /\ a \in TurnedAway
    BY <1>1, <1>6, RecognisedAtMost
  <2>2. session # "good"
    BY <1>1, <1>6, <2>1 DEF MayAnswer
  <2>3. o = "expired"
    BY <1>1, <1>2, <2>1 DEF Seen
  <2> QED  BY <1>1, <1>3, <1>4, <1>6, <2>2, <2>3
<1> QED  BY <1>5, <1>6

LEMMA RenewKeeps ==
    ASSUME CampusInv, NEW a \in Answers, Renew(a)
    PROVE  CampusInv'
<1>1. /\ pc = "ask" /\ Hears(a, "expired") /\ pc' = "renew" /\ retried' = TRUE
      /\ trouble' = (trouble \/ a \notin {"rows", "none"} \cup Recognised(Name))
      /\ UNCHANGED <<cmd, part, at, rounds, cas, session, known, course, rows, failed, got, ended,
                     hidden, misfiled>>
  BY DEF Renew, Hears, result
<1>2. Where' /\ Name' = Name
  BY <1>1, SamePlace DEF CampusInv
<1>3. trouble' \in BOOLEAN /\ (~trouble' => ~trouble)
  BY <1>1 DEF CampusInv, TypeOK
<1>4. TypeOK'
  BY <1>1, <1>3 DEF CampusInv, TypeOK
<1>5. Accounted' /\ Told'
  BY <1>1, <1>3 DEF CampusInv, Accounted, Told
<1>6. Steady' /\ Unfailed'
  <2>1. Name \notin AskOnce /\ ended <= 1 /\ ~trouble' => ended = 1
    BY <1>1, HearsWell
  <2> QED  BY <1>1, <1>2, <1>3, <2>1 DEF CampusInv, Steady, Unfailed
<1>7. Filing'
  BY <1>1, <1>2, <1>3 DEF CampusInv, Filing
<1> QED  BY <1>1, <1>2, <1>4, <1>5, <1>6, <1>7 DEF CampusInv

LEMMA HearKeeps ==
    ASSUME CampusInv, NEW a \in Answers, NEW o \in Errors \cup {"rows", "empty"}, Hear(a, o)
    PROVE  CampusInv'
<1> DEFINE outcome == IF o = "expired" /\ retried THEN NotOvercome ELSE o
           atJudge == Name \in DOMAIN JudgeScripts
<1>1. /\ o = "expired" => ~Renewable
      /\ Hears(a, o) /\ Close(outcome, a)
      /\ known' = (known /\ ~(Kind = "judge" /\ o = "expired"))
      /\ course' = IF atJudge /\ at \in JudgeSelects /\ a \in {"rows", "none"} THEN "ours" ELSE course
      /\ misfiled' = (misfiled \/ (atJudge /\ at \in JudgeLists /\ a = "rows" /\ course # "ours"))
  BY DEF Hear
<1>2. /\ pc = "ask" /\ o \in DOMAIN This.reading /\ a \in This.reading[o]
      /\ trouble' = (trouble \/ a \notin {"rows", "none"} \cup Recognised(Name))
      /\ UNCHANGED <<cmd, part, cas, got, ended, session>>
  BY <1>1 DEF Hears
<1>3. outcome \in Errors \cup {"rows", "empty"}
  BY NotOvercomeIs
<1>4. outcome \notin Errors => This.optional \/ a \in Empties(Name)
  <2>1. This = Kinds[Kind] /\ Fits(Name, Kind)
    BY FitsHere DEF CampusInv
  <2>2. CASE o \in {"rows", "empty"}
    BY <1>2, <2>1, <2>2 DEF Fits, Honest
  <2>3. CASE o = "expired" /\ retried
    BY <1>2, <2>1, <2>3, NotOvercomeIs DEF Fits, Swallows
  <2>4. CASE o \in Errors /\ ~(o = "expired" /\ retried)
    BY <2>4
  <2> QED  BY <2>2, <2>3, <2>4
<1>5. o \notin {"expired", "auth", "network"} => outcome = o
  OBVIOUS
<1> HIDE DEF outcome
<1>6. /\ Where' /\ at' \in 1..8 /\ rounds' \in 0..MaxRounds
      /\ pc' \in {"enter", "done"} /\ retried' = FALSE /\ rows' \subseteq 1..8
      /\ failed' \in {"none"} \cup Errors /\ (failed' = failed \/ failed' = outcome)
      /\ hidden' = FALSE
      /\ atJudge /\ at' \in JudgeLists /\ pc' = "enter" => at \in JudgeSelects
  BY <1>1, <1>2, <1>3, <1>4, CloseIs
<1>7. trouble' \in BOOLEAN /\ (~trouble' => ~trouble)
  BY <1>2 DEF CampusInv, TypeOK
<1>8. known' \in BOOLEAN /\ session' \in {"none", "good", "bad"} /\ (session' = "bad" => session = "bad")
      /\ course' \in {"none", "ours", "other"} /\ misfiled' \in BOOLEAN
  BY <1>1, <1>2 DEF CampusInv, TypeOK
<1>9. TypeOK' /\ Accounted' /\ Told' /\ Unfailed'
  BY <1>2, <1>6, <1>7, <1>8, RequestEnds
<1>10. ASSUME Name \notin AskOnce, ended <= 1, ~trouble'
       PROVE  /\ a \in {"rows", "none"} /\ o \notin {"expired", "auth", "network"}
              /\ known /\ known' /\ session # "none" /\ session = "good"
  <2>1. o = "expired" => retried
    BY <1>1, <1>10, FitsHere DEF Renewable, CampusInv, Fits, Survivable
  <2> QED  BY <1>1, <1>10, <2>1, HearsWell
<1>11. Name' = Name
  BY <1>2, SamePlace
<1>12. Steady'
  BY <1>2, <1>5, <1>6, <1>7, <1>10, <1>11 DEF CampusInv, Steady
<1>13. Filing'
  <2> SUFFICES ASSUME ended = 0, ~trouble'
               PROVE  /\ ~misfiled'
                      /\ atJudge /\ at' \in JudgeLists /\ pc' = "enter" => known' /\ course' = "ours"
    BY <1>2, <1>6, <1>11 DEF Filing
  <2>1. atJudge => Name \notin AskOnce
    BY NamesOfCommands DEF AskOnce
  <2>2. ~misfiled /\ (atJudge /\ at \in JudgeLists => course = "ours")
    BY <1>2, <1>7 DEF CampusInv, Filing
  <2>3. ~misfiled'
    BY <1>1, <2>2
  <2>4. ASSUME atJudge, at' \in JudgeLists, pc' = "enter" PROVE known' /\ course' = "ours"
    BY <1>1, <1>6, <1>10, <2>1, <2>4
  <2> QED  BY <2>3, <2>4
<1> QED  BY <1>6, <1>9, <1>12, <1>13 DEF CampusInv

LEMMA EndSessionKeeps ==
    ASSUME CampusInv, EndSession
    PROVE  CampusInv'
<1>1. /\ session = "good" /\ session' = "bad" /\ ended' = Count(ended)
      /\ UNCHANGED <<cmd, part, at, rounds, pc, retried, cas, known, course, rows, failed, got, trouble,
                     hidden, misfiled>>
  BY DEF EndSession, place, result
<1>2. Where' /\ Name' = Name
  BY <1>1, SamePlace DEF CampusInv
<1>3. ended \in 0..2 /\ ended' \in 1..2 /\ (ended' <= 1 => ended = 0)
  BY <1>1 DEF Count, CampusInv, TypeOK
<1>4. TypeOK'
  BY <1>1, <1>3 DEF CampusInv, TypeOK
<1>5. Accounted' /\ Told'
  BY <1>1, <1>3 DEF CampusInv, Accounted, Told
<1>6. Steady' /\ Unfailed'
  BY <1>1, <1>2, <1>3 DEF CampusInv, Steady, Unfailed
<1>7. Filing'
  BY <1>3 DEF Filing
<1> QED  BY <1>1, <1>2, <1>4, <1>5, <1>6, <1>7 DEF CampusInv

LEMMA EndCampusKeeps ==
    ASSUME CampusInv, EndCampus
    PROVE  CampusInv'
<1>1. /\ cas' = FALSE /\ trouble' = TRUE
      /\ UNCHANGED <<cmd, part, at, rounds, pc, retried, session, known, course, rows, failed, got, ended,
                     hidden, misfiled>>
  BY DEF EndCampus, place, result
<1>2. Where'
  BY <1>1, SamePlace DEF CampusInv
<1>3. TypeOK'
  BY <1>1 DEF CampusInv, TypeOK
<1>4. Accounted' /\ Told' /\ Steady' /\ Unfailed' /\ Filing'
  BY <1>1 DEF CampusInv, Accounted, Told, Steady, Unfailed, Filing
<1> QED  BY <1>1, <1>2, <1>3, <1>4 DEF CampusInv

LEMMA OtherSelectsKeeps ==
    ASSUME CampusInv, OtherSelects
    PROVE  CampusInv'
<1>1. /\ course' = "other" /\ trouble' = TRUE
      /\ UNCHANGED <<cmd, part, at, rounds, pc, retried, cas, session, known, rows, failed, got, ended,
                     hidden, misfiled>>
  BY DEF OtherSelects, place, result
<1>2. Where'
  BY <1>1, SamePlace DEF CampusInv
<1>3. TypeOK'
  BY <1>1 DEF CampusInv, TypeOK
<1>4. Accounted' /\ Told' /\ Steady' /\ Unfailed' /\ Filing'
  BY <1>1 DEF CampusInv, Accounted, Told, Steady, Unfailed, Filing
<1> QED  BY <1>1, <1>2, <1>3, <1>4 DEF CampusInv

LEMMA CampusStutters ==
    ASSUME CampusInv, UNCHANGED vars
    PROVE  CampusInv'
<1>1. UNCHANGED <<cmd, part, at, rounds, pc, retried, cas, session, known, course, rows, failed, got,
                  ended, trouble, hidden, misfiled>>
  BY DEF vars, place, system, result, history
<1>2. Where' /\ Name' = Name
  BY <1>1, SamePlace DEF CampusInv
<1>3. TypeOK' /\ Accounted' /\ Told' /\ Unfailed'
  BY <1>1 DEF CampusInv, TypeOK, Accounted, Told, Unfailed
<1>4. Steady' /\ Filing'
  BY <1>1, <1>2 DEF CampusInv, Steady, Filing
<1> QED  BY <1>1, <1>2, <1>3, <1>4 DEF CampusInv

LEMMA CampusStep ==
    ASSUME CampusInv, [Next]_vars
    PROVE  CampusInv'
<1>1. ASSUME NEW c \in Asked, NEW alive \in BOOLEAN, NEW s \in {"none", "good", "bad"}, Begin(c, alive, s)
      PROVE  CampusInv'
  BY <1>1, BeginKeeps
<1>2. CASE Client
  BY <1>2, ReuseKeeps, ConcludeKeeps DEF Client
<1>3. ASSUME NEW w \in Welcomes, Enter(w) \/ \E e \in Errors : EnterFails(w, e)
      PROVE  CampusInv'
  BY <1>3, EnterKeeps, EnterFailsKeeps
<1>4. ASSUME NEW a \in Answers, Renew(a) \/ \E o \in Errors \cup {"rows", "empty"} : Hear(a, o)
      PROVE  CampusInv'
  BY <1>4, RenewKeeps, HearKeeps
<1>5. CASE EndSession \/ EndCampus \/ OtherSelects
  BY <1>5, EndSessionKeeps, EndCampusKeeps, OtherSelectsKeeps
<1>6. CASE UNCHANGED vars
  BY <1>6, CampusStutters
<1> QED  BY <1>1, <1>2, <1>3, <1>4, <1>5, <1>6 DEF Next

-----------------------------------------------------------------------------
(* What follows.                                                           *)

\* The inductive invariant: for any commands and any number of pages, courses and
\* questionnaires.
THEOREM CampusInvariance == Spec => []CampusInv
<1> QED  BY CampusInit, CampusStep, PTL DEF Spec

\* Every variable keeps its type, and no request is made beyond a script.
THEOREM CampusTyped == Spec => []TypeOK
<1>1. CampusInv => TypeOK
  BY DEF CampusInv
<1> QED  BY <1>1, CampusInvariance, PTL

\* No failure passes for an empty list, with the exceptions that Empties names,
\* and a todo list and a batch account for all of their parts.
THEOREM NeverMissing == Spec => []NothingMissing
<1>1. CampusInv => NothingMissing
  BY DEF CampusInv, NothingMissing, HonestEmpty, AccountsForAll, Accounted
<1> QED  BY <1>1, CampusInvariance, PTL

\* One session that ends before or during a command does not fail it.
THEOREM OneEndSurvived == Spec => []SurvivesOneEnd
<1>1. CampusInv => SurvivesOneEnd
  BY DEF CampusInv, SurvivesOneEnd, Unfailed
<1> QED  BY <1>1, CampusInvariance, PTL

\* The assignments of the judge are listed under their own course while no
\* session ends and nothing goes wrong.
THEOREM AlwaysUnderTheirCourse == Spec => []FiledUnderTheirCourse
<1>1. CampusInv => FiledUnderTheirCourse
  BY DEF CampusInv, FiledUnderTheirCourse, Filing, TypeOK
<1> QED  BY <1>1, CampusInvariance, PTL

===============================================================================
