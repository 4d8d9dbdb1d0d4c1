------------------------------ MODULE LiveDownload ------------------------------
(***************************************************************************)
(* `live download`: one classroom recording after the other is looked up,  *)
(* its slides and its video are fetched, and up to three files are written *)
(* into the output directory, which may hold files of an earlier download. *)
(* The first failure ends the command.                                     *)
(***************************************************************************)
EXTENDS Naturals, FiniteSets

CONSTANTS
    Resource,       \* the recordings
    Nobody          \* no recording

ASSUME ResourceAssumption == Nobody \notin Resource

VARIABLES
    wants,          \* --include: a subset of {"ppt", "video"}
    overwrite,      \* --overwrite
    left,           \* recordings still to do
    doing,          \* the one being done
    step,           \* how far: "off", "list", "detail", "slides", "images", "video", "pptx", "mp4", "end"
    slides,         \* of doing: "unasked", "named" (a guid is known), "none", "found", and of their
                    \* images "all", "some" or "lost" (none)
    cut,            \* of doing: a later page of the timeline was refused and taken for its end
    gaps,           \* of doing: a timeline or an image failed
    video,          \* of doing: "unasked", "none", "file", "hls", "bytes", "nothing" (an empty body), "lost"
    status,         \* of doing: LiveDownloadResult::status
    files,          \* the output directory: of each recording, each file
    report,         \* of each recording done: its status, slides, cut, video and gaps
    fate            \* the exit code of the command, "none" while it runs

asked == <<wants, overwrite>>
work == <<left, doing, slides, cut, gaps, video, status>>
live == <<asked, work, step, files, report, fate>>

File == {"pptx", "mp4", "sidecar"}
\* "unflushed": filled as far as the program knows, but what was left in its buffer
\* was lost when the file was closed.
Content == {"absent", "old", "new", "torn", "unflushed"}
Statuses == {"empty", "completed", "partial", "error"}
Fate == {"none", "Ok", "InvalidArgument", "AuthRequired", "Network", "Parse", "Storage"}
Unreported == [status |-> "none", slides |-> "unasked", video |-> "unasked", cut |-> FALSE, gaps |-> FALSE]

LiveTypeOK ==
    /\ wants \subseteq {"ppt", "video"} /\ overwrite \in BOOLEAN
    /\ left \subseteq Resource /\ doing \in Resource \cup {Nobody}
    /\ step \in {"off", "list", "detail", "slides", "images", "video", "pptx", "mp4", "end"}
    /\ (doing = Nobody) <=> (step \in {"off", "list", "end"})
    /\ slides \in {"unasked", "named", "none", "all", "some", "lost", "found"}
    /\ cut \in BOOLEAN /\ gaps \in BOOLEAN
    /\ video \in {"unasked", "none", "file", "hls", "bytes", "nothing", "lost"}
    /\ status \in Statuses
    /\ files \in [Resource -> [File -> Content]]
    /\ \A r \in Resource : report[r] = Unreported \/ report[r].status \in Statuses \ {"empty"}
    /\ \A r \in Resource : report[r] # Unreported => r \notin left \cup {doing}
    /\ fate \in Fate

NoFiles == [f \in File |-> "absent"]

LiveOff ==
    /\ wants = {} /\ overwrite = FALSE /\ left = {} /\ doing = Nobody /\ step = "off"
    /\ slides = "unasked" /\ cut = FALSE /\ gaps = FALSE /\ video = "unasked" /\ status = "empty"
    /\ files = [r \in Resource |-> NoFiles]
    /\ report = [r \in Resource |-> Unreported]
    /\ fate = "none"

-----------------------------------------------------------------------------
(* cmd_live_download: options, then the list of the day or the one named.  *)

LiveBegins(w, o, before) ==
    /\ wants' = w
    /\ overwrite' = o
    /\ files' = before
    /\ step' = "list"
    /\ UNCHANGED <<work, report, fate>>

\* LiveService::resources, and the filter by the timetable of --from-course.
\* With --course-id and --sub-id there is nothing to list.
List(found) ==
    /\ step = "list"
    /\ left' = found
    /\ step' = "end"
    /\ UNCHANGED <<asked, doing, slides, cut, gaps, video, status, files, report, fate>>

Fails(code) ==
    /\ fate' = code
    /\ step' = "off"
    /\ doing' = Nobody
    /\ left' = {}
    /\ UNCHANGED <<asked, slides, cut, gaps, video, status, files, report>>

ListFails == step = "list" /\ \E code \in {"AuthRequired", "Network", "Parse"} : Fails(code)

\* The next recording of the list.
Take(r) ==
    /\ step = "end"
    /\ r \in left
    /\ doing' = r
    /\ left' = left \ {r}
    /\ step' = "detail"
    /\ slides' = "unasked" /\ cut' = FALSE /\ gaps' = FALSE /\ video' = "unasked" /\ status' = "empty"
    /\ UNCHANGED <<asked, files, report, fate>>

LiveEnds ==
    /\ step = "end"
    /\ left = {}
    /\ step' = "off"
    /\ fate' = "Ok"
    /\ UNCHANGED <<asked, work, files, report>>

-----------------------------------------------------------------------------
(* LiveService::detail: a detail that is refused or unreadable is made up  *)
(* from the list or from the ids alone; only an expiry, a lost answer and a*)
(* failing list end the command.                                           *)

After(s) == IF s = "detail" /\ "ppt" \in wants THEN "slides" ELSE IF "video" \in wants THEN "video" ELSE "pptx"

\* What is read of a recording's detail, and of the page of its room.
ReadDetail == [video : {"none", "file", "hls"}, guids : BOOLEAN]
ReadRoom == [video : {"none", "file", "hls"}, guids : BOOLEAN]
Unread == [video |-> "none", guids |-> FALSE]
\* merge_livingroom: the room adds what the detail lacks.
Merged(d, room) == [video |-> IF d.video = "none" THEN room.video ELSE d.video, guids |-> d.guids \/ room.guids]

Detail(d, room) ==
    /\ step = "detail"
    /\ d \in ReadDetail \cup {Unread}
    /\ room \in ReadRoom \cup {Unread}
    /\ video' = IF "video" \in wants THEN Merged(d, room).video ELSE "unasked"
    /\ slides' = IF "ppt" \in wants /\ Merged(d, room).guids THEN "named" ELSE "unasked"
    /\ step' = After(step)
    /\ UNCHANGED <<asked, left, doing, cut, gaps, status, files, report, fate>>

DetailFails == step = "detail" /\ \E code \in {"AuthRequired", "Network", "Parse"} : Fails(code)

\* prepare_download: the first of the guids that has slides; one that fails,
\* an expired session included, is only noted.  ppt_slides takes a page that is
\* refused for the end of the timeline.
Slides(found, failed, refused) ==
    /\ step = "slides"
    /\ found \/ failed => slides = "named"
    /\ refused => found
    /\ cut' = refused
    /\ gaps' = failed
    /\ slides' = IF found THEN "found" ELSE "none"
    /\ status' = IF found THEN status ELSE "partial"
    /\ step' = IF found THEN "images" ELSE After("slides")
    /\ UNCHANGED <<asked, left, doing, video, files, report, fate>>

\* What the slides make of the status: an image that cannot be fetched, or is
\* none, is left out of the presentation.
\* Mutant: missing images do not count.
SlidesStatus_Lenient(s, g) == IF s = "lost" THEN "error" ELSE "completed"
SlidesStatus(s, g) == IF s = "lost" THEN "error" ELSE IF g THEN "partial" ELSE "completed"

Images(s) ==
    /\ step = "images"
    /\ slides' = s
    /\ gaps' = (gaps \/ s # "all")
    /\ status' = SlidesStatus(s, gaps')
    /\ step' = After("images")
    /\ UNCHANGED <<asked, left, doing, cut, video, files, report, fate>>

\* The video is fetched now, or left to ffmpeg, or there is none.  Whatever
\* came with a status 200 is the video.
VideoStatus(s, v) ==
    CASE v \in {"bytes", "nothing"} -> IF s = "empty" THEN "completed" ELSE s
      [] v = "lost" -> IF s = "completed" THEN "partial" ELSE "error"
      [] OTHER -> IF s = "empty" THEN "partial" ELSE s

Fetch(v) ==
    /\ step = "video"
    /\ v \in IF video = "file" THEN {"bytes", "nothing", "lost"} ELSE {video}
    /\ video' = v
    /\ status' = VideoStatus(status, v)
    /\ step' = "pptx"
    /\ UNCHANGED <<asked, left, doing, slides, cut, gaps, files, report, fate>>

-----------------------------------------------------------------------------
(* write_live_download_outputs                                             *)

Put(f, c) == files' = [files EXCEPT ![doing][f] = c]
\* The stream is tested before it is closed, so a last flush that fails goes unseen.
Filled == {"new", "unflushed"}
\* Mutant: the files of an earlier download are not looked for.
MayWrite_Any(f) == TRUE
MayWrite(f) == files[doing][f] = "absent" \/ overwrite

\* A file is there and must stay, or cannot be opened or filled.
Stops(f) ==
    \/ ~MayWrite(f) /\ Fails("InvalidArgument")
    \/ /\ MayWrite(f)
       /\ fate' = "Storage" /\ step' = "off" /\ doing' = Nobody /\ left' = {}
       /\ Put(f, "torn") \/ UNCHANGED files
       /\ UNCHANGED <<asked, slides, cut, gaps, video, status, report>>

HasSlides == slides \in {"all", "some"}

WritePptx ==
    /\ step = "pptx"
    /\ IF HasSlides THEN MayWrite("pptx") /\ \E c \in Filled : Put("pptx", c) ELSE UNCHANGED files
    /\ step' = "mp4"
    /\ UNCHANGED <<asked, work, report, fate>>
WritePptxStops == step = "pptx" /\ HasSlides /\ Stops("pptx")

Done(s) ==
    /\ report' = [report EXCEPT ![doing] = [status |-> s, slides |-> slides, video |-> video,
                                              cut |-> cut, gaps |-> gaps]]
    /\ doing' = Nobody
    /\ slides' = "unasked" /\ cut' = FALSE /\ gaps' = FALSE /\ video' = "unasked" /\ status' = "empty"
    /\ step' = "end"
    /\ UNCHANGED <<asked, left, fate>>
Settled == IF status = "empty" THEN "completed" ELSE status

WriteVideo ==
    /\ step = "mp4"
    /\ video # "hls"
    /\ IF video = "bytes" THEN MayWrite("mp4") /\ \E c \in Filled : Put("mp4", c) ELSE UNCHANGED files
    /\ Done(Settled)
WriteVideoStops == step = "mp4" /\ video \in {"bytes", "hls"} /\ Stops("mp4")

\* ffmpeg makes a file of the playlist ...
Merge ==
    /\ step = "mp4"
    /\ video = "hls"
    /\ MayWrite("mp4")
    /\ Put("mp4", "new")
    /\ Done(IF Settled = "error" THEN "error" ELSE IF gaps THEN "partial" ELSE "completed")

\* ... or does not, and the video that was there goes with what it left; the
\* address of the playlist is written instead.
Sidecar ==
    /\ step = "mp4"
    /\ video = "hls"
    /\ MayWrite("mp4")
    /\ MayWrite("sidecar")
    /\ \E c \in Filled : files' = [files EXCEPT ![doing]["mp4"] = "absent", ![doing]["sidecar"] = c]
    /\ Done("partial")
SidecarStops ==
    /\ step = "mp4"
    /\ video = "hls"
    /\ MayWrite("mp4")
    /\ fate' = IF MayWrite("sidecar") THEN "Storage" ELSE "InvalidArgument"
    /\ step' = "off" /\ doing' = Nobody /\ left' = {}
    /\ \E c \in IF MayWrite("sidecar") THEN {"torn", files[doing]["sidecar"]} ELSE {files[doing]["sidecar"]} :
         files' = [files EXCEPT ![doing]["mp4"] = "absent", ![doing]["sidecar"] = c]
    /\ UNCHANGED <<asked, slides, cut, gaps, video, status, report>>

LiveNext ==
    \/ \E found \in SUBSET Resource : List(found)
    \/ ListFails \/ LiveEnds \/ DetailFails
    \/ \E r \in Resource : Take(r)
    \/ \E d \in ReadDetail, room \in ReadRoom : Detail(d, room)
    \/ \E found, failed, refused \in BOOLEAN : Slides(found, failed, refused)
    \/ \E s \in {"all", "some", "lost"} : Images(s)
    \/ \E v \in {"none", "hls", "bytes", "nothing", "lost"} : Fetch(v)
    \/ WritePptx \/ WritePptxStops \/ WriteVideo \/ WriteVideoStops
    \/ Merge \/ Sidecar \/ SidecarStops

-----------------------------------------------------------------------------
(* What the directory and the report are worth.                            *)

\* As far as the program can know: a last flush that failed is not seen.
New(r, f) == files[r][f] \in Filled

\* A recording reported as completed has, of what was asked for, a presentation
\* of every slide of the timeline and a video on disk.  Not so when a later page
\* of the timeline was refused, when the site has no video address
\* (the slides alone make it completed), when the video came empty, and when
\* ffmpeg merged the video of a recording without a timeline.
CompletedIsThere ==
    \A r \in Resource :
        report[r].status = "completed" =>
            /\ "ppt" \in wants =>
                 \/ New(r, "pptx") /\ report[r].slides = "all" /\ ~report[r].gaps /\ ~report[r].cut
                 \/ New(r, "pptx") /\ report[r].cut
                 \/ report[r].slides = "none" /\ report[r].video = "hls"
            /\ "video" \in wants => New(r, "mp4") \/ report[r].video \in {"none", "nothing"}

\* A recording reported as partial left something on disk, unless the site had
\* neither a timeline nor a video.
PartialIsSomething ==
    \A r \in Resource :
        report[r].status = "partial" =>
            \/ \E f \in File : New(r, f)
            \/ report[r].slides \in {"none", "unasked"} /\ report[r].video \in {"none", "nothing", "unasked"}

\* The status of a recording says what is on disk.
StatusIsTrue == CompletedIsThere /\ PartialIsSomething

\* A file of an earlier download stays as it was unless --overwrite is given:
\* the writes of the slides and of the video, what ffmpeg overwrites, and the
\* video that is removed when ffmpeg fails.
KeptUnlessAsked ==
    [][\A r \in Resource, f \in File :
          files[r][f] = "old" /\ files'[r][f] # "old" => overwrite \/ step = "off"]_live

===============================================================================
