--------------------------- MODULE OutputWatcher ---------------------------
(***************************************************************************)
(* A local run watched through its files: uwrapc writes the images of an   *)
(* iteration one after the other, OutputWatcher polls the directory, and   *)
(* the ImageViews of ImageDisplay load what it reports.                    *)
(*                                                                         *)
(* The n-th image of a category is known by n: Reconstruction shows that   *)
(* the names in the directory go up by output_period from the first one,   *)
(* which is what incrementFilename counts on.  Everything but the writer   *)
(* and the threads that read files runs in the GUI thread, so no other     *)
(* step of it comes between those of checkForNewFiles.                     *)
(*                                                                         *)
(* Files of this run and of a previous one are told apart by the second in *)
(* which they were made, as QFileInfo::created gives it.                   *)
(***************************************************************************)
EXTENDS Naturals, Sequences, SequencesExt

CONSTANTS
    MaxImages,  \* bound: images a run writes of each category
    Views,      \* image viewers, each named for the category it starts with
    NoFile,     \* no file name
    Settings    \* circumstances of a run looked at

\* In the order the loop writes them, and the other two in that of
\* imageCategories.
WriteOrder == <<"real", "support", "fourier">>
Companions == <<"fourier", "support">>
Categories == Range(WriteOrder)
Files == Categories \X (1 .. MaxImages)

\* Which viewers there are, whether a file can be seen before it is complete,
\* which images the user loads himself, whether Lock Browse is on, whether every
\* iteration is written (output_period 1), whether the previous run may have ended
\* in the second in which this one starts, and whether this one outlasts it.
ASSUME WatcherAssumption ==
    /\ MaxImages \in Nat \ {0}
    /\ Settings \subseteq [views : SUBSET Views, torn : BOOLEAN, user : SUBSET Files,
                           lock : BOOLEAN, every : BOOLEAN, recent : BOOLEAN,
                           late : BOOLEAN]

ASSUME NoFileAssumption == NoFile \notin Files

VARIABLES
    file,       \* state of each file; "old" ones are from a previous run
    created,    \* second in which each file was made
    clock,      \* the second it is
    written,    \* number of complete files of this run
    running,    \* the process runs
    check,      \* where checkForNewFiles is
    todo,       \* companions it has still to look for
    closing,    \* stop has been called
    atStop,     \* history: real space images reported before stop was called
    reported,   \* newOutput signals of each category
    made,       \* second of each file reported, as read then (outputFiles)
    view,       \* image viewers
    setting     \* one of Settings, for the whole run

fileVars == <<file, created, clock, written, running>>
watchVars == <<check, todo, closing, atStop, reported, made>>
displayVars == <<view, setting>>
vars == <<fileVars, watchVars, displayVars>>

Viewer == [shown : Files \cup {NoFile},         \* filename
           loading : Files \cup {NoFile},       \* currentlyLoading
           scheduled : Files \cup {NoFile},     \* scheduledImage
           loader : {"none", "first", "retry", "loaded", "failed", "stuck"}]

\* Seconds: 0 is any before the run starts (startTime), 2 any after that one.
StartTime == 1
Seconds == 0 .. 2

TypeOK ==
    /\ file \in [Files -> {"absent", "old", "partial", "whole"}]
    /\ created \in [Files -> Seconds] /\ clock \in {1, 2}
    /\ written \in 0 .. 3 * MaxImages /\ running \in BOOLEAN
    /\ check \in {"idle", "next", "companions", "stopped"}
    /\ todo \in {<<>>, Companions, Tail(Companions)} /\ closing \in BOOLEAN
    /\ atStop \in 0 .. MaxImages
    /\ reported \in [Categories -> Seq(1 .. MaxImages)]
    /\ made \in [Categories -> Seq(Seconds)]
    /\ setting \in Settings /\ view \in [setting.views -> Viewer]

\* The file after n complete ones.
FileAfter(n) == <<WriteOrder[(n % 3) + 1], (n \div 3) + 1>>

\* Previous runs may have left any number of images, and the last of them
\* may have made those from a to b in the second in which this one starts.
Init ==
    /\ setting \in Settings
    /\ \E n \in 0 .. MaxImages : \E a, b \in 0 .. 3 * n :
           /\ file = [f \in Files |-> IF f[2] <= n THEN "old" ELSE "absent"]
           /\ created = [f \in Files |->
                  IF setting.recent /\ \E k \in a .. (b - 1) : f = FileAfter(k)
                  THEN StartTime ELSE 0]
    /\ clock = StartTime /\ written = 0 /\ running = TRUE
    /\ check = "idle" /\ todo = <<>> /\ closing = FALSE /\ atStop = 0
    /\ reported = [c \in Categories |-> <<>>]
    /\ made = [c \in Categories |-> <<>>]
    /\ view = [v \in setting.views |-> [shown |-> NoFile, loading |-> NoFile,
                                        scheduled |-> NoFile, loader |-> "none"]]

----------------------------------------------------------------------------
(* The writer.                                                             *)

\* A file that already exists is truncated first, and made again.
WriteFile ==
    LET f == FileAfter(written)
    IN  /\ running /\ written < 3 * MaxImages
        /\ IF setting.torn /\ file[f] # "partial"
           THEN file' = [file EXCEPT ![f] = "partial"] /\ UNCHANGED written
           ELSE file' = [file EXCEPT ![f] = "whole"] /\ written' = written + 1
        /\ created' = [created EXCEPT ![f] = clock]
        /\ UNCHANGED <<clock, running, watchVars, displayVars>>

\* The second in which the run started is over.
Tick ==
    /\ setting.late /\ running /\ clock = StartTime
    /\ clock' = 2
    /\ UNCHANGED <<file, created, written, running, watchVars, displayVars>>

\* The process ends, or is ended, wherever it is.
ProcessEnds ==
    /\ running
    /\ running' = FALSE
    /\ UNCHANGED <<file, created, clock, written, watchVars, displayVars>>

----------------------------------------------------------------------------
(* The viewers.                                                            *)

\* newestFilename
Newest(w) == IF w.scheduled # NoFile THEN w.scheduled
             ELSE IF w.loading # NoFile THEN w.loading ELSE w.shown

StartLoading(w, f) ==
    [w EXCEPT !.scheduled = NoFile, !.loading = f, !.loader = "first"]

\* loadImage
LoadImage(w, f) ==
    IF w.loader = "none" THEN StartLoading(w, f) ELSE [w EXCEPT !.scheduled = f]

\* Mutant: a busy viewer schedules nothing.
BusyScheduleImageLoad(w, f) ==
    IF w.loader = "none" THEN [w EXCEPT !.scheduled = f] ELSE w

ScheduleImageLoad(w, f) == [w EXCEPT !.scheduled = f]

\* The viewer a category starts in: imageViewers[0] or [1], or none.
FirstViewer(c, v) == c = v

\* newOutput and, for the first image of a category, initialOutput: the
\* former moves the viewers on that are at the image reported before.
Show(f, old) ==
    /\ view' = [v \in DOMAIN view |->
                   IF old # NoFile /\ Newest(view[v]) = old
                   THEN ScheduleImageLoad(view[v], f)
                   ELSE IF old = NoFile /\ FirstViewer(f[1], v)
                   THEN LoadImage(view[v], f)
                   ELSE view[v]]
    /\ UNCHANGED setting

\* The GUI thread is not in checkForNewFiles.
Gui == check \in {"idle", "stopped"}

\* The timer that retries scheduled loads.
LoadScheduledImage(v) ==
    /\ Gui /\ view[v].scheduled # NoFile /\ view[v].loader = "none"
    /\ view' = [view EXCEPT ![v] = StartLoading(@, view[v].scheduled)]
    /\ UNCHANGED <<fileVars, watchVars, setting>>

\* ImageLoader::run reads the file and, half a second later, once more; the
\* mutex is held throughout.
ReadImage(v) ==
    /\ view[v].loader \in {"first", "retry"}
    /\ \A w \in DOMAIN view \ {v} : view[w].loader # "retry"
    /\ view' = [view EXCEPT ![v].loader =
                    IF file[view[v].loading] \in {"old", "whole"} THEN "loaded"
                    ELSE IF @ = "first" THEN "retry" ELSE "failed"]
    /\ UNCHANGED <<fileVars, watchVars, setting>>

\* Mutant: Lock Browse is not looked at.
UnlockedOnImageLoaded(w, f) == w

\* What ImageDisplay::onImageLoaded does to a viewer when another one has
\* loaded file f: with Lock Browse it loads its own image of that iteration.
OnImageLoaded(w, f) ==
    LET new == <<w.shown[1], f[2]>>
    IN  IF setting.lock /\ w.shown # NoFile /\ w.shown # new /\ file[new] # "absent"
        THEN LoadImage(w, new)
        ELSE w

\* A failure leaves the loader where it is, and the viewer busy for ever.
FinishLoadImage(v) ==
    LET f == view[v].loading
    IN  /\ Gui
        /\ \/ /\ view[v].loader = "loaded"
              /\ view' = [w \in DOMAIN view |->
                     IF w = v THEN [view[v] EXCEPT !.shown = f, !.loading = NoFile,
                                                   !.loader = "none"]
                     ELSE OnImageLoaded(view[w], f)]
           \/ /\ view[v].loader = "failed"
              /\ view' = [view EXCEPT ![v].loader = "stuck"]
        /\ UNCHANGED <<fileVars, watchVars, setting>>

\* The user loads some image there is.
UserLoads(v) ==
    /\ Gui
    /\ \E f \in setting.user :
           /\ file[f] # "absent"
           /\ view' = [view EXCEPT ![v] = LoadImage(@, f)]
    /\ UNCHANGED <<fileVars, watchVars, setting>>

----------------------------------------------------------------------------
(* The watcher.                                                            *)

\* Number of the newest image of a category, 0 for none.
NewestImage(c) == IF reported[c] = <<>> THEN 0 ELSE Last(reported[c])

\* Mutant: the name of the first image is counted from the wrong base.
SkippingNext == IF NewestImage("real") = 0 THEN 2 ELSE NewestImage("real") + 1

NextImage == NewestImage("real") + 1

\* isFileValid
ValidFile(f) == f \in Files /\ file[f] # "absent" /\ created[f] >= StartTime

\* Mutant: the newest file of the category is not looked at.
UntimedAccepted(f) == ValidFile(f)

\* What processFile tests: the file must not be older than the newest of its
\* category was when that one was reported.
Accepted(f) ==
    /\ ValidFile(f)
    /\ reported[f[1]] # <<>> => created[f] >= Last(made[f[1]])

\* processFile, for a file that passes.
ProcessFile(c, i) ==
    /\ reported' = [reported EXCEPT ![c] = Append(@, i)]
    /\ made' = [made EXCEPT ![c] = Append(@, created[<<c, i>>])]
    /\ Show(<<c, i>>, IF NewestImage(c) = 0 THEN NoFile ELSE <<c, NewestImage(c)>>)

\* The poller's timer calls checkForNewFiles every two seconds.
Poll ==
    /\ check = "idle"
    /\ check' = "next"
    /\ UNCHANGED <<fileVars, todo, closing, atStop, reported, made, displayVars>>

\* OutputWatcher::stop, when the end of the process is announced.
Stop ==
    /\ check = "idle" /\ ~running
    /\ closing' = TRUE /\ atStop' = NewestImage("real") /\ check' = "next"
    /\ UNCHANGED <<fileVars, todo, reported, made, displayVars>>

\* Where checkForNewFiles returns to.
Return == IF closing THEN "stopped" ELSE "idle"

\* The next real space image, if it is there.
FindNext ==
    /\ check = "next"
    /\ IF Accepted(<<"real", NextImage>>)
       THEN /\ ProcessFile("real", NextImage)
            /\ check' = "companions" /\ todo' = Companions
       ELSE check' = Return /\ UNCHANGED <<todo, reported, made, displayVars>>
    /\ UNCHANGED <<fileVars, closing, atStop>>

\* When every iteration is written, the name the first image is looked for by
\* is its own, so that checkForNewFiles takes it for the one before.  It
\* compares the sizes as well, which differ if the file was written since.
AtBase == setting.every /\ NewestImage("real") = 1

\* The image of another category that belongs to it, if it is there by now.
FindCompanion ==
    /\ check = "companions"
    /\ LET f == <<Head(todo), NewestImage("real")>>
       IN  IF Accepted(f) THEN ProcessFile(f[1], f[2])
                          ELSE UNCHANGED <<reported, made, displayVars>>
    /\ todo' = Tail(todo)
    /\ \/ todo' # <<>> /\ check' = "companions"
       \/ todo' = <<>> /\ AtBase /\ check' = Return
       \/ todo' = <<>> /\ (AtBase => setting.torn \/ setting.recent) /\ check' = "next"
    /\ UNCHANGED <<fileVars, closing, atStop>>

----------------------------------------------------------------------------
GuiStep ==
    \/ Poll \/ Stop \/ FindNext \/ FindCompanion
    \/ \E v \in DOMAIN view : LoadScheduledImage(v) \/ FinishLoadImage(v)

Next ==
    \/ WriteFile \/ Tick \/ ProcessEnds
    \/ GuiStep
    \/ \E v \in DOMAIN view : ReadImage(v) \/ UserLoads(v)

Spec == Init /\ [][Next]_vars

\* The event loop turns without starving a timer or a signal, and the loaders
\* get to read.  Nothing obliges the process to write or to end.
FairSpec ==
    /\ Spec
    /\ WF_vars(Poll) /\ SF_vars(Stop) /\ WF_vars(FindNext) /\ WF_vars(FindCompanion)
    /\ \A v \in Views :
           /\ SF_vars(v \in DOMAIN view /\ LoadScheduledImage(v))
           /\ SF_vars(v \in DOMAIN view /\ FinishLoadImage(v))
           /\ SF_vars(v \in DOMAIN view /\ ReadImage(v))

----------------------------------------------------------------------------
(* Properties.                                                             *)

\* However polls and writes interleave, every real space image is reported
\* once and in order, and the other categories never out of order or ahead.
ReportedInOrder ==
    /\ reported["real"] = [i \in 1 .. Len(reported["real"]) |-> i]
    /\ \A c \in Categories :
           /\ \A i, j \in 1 .. Len(reported[c]) :
                  i < j => reported[c][i] < reported[c][j]
           /\ NewestImage(c) <= NewestImage("real")

\* An image a previous run left in the directory is only ever reported if it
\* was made in the second in which this run started, and while none from a
\* later second was reported in its category; all others are of this run.
OfThisRun(f) == file[f] \in {"partial", "whole"}

NothingStale ==
    \A c \in Categories : \A i \in 1 .. Len(reported[c]) :
        LET f == <<c, reported[c][i]>>
        IN  \/ OfThisRun(f)
            \/ /\ setting.recent /\ created[f] = StartTime
               /\ \A j \in 1 .. Len(made[c]) : made[c][j] = StartTime

\* A viewer at the newest image of a category, shown or on its way, stays at
\* the newest image of one when others are reported, until the user takes it
\* away.  Lock Browse breaks this.
AtNewest(v) ==
    \E c \in Categories :
        NewestImage(c) # 0 /\ Newest(view[v]) = <<c, NewestImage(c)>>

ViewersFollow ==
    [][\A v \in DOMAIN view :
           ~setting.lock /\ AtNewest(v) => AtNewest(v)' \/ UserLoads(v)]_vars

\* Lock Browse, "Keep all images in the same iteration.": when the last load
\* under way is over, the viewers show images of the same iteration, unless
\* one has no such image.
AtRest == \A v \in DOMAIN view : view[v].loader = "none" /\ view[v].scheduled = NoFile

SameIteration ==
    [][\A v, w \in DOMAIN view :
           LET f == view[v].loading
               g == view'[w].shown
           IN  setting.lock /\ FinishLoadImage(v) /\ AtRest' /\ g # NoFile =>
                   g[2] = f[2] \/ file[<<g[1], f[2]>>] = "absent"]_vars

\* What the status tip of Auto Reload says, "Automatically loads the last image
\* created.": once a run is over, its last real space image is shown by the
\* viewer of these, unless the end of the process cut the image off.  Only said
\* of viewers the user leaves alone, files seen complete and a previous run that
\* ended in an earlier second.
LastOfRun(i) ==
    /\ "real" \in setting.views /\ setting.user = {} /\ ~setting.torn /\ ~setting.recent
    /\ check = "stopped" /\ file[<<"real", i>>] = "whole"
    /\ i < MaxImages => file[<<"real", i + 1>>] \in {"absent", "old"}

Shown(i) == "real" \in DOMAIN view /\ view["real"].shown = <<"real", i>>

LastImageShown == \A i \in 1 .. MaxImages : LastOfRun(i) ~> Shown(i)

\* The same without Lock Browse.  When every iteration is written and the run
\* is over before a poll finds one, the look of stop returns after the first
\* image, and that is the one shown.
LastLookedFor(i) == IF setting.every /\ atStop = 0 THEN 1 ELSE i

LastImageShownUnlocked ==
    \A i \in 1 .. MaxImages :
        LastOfRun(i) /\ ~setting.lock ~> Shown(LastLookedFor(i))
=============================================================================
