------------------------------ MODULE Displays ------------------------------
(***************************************************************************)
(* What the GUI shows of its runs beside what the image watcher finds: the *)
(* plot of the log (PlotDisplay, LogTailer) and the images of remote runs  *)
(* (RPCImageLoader, ImageDisplay).                                         *)
(*                                                                         *)
(* The log of a local run is a file, which uwrapc opens anew, over that of *)
(* the run before, when it logs for the first time, and again in every     *)
(* automatic round; LogTailer reads on in it whenever it changes.  The     *)
(* lines and images of a remote run come as calls, in order (CallQueue),   *)
(* from a client that is known by the address of its socket.  How a viewer *)
(* loads an image is left to OutputWatcher; where the loads of the other   *)
(* viewers (Lock Browse) and the user take it is not.                      *)
(***************************************************************************)
EXTENDS Integers, Sequences, FiniteSets, SequencesExt

CONSTANTS
    Dirs,       \* working directories: numbers
    Addresses,  \* where sockets are allocated: numbers
    MaxRuns,    \* bound on the runs started
    MaxLines,   \* lines logged, and images written, in a round
    MaxRounds,  \* bound on the automatic rounds of a run (1000 in the code)
    MaxWire,    \* bound on the calls under way before an iteration sends its own
    Settings    \* circumstances looked at, with a bound on the lines of all runs

ASSUME NumberAssumption ==
    Dirs \cup Addresses \subseteq Nat \ {0} /\ MaxRuns \in Nat /\ MaxLines \in Nat \ {0}

\* Whether Lock Browse is on, whether Auto Reload is, whether the user loads images.
ASSUME SettingsAssumption ==
    Settings \subseteq [lock : BOOLEAN, autoUpdate : BOOLEAN, user : BOOLEAN,
                        output : Nat]

Runs == 1 .. MaxRuns
Cwd == 0                \* the directory of the GUI itself
NoClient == 0
NoImage == <<>>
Files == (Dirs \cup {Cwd}) \X (1 .. MaxLines)
NoRun == 0
Unknown == -1

VARIABLES
    run,        \* of each run: kind, directory, whether it goes on, what it has logged
    wire,       \* calls of a remote run not received yet
    client,     \* address of its socket at the GUI
    listed,     \* runs with a key in m_keysRunning and m_clientKeyMap
    log,        \* uwrapc.log in the directories that have one
    tailer,     \* the LogTailer
    curves,     \* the plot has curves to append to
    plot,       \* the data in the plot
    workDir,    \* m_workDirectoryByClient
    notified,   \* m_notificationsByCategory: the last image of each client
    viewer,     \* newestFilename of the first viewer
    current,    \* history: the run the displays were reset for
    alone,      \* history: no call of another run could come since
    torn,       \* history: the log was opened anew behind the reader
    fresh,      \* history: the client of the current run has a new address
    written,    \* the images there are, and which run's
    left,       \* history: the viewer was taken elsewhere since a run or its images
                \* started
    setting,    \* one of Settings, for the whole session
    recovered   \* history: runs that have connected again

rpcVars == <<wire, client, listed, workDir, recovered>>
plotVars == <<tailer, curves, plot, torn>>
imageVars == <<notified, viewer, written, fresh, left, setting>>
vars == <<run, rpcVars, log, plotVars, imageVars, current, alone>>

NotStarted == [kind |-> "none", dir |-> Cwd, alive |-> FALSE, open |-> FALSE,
               round |-> 1, lines |-> 0]
NoTailer == [path |-> Cwd, calls |-> FALSE, timer |-> FALSE, watching |-> FALSE,
             changed |-> FALSE, open |-> FALSE, pos |-> 0]

Started == {r \in Runs : run[r].kind # "none"}
Remote(r) == run[r].kind = "remote"

\* Where the user lets a run work; directories not used before are all alike.
Choice == {d \in Dirs : \A e \in Dirs : e < d => \E r \in Runs : run[r].dir = e}

\* The next lines a run logs; the header comes with the first, and has n = 0.
NewLine(r, n) == [run |-> r, round |-> run[r].round, n |-> n, cut |-> FALSE]
NewLines(r) ==
    (IF run[r].lines = 0 THEN <<NewLine(r, 0)>> ELSE <<>>) \o <<NewLine(r, run[r].lines + 1)>>

Output == FoldSet(LAMBDA r, n : n + (run[r].round - 1) * MaxLines + run[r].lines, 0, Runs)
HasOutput(r) == run[r].alive /\ run[r].lines < MaxLines /\ Output < setting.output

Init ==
    /\ run = [r \in Runs |-> NotStarted]
    /\ wire = [r \in Runs |-> <<>>]
    /\ client = [r \in Runs |-> NoClient]
    /\ listed = {}
    /\ log = [d \in {} |-> <<>>]
    /\ tailer = NoTailer /\ curves = FALSE /\ plot = <<>>
    /\ workDir = [a \in Addresses |-> Cwd]
    /\ notified = [a \in Addresses |-> 0]
    /\ viewer = NoImage
    /\ current = NoRun /\ alone = FALSE /\ torn = FALSE /\ fresh = FALSE
    /\ written = {} /\ left = FALSE /\ setting \in Settings /\ recovered = {}

-----------------------------------------------------------------------------
(* The plot and its log file. *)

\* parseLine for each line, addHeader, addDataLine: data are for curves a header
\* has made.
Parse(shown, made, ls) ==
    LET read[i \in 0 .. Len(ls)] ==
            IF i = 0 THEN [made |-> made, shown |-> shown]
            ELSE IF ls[i].n = 0 THEN [read[i - 1] EXCEPT !.made = TRUE]
            ELSE IF read[i - 1].made THEN [read[i - 1] EXCEPT !.shown = Append(@, ls[i])]
            ELSE read[i - 1]
    IN curves' = read[Len(ls)].made /\ plot' = read[Len(ls)].shown

Put(d, content) == [k \in DOMAIN log \cup {d} |-> IF k = d THEN content ELSE log[k]]

\* inotify tells of a change to a file that is watched.
Touched(t, d) == IF t.watching /\ t.path = d THEN [t EXCEPT !.changed = TRUE] ELSE t

\* tailLogFile.
TailLogFile(d, calls) ==
    [NoTailer EXCEPT !.path = d, !.calls = calls,
                     !.watching = d \in DOMAIN log, !.timer = d \notin DOMAIN log]

\* tryAddingPath, of a file that exists by now.
TryAddingPath ==
    /\ tailer.timer /\ tailer.path \in DOMAIN log
    /\ tailer' = [tailer EXCEPT !.timer = FALSE, !.watching = TRUE]
    /\ UNCHANGED <<run, rpcVars, log, curves, plot, torn, imageVars, current, alone>>

\* Mutant: the reader starts again every time.
RewindUnread(t) == {log[t.path]}

\* Mutant: one line at a time.
LineUnread(t) ==
    {IF t.pos \in 0 .. Len(log[t.path]) - 1 THEN <<log[t.path][t.pos + 1]>> ELSE <<>>}

\* What is there to read from the position of the reader.  A file opened anew is
\* read from somewhere behind its header, maybe within a line.
Unread(t) ==
    LET content == log[t.path] IN
    IF t.pos # Unknown THEN {SubSeq(content, t.pos + 1, Len(content))}
    ELSE {<<>>} \cup UNION {LET rest == SubSeq(content, i, Len(content))
                            IN {rest, [rest EXCEPT ![1].cut = TRUE]} : i \in 2 .. Len(content)}

\* readLine, up to the end of the file.
ReadLine(t, shown, made) ==
    \E ls \in Unread(t) :
        /\ Parse(shown, made, ls)
        /\ tailer' = [t EXCEPT !.changed = FALSE, !.open = TRUE,
                               !.pos = IF @ # Unknown THEN @ + Len(ls)
                                       ELSE IF ls = <<>> THEN Unknown ELSE Len(log[t.path])]

FileChanged ==
    /\ tailer.changed
    /\ ReadLine(tailer, plot, curves)
    /\ UNCHANGED <<run, rpcVars, log, torn, imageVars, current, alone>>

\* loadUserSelectedLogFile: the calls of a remote run are not connected again.
LoadUserSelectedLogFile(d) ==
    /\ ReadLine(TailLogFile(d, FALSE), <<>>, FALSE)
    /\ torn' = FALSE /\ current' = NoRun
    /\ UNCHANGED <<run, rpcVars, log, imageVars, alone>>

-----------------------------------------------------------------------------
(* The runs. *)

\* startProcess with PlotDisplay::onProcessStarted.  The QProcess of the launch
\* before is deleted: a local run is killed, a remote one may be hung up later.
Start(k, d) ==
    /\ Cardinality(Started) < MaxRuns
    /\ LET r == Cardinality(Started) + 1 IN
       /\ run' = [q \in Runs |->
              IF q = r THEN [NotStarted EXCEPT !.kind = k, !.dir = d, !.alive = TRUE]
              ELSE [run[q] EXCEPT !.alive = @ /\ Remote(q)]]
       /\ current' = r
    /\ alone' = \A q \in Started :
          Remote(q) => ~run[q].alive /\ wire[q] = <<>> /\ client[q] = NoClient
    /\ tailer' = IF k = "local" THEN TailLogFile(d, TRUE) ELSE [NoTailer EXCEPT !.calls = TRUE]
    /\ curves' = FALSE /\ plot' = <<>> /\ torn' = FALSE /\ fresh' = FALSE
    /\ left' = FALSE
    /\ UNCHANGED <<rpcVars, log, notified, viewer, written, setting>>

\* output_to_log opens the log of the round.
OpenLog(r) ==
    LET d == run[r].dir
        behind == tailer.path = d /\ (tailer.pos # 0 \/ run[r].round > 1)
    IN /\ run[r].alive /\ ~Remote(r) /\ ~run[r].open
       /\ run' = [run EXCEPT ![r].open = TRUE]
       /\ log' = Put(d, <<>>)
       /\ tailer' = [Touched(tailer, d) EXCEPT
                        !.pos = IF tailer.path = d /\ @ # 0 THEN Unknown ELSE @]
       /\ torn' = (torn \/ behind)
       /\ UNCHANGED <<rpcVars, curves, plot, imageVars, current, alone>>

\* output_to_log, and the images of the iteration, which OutputWatcher may report.
WriteLine(r) ==
    LET d == run[r].dir IN
    /\ HasOutput(r) /\ run[r].open
    /\ run' = [run EXCEPT ![r].lines = @ + 1]
    /\ log' = [log EXCEPT ![d] = @ \o NewLines(r)]
    /\ tailer' = Touched(tailer, d)
    /\ written' = written \cup {<<r, d, run[r].lines + 1>>}
    /\ viewer' \in {viewer, <<d, run[r].lines + 1>>}
    /\ UNCHANGED <<rpcVars, curves, plot, torn, notified, fresh, left, setting, current, alone>>

\* complete_reconstruction ends and init_reconstruction starts the next.
NextRound(r) ==
    /\ run[r].alive /\ run[r].lines = MaxLines /\ run[r].round < MaxRounds
    /\ run' = [run EXCEPT ![r].open = FALSE, ![r].lines = 0, ![r].round = @ + 1]
    /\ UNCHANGED <<rpcVars, log, plotVars, imageVars, current, alone>>

\* uwrapc ends, or is hung up.
Ends(r) ==
    /\ run[r].alive
    /\ run' = [run EXCEPT ![r].alive = FALSE]
    /\ UNCHANGED <<rpcVars, log, plotVars, imageVars, current, alone>>

-----------------------------------------------------------------------------
(* The calls of remote runs. *)

\* Where a socket may be allocated; addresses not used before are all alike.
NotUsed(a) == workDir[a] = Cwd /\ notified[a] = 0
Free ==
    LET free == Addresses \ {client[r] : r \in Runs}
    IN {a \in free : \A b \in free : b < a => ~NotUsed(b)}

\* Mutant: the directory of an earlier client at the address is kept.
KeepingAddClient(a, d) == IF workDir[a] = Cwd THEN [workDir EXCEPT ![a] = d] ELSE workDir

\* addClient.
AddClient(a, d) == [workDir EXCEPT ![a] = d]

\* The peer connects and tells its key; handleRemoteClient: it is sent the
\* options as they are now.
HandleRemoteClient(r, a, d) ==
    /\ run[r].alive /\ Remote(r) /\ run[r].dir = Cwd /\ a \in Free
    /\ run' = [run EXCEPT ![r].dir = d]
    /\ client' = [client EXCEPT ![r] = a]
    /\ listed' = listed \cup {r}
    /\ workDir' = AddClient(a, d)
    /\ fresh' = IF r = current THEN notified[a] = 0 ELSE fresh
    /\ UNCHANGED <<wire, recovered, log, plotVars, notified, viewer, written, left, setting,
                   current, alone>>

\* sendLogLine, sendImageOutput.
SendOutput(r) ==
    /\ HasOutput(r) /\ client[r] # NoClient /\ Len(wire[r]) <= MaxWire
    /\ run' = [run EXCEPT ![r].lines = @ + 1]
    /\ wire' = [wire EXCEPT ![r] = @ \o NewLines(r) \o <<[image |-> run[r].lines + 1]>>]
    /\ UNCHANGED <<client, listed, workDir, recovered, log, plotVars, imageVars, current, alone>>

NextCall(r) == Head(wire[r])
Received(r) == wire' = [wire EXCEPT ![r] = Tail(@)]
Incoming(r) == client[r] # NoClient /\ wire[r] # <<>>

\* receiveLogLine: the line goes to a copy of the log and to the plot, whatever
\* run the plot is for.
ReceiveLogLine(r) ==
    LET d == workDir[client[r]] IN
    /\ Incoming(r) /\ "n" \in DOMAIN NextCall(r)
    /\ Received(r)
    /\ IF r \in listed
       THEN /\ log' = Put(d, (IF d \in DOMAIN log THEN log[d] ELSE <<>>) \o <<NextCall(r)>>)
            /\ tailer' = Touched(tailer, d)
            /\ IF tailer.calls THEN Parse(plot, curves, <<NextCall(r)>>)
               ELSE UNCHANGED <<curves, plot>>
       ELSE UNCHANGED <<log, tailer, curves, plot>>
    /\ UNCHANGED <<run, client, listed, workDir, recovered, torn, imageVars, current, alone>>

\* Mutant: the image is added to the list too early.
LateLast(a, n) == n

\* The image reported before this one.
LastNotified(a, n) == notified[a]

\* receiveImageOutput, loadInitialProcessOutput, updateLatestOutput: whether the
\* run is listed is not asked.
ReceiveImageOutput(r) ==
    LET a == client[r]
        d == workDir[a]
        n == NextCall(r).image
    IN /\ Incoming(r) /\ "image" \in DOMAIN NextCall(r)
       /\ Received(r)
       /\ written' = written \cup {<<r, d, n>>}
       /\ notified' = [notified EXCEPT ![a] = n]
       /\ viewer' = IF \/ notified[a] = 0
                       \/ setting.autoUpdate /\ viewer = <<d, LastNotified(a, n)>>
                    THEN <<d, n>> ELSE viewer
       /\ left' = (left /\ notified[a] # 0)
       /\ UNCHANGED <<run, client, listed, workDir, recovered, log, plotVars, fresh, setting,
                      current, alone>>

-----------------------------------------------------------------------------
(* What else takes the viewer to an image there is. *)
TakenTo(f) ==
    /\ f # viewer /\ \E w \in written : f = <<w[2], w[3]>>
    /\ viewer' = f /\ left' = TRUE
    /\ UNCHANGED <<run, rpcVars, log, plotVars, notified, written, fresh, setting, current, alone>>

\* onImageLoaded: another viewer has loaded an image of some iteration, and this
\* one loads the one of the category and directory it shows.
OnImageLoaded(f) == setting.lock /\ viewer # NoImage /\ TakenTo(f)

LoadUserSelectedImage(f) == setting.user /\ TakenTo(f)

-----------------------------------------------------------------------------
(* Lost connections. *)

\* The connection is lost, with calls on it, and the peer connects again; it does
\* not tell its key again.
Recover(r, a) ==
    /\ run[r].alive /\ client[r] # NoClient /\ r \notin recovered
    /\ a \in Free \cup {client[r]}
    /\ \E n \in 0 .. Len(wire[r]) : wire' = [wire EXCEPT ![r] = SubSeq(@, n + 1, Len(@))]
    /\ client' = [client EXCEPT ![r] = a]
    /\ listed' = listed \ {r} /\ recovered' = recovered \cup {r}
    /\ UNCHANGED <<run, workDir, log, plotVars, imageVars, current, alone>>

\* onClientDisconnected, cleanRemoteClient: the tables of RPCImageLoader stay.
ClientDisconnected(r) ==
    /\ ~run[r].alive /\ client[r] # NoClient /\ wire[r] = <<>>
    /\ client' = [client EXCEPT ![r] = NoClient]
    /\ listed' = listed \ {r}
    /\ UNCHANGED <<run, wire, workDir, recovered, log, plotVars, imageVars, current, alone>>

-----------------------------------------------------------------------------
Next ==
    \/ TryAddingPath \/ FileChanged
    \/ \E d \in Choice : Start("local", d)
    \/ \E d \in DOMAIN log : LoadUserSelectedLogFile(d)
    \/ Start("remote", Cwd)
    \/ \E f \in Files : OnImageLoaded(f) \/ LoadUserSelectedImage(f)
    \/ \E r \in Started :
           \/ OpenLog(r) \/ WriteLine(r) \/ NextRound(r) \/ Ends(r)
           \/ SendOutput(r) \/ ReceiveLogLine(r) \/ ReceiveImageOutput(r)
           \/ ClientDisconnected(r)
           \/ \E a \in Addresses : \/ Recover(r, a)
                                   \/ \E d \in Choice : HandleRemoteClient(r, a, d)

\* The GUI handles its events.
Spec == Init /\ [][Next]_vars /\ WF_vars(FileChanged)

-----------------------------------------------------------------------------
TypeOK ==
    /\ \A r \in Runs : /\ run[r].round \in 1 .. MaxRounds
                       /\ run[r].lines \in 0 .. MaxLines
                       /\ run[r].open => ~Remote(r)
    /\ client \in [Runs -> Addresses \cup {NoClient}]
    /\ listed \subseteq {r \in Runs : client[r] # NoClient}
    /\ DOMAIN log \subseteq Dirs /\ tailer.path \in Dirs \cup {Cwd}
    /\ workDir \in [Addresses -> Dirs \cup {Cwd}]
    /\ notified \in [Addresses -> 0 .. MaxLines]
    /\ viewer \in Files \cup {NoImage}
    /\ current \in {NoRun} \cup Runs /\ recovered \subseteq Runs

\* What the run has logged: all rounds but the last are complete.
Logged(r) ==
    [i \in 1 .. (run[r].round - 1) * MaxLines + run[r].lines |->
        [run |-> r, round |-> (i - 1) \div MaxLines + 1,
         n |-> ((i - 1) % MaxLines) + 1, cut |-> FALSE]]

Before(one, two) ==
    one.round < two.round \/ (one.round = two.round /\ one.n < two.n)

\* The plot shows the run it was cleared for and nothing else, whatever log lies
\* in its directory: its lines from the first on, each once and in order; after an
\* automatic round has opened the log anew some are missing.  Calls of an earlier
\* remote run that still come in would be mixed with them (LogTailer, PlotDisplay,
\* receiveLogLine).
PlotIsOfTheRun ==
    current # NoRun /\ alone =>
        /\ \A i \in DOMAIN plot : plot[i].run = current
        /\ \A i, j \in DOMAIN plot : i < j => Before(plot[i], plot[j])
        /\ ~torn => IsPrefix(plot, Logged(current))

\* Once it has noticed the log of a local run, the plot comes to show all of it
\* (readLine reads to the end); a log that is complete when it is found is not
\* noticed.
LogShown ==
    \A r \in Runs :
        current = r /\ alone /\ ~torn /\ tailer.open /\ ~Remote(r) /\ ~run[r].alive
            ~> (plot = Logged(r) \/ current # r)

\* The images of a remote run are written in its working directory, also when
\* its socket has the address of an earlier one; those of a run that has
\* connected again may go anywhere (receiveImageOutput, addClient).
ImagesInWorkDir ==
    \A w \in written : w[2] = run[w[1]].dir \/ w[1] \in recovered

\* With Auto Reload on, the viewer is at the last image of a remote run from the
\* first one on, until Lock Browse, which is on at the start, or the user takes it
\* to another image; it may then never come back.  Not so if the client has the
\* address of an earlier one (receiveImageOutput, updateLatestOutput).
RemoteViewerFollows ==
    current # NoRun /\ alone /\ fresh /\ client[current] # NoClient
        /\ current \notin recovered /\ notified[client[current]] # 0
        /\ setting.autoUpdate /\ ~left
    => viewer = <<run[current].dir, notified[client[current]]>>
=============================================================================
