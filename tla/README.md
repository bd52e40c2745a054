# A TLA+ model of Hawk

Hawk reconstructs objects from X-ray diffraction patterns by iterative phase
retrieval. This directory models the parts of it that are concurrent, long
running or remote, checks them with TLC on small instances and proves what
matters most with TLAPS. Paths below are relative to the repository's `src/`
unless they start with `include/` or `doc/`.

## 1. Inventory

| Component | State | Operations | What is hard |
|---|---|---|---|
| **uwrapc, the reconstruction** (`uwrapc.c`, `log.c`, `algorithms.c`, `support.c`) | options, iteration counter, running averages, log file, support, images | start, the libspimage loop (several iterations a round), the legacy loop (one at a time), support update, log line, image output, up to 1000 automatic runs | two periods in one loop, a limit changed by another thread, state that survives from one run to the next, averages over a ring |
| **Remote process** (`rpcpeer.cpp`, `uwrapcpeerthread.cpp`, `network_communication.cpp`, `io_utils.c`) | socket, reconnection timer, worker thread, queued signals | connect, identify, lose and recover the connection, receive options, start, stop, quit, send log lines, messages and images | two threads, a blocking wait in the event loop, lost links, time-outs |
| **GUI process control** (`HawkGUI/processcontrol.cpp`, `HawkGUI/rpcserver.cpp`, the Run action of `HawkGUI/hawkgui.cpp`) | keys waiting and running, client-to-key map, the process last launched, the Run button | launch (locally or over ssh), stop, receive a key, send options, start, dismiss a peer, forget a client, show a message | modal boxes with nested event loops, clients that come and go, signals that call back into the stop handler |
| **Output watcher and image display** (`HawkGUI/outputwatcher.cpp`, `imagecategory.cpp`, `imagedisplay.cpp`, `imageview.cpp`, `imageloader.cpp`) | newest file of each category; the image each viewer shows, loads and has scheduled | poll the directory, report, schedule, load, retry | a writer in another process, half-written files, loads in threads |
| **RPC transport** (`qxt/`: QxtRPCService, QxtRPCPeer, the serializer, the TCP connection manager) | sockets, one buffer per client at the server, one buffer for all connections of a peer, handlers on the stack | connect, accept, write a call, read bytes, take calls from the buffer, dispatch, disconnect | calls cut anywhere, slots that spin event loops while their connection goes, a buffer that outlives its connection |
| **Remote images** (`HawkGUI/rpcimageloader.cpp`) | work directory and last image of each client, by the address of its socket | add a client, receive an image, report it | addresses used again, clients that are not known |
| **Log tailer and plots** (`HawkGUI/logtailer.cpp`, `plotdisplay.cpp`) | path, read position, watch and timer, curves, data | find, watch, read, parse, plot | a file opened anew by the next run or the next automatic run, lines of other runs |
| **Options** (`configuration.c`, `metadata.c`, `HawkGUI/optionstree.cpp`, `treedelegate.cpp`) | `global_options`, the table of 142 entries, the texts of the tree | edit, reset one or all, save, load, send, read | old and new entries for one value, choices known by value, place or name, texts read back into values |
| **Evolution maps** (`configuration.c`, `mapeditordialog.cpp`), **support level** (`support.c`) | maps of values over iterations, the last level | interpolate, edit; pick the pixels above a level | floating point boundaries |
| **Image stream** (`imagestream.cpp`) | none | write, read an image | widths and sizes |
| **Communicator, decoder, sender** (`communicator.cpp`, `decoder.cpp`, `sender.cpp`, `client_decoder.cpp`) | clients, partial messages | the protocol before LibQxt | compiled, but nothing creates a Communicator |
| **Image editor and stitcher, launch dialog** (`HawkGUI/image*.cpp`, `stitcher*.cpp`, `editor*.cpp`, `remotelaunchdialog.cpp`) | widgets | interactive | none a model would reach |
| **Preprocessing, post-processing, tools** (`process_image.c`, `post_process.c`, `xcam.c`, `math_parser.c`, `utils/`) | none between calls | sequential image operations | numerics |
| **Vendored** (`libconfig/`, the rest of `qxt/`), **not built** (`Look/`, `Hawk/`, `Preview/`, most of `saddle/`, `restore_image.c`, `mpi_comm.c`) | | | |

How they interact. The Run button makes ProcessControl start a local `hawk
uwrapc` (a QProcess) or an ssh that runs `uwrapc host port key` remotely. A
remote uwrapc connects to RPCServer over LibQxt RPC and sends its key;
ProcessControl moves the key from `m_keysToStart` to `m_keysRunning`, and
RPCServer sends the options, which the option tree edits, and the start. The
worker thread of the peer runs `uwrapc_start`; its log lines, messages and images are queued to the peer's
main thread and sent to the server. At the end the peer reports
`reconstructionStopped`, the server answers `quit`, the peer leaves, and the
server forgets the client after announcing it. A stop sets `max_iterations` to
1 under the feet of the loop. A local run is watched through the files it
writes (OutputWatcher, LogTailer); the images of a remote run are written by
RPCImageLoader and its log lines appended to a copy of the log and to the plot.

What makes them correct: a run is listed, started and forgotten once, whatever
the network, the user and the message boxes do; a stop reaches a peer that can
handle it and ends its run; nothing is started or reconfigured while a worker
runs; the log is complete when the peer is dismissed; no image or log line is
skipped or misnamed; limits and tolerances are honoured; a run works with what
the option tree shows, its plot and its viewer show this run and no other, and
the transport loses, splits or repeats no call of a connection that holds.

## 2. Plan

| Order | Modules | Composes | Checks and theorems | State |
|---|---|---|---|---|
| 1 | `RPCLink`, `RPCPeer`, `ProcessControl`, `RemoteRun`, `RunLifecycle` | GUI, link and peers | safety, refinement of `RunLifecycle`, recovery, liveness | done |
| 2 | `RemoteRun_proofs`, `Protocol_proofs`, `Log_proofs` | | types, keys and clients, the Run button, the order of the calls, the refinement, the log lines | done |
| 3 | `Reconstruction`, `Reconstruction_proofs` | uwrapc loops, log, stop request | safety, liveness, a divergence from the docs; images and log lines on time, overrun, averaging; the running average and the switch of algorithm | done |
| 4 | `OutputWatcher`, `OutputWatcher_proofs` | writer of images, poller, viewers | every image reported once and in order, the last one shown; what failed loads, late companions and Lock Browse do; viewers follow and agree | done, but for two runs at a time |
| 5 | `OptionsTable`, `Options`, `Options_proofs` | option table, tree, files, launch | what is set, shown, saved and sent agree | done |
| 6 | `CallQueue`, `Transport`, `Transport_proofs` | sockets, buffers, handlers | refinement of `CallQueue`, no call from a client that is gone | done |
| 7 | `Displays`, `Displays_proofs` | runs, log tailer, plot, remote images, viewer | plot and viewer belong to their run | done |
| 8 | `Evolution`, `SupportLevel`, `ImageStream` | pure algorithms | reference definitions over bounded inputs | not planned further: see 6 |

## 3. Modules

### Remote runs

`RPCLink` is LibQxt over TCP: one FIFO of calls in each direction of a
connection. `Break` lets a prefix of what is under way arrive and drops the
rest; `Close` is the kernel closing the socket of a process that ended.
Calls to a client that is not connected are skipped and a call without a
client goes to all of them, as in `qxt/qxtrpcservice.cpp`.

`RPCPeer` has one action per slot of `RPCPeer`, and one per step of the
worker. `thread` is `m_thread` with "none" while it is uninitialised; `waiting`
is the main thread inside `m_thread->wait()`; `events` are the signals the
worker emitted and the main thread has not delivered. `PeerDies` stands for a
crash, a fatal error and the hangup that follows a killed ssh.

`ProcessControl` has one action per user action, call or signal handled in the
GUI thread. A message box is an element of the stack `dialogs`: the handler is
split where it opens, every other action can happen while it is up, and only the
innermost one can be dismissed. `QAction::setChecked(false)` calls `stopProcess`
through `toggled`, so `ProcessFinished` contains it. `processType` starts with
any value because the code does not initialise it. Deleting a QProcess that is
still running is part of the launch (`ReplaceProcess`).

`RemoteRun` composes the three; `RunLifecycle` is the abstract promise it
implements (`ImplementsLifecycle`).

### Reconstruction

`Reconstruction` follows `uwrapc_start`, the loop of `init_reconstruction`
and both loops. `pc` is where the loop is, `cur` the iteration. Images are
known by the iteration in their name and the log by the steps of its lines.
`Stop` is `RPCPeer::stopReconstruction` in the main thread, possible at any
moment. The errors and the support sizes a log line reports are arbitrary
members of small sets, so every decision they drive (tolerance, switch of
algorithm, REAL_ERROR_CAPPED) is taken in both ways. `average` is a fraction,
so that its sign changes are exact. `real_in` is "freed" between the update of
the support and the next iteration; freeing it again is undefined behaviour,
and `DoubleFree` is the outcome where the C library aborts.

### Output watcher

`OutputWatcher` is a local run seen through its files. `WriteFile` is uwrapc
writing real space, support and Fourier space image of an iteration in that
order; with `torn` a file can be seen before it is complete. Files a previous
run left are "old" until they are overwritten; the code does not know which they are and
compares times of one-second resolution (`created`, against `startTime`), and so does
the model: `clock` is the second in which the run starts or a later one, and with
`recent` the previous run made its last files in that second, so that they are valid
(`ValidFile`) and only give way to newer ones (`Accepted`). `created` is what Qt 4 gives on
Unix, the time of the last change of the inode, so a file that is overwritten is made again. An image is known by its category
and its number: `Reconstruction` shows that names go up by `output_period` from
the first one, as `incrementFilename` expects. `checkForNewFiles` runs in the
GUI thread, so `check` keeps every other GUI step out while it goes from one
file to the next, whereas uwrapc and the loader threads go on. `ProcessFile`
includes the two signals and what their slots do to the viewers (`Show`).
`AtBase` is the early return of its loop: with `output_period` 1 (`every`) the name from which the first
image is looked for is its own, so that the look that reports it ends there.
`reported` is the history of `newOutput`; its last elements are `newestFiles`, and `made` their
times.
A viewer has the fields of `ImageView` (`filename`, `currentlyLoading`,
`scheduledImage`) and the state of its `loader`; "stuck" is what `finishLoadImage`
leaves when the image could not be read. `OnImageLoaded` is what Lock Browse,
which is on by default, makes the other viewers do when one has finished a load;
`setting` is what does
not change during a run: the viewers there are, whether files are seen half
written, what the user may load, Lock Browse, whether every iteration is written, and how
close the previous run is.

### Options

`OptionsTable` is `variable_metadata` entry by entry, with the lists of values,
the dependencies between options and `set_defaults`. Entries are known by their
index, as the order of the table matters: the deprecated entries of older versions
share the address of the option that took their place. Real numbers are in
hundredths; maps are opaque, so the digits of the numbers in them are never cut.

`Options` is the GUI around it. `options` is `global_options`; `items` the text
the tree shows for each entry, `combo` the level it shows, `saved` the file last
saved. `Display` turns a value into a text and `Meaning` a text into a value, as
`treedelegate.cpp` does it, by value, by name or by place in the list. `QString::number` leaves
a real number six digits in the tree (`Six`) and `%e` seven in a file (`Seven`): closing the editor of a
number with more, or resetting it, stores the six in the option (`Closed`). `Texts`
is what each editor may leave in its item, also when it is closed without a
choice. `status` becomes "fatal" when `hawk_fatal` is called and "crashed" where
the tool tip runs past the end of a list. Names of actions are those of
`OptionsTree`. `uwrapc_from_file` and `receiveOptions` are what a local and a remote
program make of the file they are sent. `scope` and `edits` are bounds.

### RPC transport

`CallQueue` is what a channel (one direction of a connection) promises: calls
arrive whole, once and in order until it breaks. `RPCLink` has this shape.

`Transport` is LibQxt byte by byte. A byte knows its channel, its call and its
place in the frame, so bytes that do not belong together can be told; what the
code makes of these (a wrong length, a slot with wrong arguments, a blank command)
is any outcome it can have. `ReadyRead` appends what was read to a buffer, `Dispatch`
takes one frame and runs its slot, `Return` ends the handler. `stack` holds the
handlers that have not returned, with `spinning` for a nested event loop, in which every
other step may come, the loss of the connection being read included. `hung` are
nodes caught in `canDeserialize`, which reads four bytes of a buffer with one or
two. `caller` is the side that makes calls in a behaviour: both directions at once
add states and no step, as they share only the connection. `Transport` implements
`CallQueue` on `FreshChannels`, those whose receiver starts with an empty buffer;
`serverBuffer` outlives its connection, so the later connections of a peer are not
among them. `RemoteRun` gives `RPCLink` to recovered connections all the same:
what it shows of these holds when the link did not break within a frame.

### Displays

`Displays` has the GUI's view of several runs: local ones, whose log is a file,
and remote ones, whose lines and images are calls. `run` says what each is, where it works
and how far its log has come; `NextRound` is the next automatic run, which opens the
log anew. `tailer` is the LogTailer: `timer` the search for a file that does not
exist yet, `changed` a pending notification, `pos` the position of the reader, which
is `Unknown` once the file was opened anew behind it (it may then stand within a
line). `workDir` and `notified` are the tables of RPCImageLoader, keyed by the
address of a socket, which is allocated again once a client has gone. `Start` is
`startProcess` with `PlotDisplay::onProcessStarted`; `OnImageLoaded` and
`LoadUserSelectedImage` take the viewer to some other image there is, because another viewer
has loaded one of that iteration (Lock Browse, on by default) or the user wants it; `Recover` a peer that connects
again and is not identified. `current`, `alone`, `torn`, `fresh`, `left` and
`recovered` are histories the properties speak of. Directories and addresses not
used before are interchangeable, so the lowest is taken (`Choice`, `Free`).

## 4. Runs

| Run | Instance | What it shows |
|---|---|---|
| `remote_safety` | 2 remote runs, 2 fresh keys, 1 connection each, symmetric | `RunningKeyHasClient`, `StartedOnce`, `OptionsBeforeWorker`, `StopAfterStart`, `QuitAfterWorker`, `LogComplete`, `ButtonHonest` in every interleaving; `RemoteRun` implements `RunLifecycle` (`ImplementsLifecycle`) |
| `remote_links` | 1 run, 1 key, 3 connections, local runs too, launches and options that fail | `SafeAfterRecovery` and `RecoveredPeerAnonymous` say what is left after a link is lost and recovered, `OnlyFailedLaunchMisleads` what makes the Run button lie; `StopTerminates`, `FinishedPeerQuits`, `DeadRunForgotten` |
| `remote_keys` | 2 runs, repeated `qrand()` values | `KeysUnique` **violated**: two running runs get one key (`processcontrol.cpp` 47) |
| `reconstruction_loops` | libspimage loop: all pairs of periods up to 4, four limits, both modes; legacy loop: periods up to 3, averaging, support updates, tolerance; 2 automatic runs | images and log lines on time (`OutputOnTime`), overrun below one round (`BoundedOverrun`), `RunningAverageExact`, `AverageWindow`, `SwitchIsBlind`, `StopsAtTolerance` where the legacy loop runs, `StopEndsReconstruction` |
| `reconstruction_tolerance` | tolerance above the error | `StopsAtTolerance` **violated**: the libspimage loop goes on (`uwrapc.c` 279, `metadata.c` 1685) |
| `watcher` | 2 images of 3 categories; two viewers with and without Lock Browse and with torn files, one viewer and a user who loads images, every iteration written, or a previous run that ended in the same second | `ReportedInOrder`, `NothingStale`, `ViewersFollow`; `LastImageShownUnlocked` without Lock Browse, `SameIteration` with it |
| `watcher_locked` | 2 images, complete files, 2 viewers, Lock Browse | `LastImageShown` **violated**: an old support image that loads late takes the real space viewer back for good (`imagedisplay.cpp` 343) |
| `options` | all 142 entries: any one change, or two of 8 options of each kind; 4 old files; a real number of eight digits | `ItemsTellOptions`, `OnlyBadListsAreFatal`, `RunsWithWhatIsSet`, `SavedComesBack` |
| `options_reset` | the same | `ResetAllResets` **violated**: `set_defaults` leaves out four options (`configuration.c` 78) |
| `transport` | 1 peer, 2 connections, 2 calls with bodies of 1 and 2 bytes, one of which spins an event loop | `ImplementsCalls` (refinement of `CallQueue`), `NothingFromTheGone`, `CallsGetThrough` |
| `transport_recovery` | the same | `PeersGetWhatWasSent` **violated**: half a call stays in `serverBuffer` over a reconnection (`qxtrpcservice.cpp` 222) |
| `displays` | 2 runs, 2 directories, 2 addresses, 2 automatic rounds of 2 lines; Lock Browse and the user off with 3 lines in all, on with 2, Auto Reload off with 2 | `PlotIsOfTheRun`, `ImagesInWorkDir`, `RemoteViewerFollows`, `LogShown` |

Definitions commented as mutants are what `PROJECT.json` replaces a definition by to
see that a property depends on it; no specification uses them.

Bounds. `MaxConns`: connections a peer opens; 3 include a second recovery,
after which nothing new can happen. `MaxOutput` of `RemoteRun`: signals of a worker
between its start and end; one of each kind can be overtaken. `MaxPending` only
keeps local launches from filling a link. Two runs are the fewest that can be
confused; keys and runs are symmetric. In `Reconstruction`, `RunAvgLen` (500 in
the code) is 2 and `MaxRuns` (1000) 2, so that the ring wraps and a run
follows another; `MaxCur` bounds runs nobody stops and exceeds twice the
longest period; periods to 4 include coprime, dividing and equal pairs. In
`OutputWatcher`, the last of `MaxImages` images has one before it: the watcher
only ever compares an image with the one before. Two viewers suffice: one that
is ahead and one that is behind. Of seconds there are those before the start, that of the start
and all later ones, as only these are told apart by it. In `Options` entries share nothing but their
address, so one change of any entry, and two of one entry of each kind, meet every
pair of steps that can disturb each other. In `Transport` two calls are what can be
taken for one or be cut at their border, and a body of one byte can be shorter
than a misread length; `MaxConns` 2 has one connection after a loss. In
`Displays` `MaxRounds` 2 has a log opened anew within a run and `MaxRuns` 2 one opened anew
by another; 3 lines in all let a run that wrote a whole round go on or be followed, and
2 are what a viewer needs to be taken back;
`MaxWire` 0 means an iteration sends its calls when those of the one before have
arrived, which still leaves a line and an image under way.

Deadlock is not checked: users may stop, links stay down and programs end.

Fairness. In `RemoteRun` event loops turn (`PeerProgress`, `ServerProgress`) and
the user closes message boxes (`Dismiss`). In `Reconstruction` the worker's
loop goes on (`WF_vars(Step)`). Nothing obliges the user to press Run or stop, the network
to work, a peer to connect, or a broken link to be noticed (no keepalive is
set); `StopTerminates` and `FinishedPeerQuits` therefore except runs whose link
broke. In `OutputWatcher` timers, signals and loader threads are not starved;
timers and signals get strong fairness because a poll, which the timer of the
poller starts again and again, disables them for as long as it runs. Nothing
obliges uwrapc to write or to end. In `Transport` handlers go on and nested event
loops end; a socket with something to read is read, and a connection accepted,
with strong fairness because event loops are entered and left in between.
`CallsGetThrough` excepts links that break and nodes that hang. In
`Displays` a change that was noticed is handled (`WF_vars(FileChanged)`);
the search for a log file needs none, as `LogShown` only speaks of logs that
were noticed.

## 5. Proofs

All theorems hold for any sets and bounds the named assumptions allow.

`RemoteRun_proofs`:

* `TypeCorrect`: `Spec => []TypeOK`, one lemma for the initial state and one
  case per action.
* `RunningKeysHaveClients`: `Spec => []RunningKeyHasClient`. Alone it is not
  inductive: dismissing the "finished" box of a client removes its map entry, and
  the invariant must know that the key removed from `m_keysRunning` is the one
  of that client, also when a repeated random key makes two clients share it.
  `ClientIInv` adds that every client is known by the key of its own peer.
  The proof has one lemma per kind of step: those that
  leave the lists alone, launches, dismissals, identifications, disconnections.
  It does not need keys to be fresh.
* `OnlyLaunchMisleads`: of all steps only a local launch that fails takes
  `ButtonHonest` away. `ButtonStaysHonest`: when no launch fails it holds for ever.

`Protocol_proofs` does: it assumes `FreshKeys`, without which `remote_keys` refutes
`KeysUnique` and what follows from it. `ServiceInv` is built in three layers.
`KeysInv`: a key belongs to one run and is waiting or listed, not both. `Identified`:
it is sent once, on the first connection, while its run waits; a client is known
there only. `CallInv`: so options, start and stop are only under way on that
connection, in this order and each at its time, and the end of a run is only
reported once its worker has ended. From it `KeysStayUnique`, `StartsOnce`,
`OptionsComeFirst`, `StopsFollowStarts`, `QuitsAfterWork` and `RecoveredPeersAnonymous`.

Its last section is `RunsImplementLifecycle`, the refinement of `RunLifecycle`. Every
step moves at most one run by one stage, or its worker by one, and leaves the others
(`ListingMoves`, `WorkMoves`, `NothingMoves`); that the worker only starts in a
listed run comes from `ServiceInv`.

`Log_proofs`, on top of `ServiceInv`: `LogArrives` (`LogComplete`) and
`SafeWhateverBreaks` (`SafeAfterRecovery`). `LogComplete` says nothing of lines under
way, so `LogInv` counts the lines of a run where they are: queued between the worker's
thread and the peer, on the link, or with the server; on the first connection, while
it lasts, they add up to what the worker wrote, and none is behind the report of the
end (`LinesInOrder`). No line is refused either: a run stays listed while its client is open, because a
"finished" box is only ever about a client that has gone (`BoxesOfGone`, `OpenListed`), and
a link that is up is that of the peer's current socket (`Sockets`). Lemmas on the lines
in a sequence that grows or shrinks come first. Its last sections are about how runs
end. `EndsAreUnderWay`: a stopped peer has a worker left to end or has ended, and
once the worker has, until the peer exits or loses its link, the end is in exactly the places one
would look for it: queued to the peer, reported to the server, or answered by a quit
(`EndFlow`). `ListedRunsAreRemembered`: a run stays listed while its first connection is open
at the server or its "finished" box is on the screen, so there is always something left that takes it off the list.

`Reconstruction_proofs`:

* `WritesOnTime` (`OutputOnTime`), `NoOverrun` (`BoundedOverrun`)
  and `WholeWindow` (`AverageWindow`). Lemmas on quotients and remainders say where
  a period stands after n more iterations; `Written` says that the numbers of images
  and lines are the periods done in every state of both loops, `Within` bounds the iteration by
  the limit and the round, `Window` ties the images summed up to the place in the inner loop.
* `AverageOfTheNewest` (`RunningAverageExact`). `Lined` says which number each line
  carries: line k has number k in the clean loop, k - 1 in the legacy one, and k - 2
  with a log period of 1, whose first two lines are both 0; so the newest
  `RunAvgLen` lines never share a place of the ring (`OwnPlace`), and those that
  are there have stayed (`Placed`, `LineKept`). Over a full ring the sum of the places is
  that of the lines (`RingSum`): a sum does not depend on what its terms are
  called (`SumRenamed`). What the sum of the community modules computes is shown in
  the section on sums.
* `SwitchIgnoresData` (`SwitchIsBlind`) from `Switching`: while the lines are
  numbered 0 the average is the empty one and the algorithm HIO; the line
  numbered 1 is the first whose average has a term, and a size is never 0.
* `TypeCorrect` (`TypeOK`), the ring, the average and the number of runs included.
* `StopWindsDown`: after a stop every step of either loop lowers `StepsLeft`, a natural
  number made of the runs left and the place in the program. It rests on `Stops`: the
  limit is 1 from the stop on, whatever the automatic mode would have set it to.

The sums need an induction over finite sets. The induction theorems of the library
take an operator, which the provers cannot instantiate, so `Induct` states it for a
*set* of numbers, from the least element of a set of naturals (`NatLessThanWellFounded`
and `WFMin`, which take none); each use is a set `T` of the numbers up to which something holds.

`OutputWatcher_proofs`:

* `ReportsInOrder`: `Spec => []ReportedInOrder`. The inductive `ReportInv` says
  besides that real space image number i is the i-th reported, and that while
  `checkForNewFiles` looks for companions, the categories it has still to look at
  are behind the real space image: this is what keeps it from reporting one of
  them twice.
* `NeverStale`: `Spec => []NothingStale`. It does not say that only images of this run are
  reported, which is not so: a file the previous run made in the second of the start is valid.
  It says that such a file is only reported while no later second was seen in its category,
  from `KeptTimes`: the times of what was reported do not decrease, and a file is never made in
  an earlier second than the one noted for it.
* `ViewersKeepUp` (`ViewersFollow`) and `LockedViewersAgree` (`SameIteration`), two
  action properties: `ViewType` says that a viewer that is loading loads a file,
  and `Shows` and `Finishes` what a report and the end of a load do to each viewer.
* `LastImageIsNotMissed`: once the watcher has stopped, nobody locks the viewers and the
  first one is left alone, its newest image is the last real one, its loader has not yet
  begun, is at work on it or has ended, and at rest it shows it. When every iteration is
  written and nothing was reported before `stop`, that image is the first one, because of the
  early return: a run shorter than a poll then never shows its last image. Files of the same
  second and files seen half written are left out.
* `TypeCorrect` (`TypeOK`).

`Transport_proofs`: `TypeCorrect`; `GoneStayGone` (`NothingFromTheGone`): a client
that is gone has no buffer, and a handler looks for the buffer before it takes a call;
and `TransportIsQueue` (`ImplementsCalls`), the refinement of `CallQueue` by the calls
to a server and over a peer's first connection. Its
invariant is `TransportInv`. `FlowInv` says where the bytes of a channel stand: those in the
buffer, followed by those in the socket, are the frames of the calls sent and
not yet taken, one after the other, the last of them cut short only where the link broke (`Layout`).
So the calls with all their bytes there are the queue of `CallQueue`, and every
step of a socket, a handler or a nested event loop leaves it alone, adds one call at its
end, takes one from its front, or loses an end of it (`EveryChannelQueues`,
`QueueMoves`). `StackInv` is about the handlers that event loops spun by slots have left
waiting, `DeviceInv` and `LossInv` about connections made anew. A peer that has connected again goes on
with the buffer of the connection before, so its first channel is `Settled`: `RestInv`
says that no whole call is left there, and nothing is delivered on it any more
(`SettlingRests`). The lemmas on layouts are about calls of any length, cut anywhere.
`NoCallLeftBehind` goes on from `TransportInv`: handlers only return when there is no whole
call left (`ReturnTakesAll`), and nothing else adds to a buffer (`ServerRest`), so when
all bytes of a channel have been read and it is not being read, no call is left on it.

`Displays_proofs`: `ImagesGoToTheirRun` (`ImagesInWorkDir`) from `Placed`: runs are
numbered in the order of their start, sockets that are open at the same time have different addresses, and
the directory entered for an address is that of the run whose socket is there, unless
it connected again. `ViewerFollowsItsRun` (`RemoteViewerFollows`) from `Follows`:
while the displays are those of one run `alone`, no other goes on or has a
client, so nothing moves the viewer but its images, with Auto Reload on, and what sets `left`: Lock
Browse and the user. Both are excepted, as Lock Browse may take the viewer back for good, as in
`watcher_locked`. `PlotShowsItsRun` (`PlotIsOfTheRun`), under the
same condition, from `PlotInv`, which has one part for each source of the plot. A
local run (`OfFile`): its log is the lines of one round, `File`, and the
plot is what was read of it up to the position of the reader, or, once the log was opened
anew behind it, some rounds with gaps. A remote run (`OfCalls`): all it has
logged has a number, `Nth`, the plot shows lines 1 to k, and the calls under way are
those from k + 1 on, each once and in order (`Counted`), behind a header that
makes the curves; a run that connected again adds nothing, because it is no longer
`listed` (`Tabled`). `MaxLines` is at least 1 there, as a round that logs nothing has
no file to open anew. Lemmas on what a reader parses (`ParsesAll`) use the
set-based `Induct` again. `PlotMissesNothing` goes on from there: when none of these
calls is under way, and no change of a local log that was noticed is left to handle, the plot
is all the run has logged.

`Options_proofs`: `TypeCorrect`, `TreeTellsTruth` (`ItemsTellOptions`),
`WellListedIsWritten` (`OnlyBadListsAreFatal`), `LaunchedAsSet` (`RunsWithWhatIsSet`)
and `SavedIsRestored` (`SavedComesBack`), for any old files, numbers typed, files chosen and number of changes of
any options. The table is never expanded: what the proofs use of it are the
assumptions at the end of `Options`, which TLC evaluates on all 142 entries (an option is shown by
one entry; a list names each of its values once; an older entry of an option holds what the
one that is shown can hold; defaults fit). Alone `ItemsTellOptions` is not inductive: an
editor that is closed keeps what its item shows, so a well listed choice must be shown by one of its names (`AllNamed`); a
number that is read, typed or reset must have a decimal text that is read back
(`AllFit`); and the file saved must hold names and numbers only
(`SavedHolds`). An item agrees with its option when it has the value or its six digits; that
digits are not cut twice is `RoundedOnce`. `LaunchedAsSet` needs no invariant: what is written of options, whatever they are, is read
back as it was (`WrittenComesBack`).

Only model-checked: liveness, as the prover has no rule for fairness and ENABLED. Where
a temporal property rests on an invariant, that is proved: `PlotMissesNothing` for
`LogShown`, `LastImageIsNotMissed` for `LastImageShownUnlocked`, `StopWindsDown` for
`StopEndsReconstruction`, `EndsAreUnderWay` for `FinishedPeerQuits` and
`StopTerminates`, `ListedRunsAreRemembered` for `DeadRunForgotten`, `NoCallLeftBehind`
for `CallsGetThrough`. They say that
nothing is lost on the way; that the steps left to take are taken is what the runs
show.

## 6. What is not modelled

* Image data and floating point arithmetic: the projections, blurring, preprocessing,
  post-processing, and with them `get_support_level`, which picks a level so that
  so many pixels of an image are above it, and the interpolation of values that evolve. Its
  boundaries are those of floating point comparison. A static flag of `support.c` (273)
  survives into the next automatic run; what it decides is a level.
* `genetic_optimization`, which makes `init_reconstruction` do nothing, and
  `error_reduction_iterations_in_support_update` and the phase smoothing, which
  may write log lines of their own.
* Working directories of automatic runs: `chdir` (`uwrapc.c` 848) to directories
  nobody creates fails, so each run overwrites the files of the one before.
  `Displays` has the log opened anew for this reason; `OutputWatcher` has one round.
* The second `free` of `real_in` (`uwrapc.c` 469) is an action, `DoubleFree`,
  that no property forbids: what it does is up to the C library.
* A disconnection that Qt delivers inside the event loop of that client's own message box, or before
  the calls it sent are handled: `OnClientDisconnected` waits for both. The `get_algorithm` of the
  log line itself (`log.c` 308), which may change the algorithm once more.
* Of the watcher: Auto Reload switched off (it is on at the start, `hawkgui.cpp` 202; `Displays` has
  both), a clock that is set back, a run next to another (the end of either stops the only
  watcher, `imagedisplay.cpp` 119), runs launched remotely (their watcher never
  polls, `outputwatcher.cpp` 121), the browsing of files already reported. An incomplete
  file is taken to be unreadable, as HDF5 reports it.
* RPCServer's search for a port (`rpcserver.cpp` 11), which never gives up: its
  only state is the port being tried. Images a peer asks its server for (`loadImageFromFile`).
* Of the options: the command line, libconfig's syntax, the editor of maps, the
  editing of strings character by character, the values that evolve between checkpoints.
* Of the plot: sampling, zoom and colours. Of LibQxt: the attaching of signals
  and slots and the encoding of arguments.
* `imagestream.cpp` writes and reads fields one after the other and keeps no state.
  `communicator.cpp` and its decoders are never instantiated. The image editor, the
  stitcher and the remote launch dialog are widgets over pixels and QSettings; the
  tools of `utils/` are sequential programs on files.
* Periods of 0, for which the code divides by zero; an empty support.
* What Qt guarantees is assumed: order of queued signals, modality of boxes,
  no second read of a socket whose handler is still on the stack. SIGTERM is
  taken to end a local uwrapc.
