------------------------------ MODULE RPCPeer ------------------------------
(***************************************************************************)
(* The remote uwrapc process: RPCPeer (the Qt main thread, which talks to  *)
(* the server) and UwrapcPeerThread (the worker, which reconstructs).      *)
(*                                                                         *)
(* The worker emits its signals from its own thread, so Qt queues them as  *)
(* events for the main thread, which writes them to the socket when its    *)
(* event loop gets to them.  RPCPeer::stopReconstruction blocks that loop  *)
(* until the worker has ended.                                             *)
(***************************************************************************)
EXTENDS RPCLink

CONSTANTS
    MaxOutput   \* bound on the signals a worker emits between start and end

ASSUME MaxOutputAssumption == MaxOutput \in Nat

WorkerSignals == {"started", "log", "message", "finished"}

VARIABLES
    proc,       \* the process: not launched, alive or exited
    socket,     \* the peer's view of its socket (m_connected = "connected")
    timer,      \* m_timer: the connection timeout, the reconnection timer, off
    conn,       \* number of connections opened so far
    configured, \* receiveOptions has filled global_options
    thread,     \* m_thread; "none" while it is uninitialised
    stopReq,    \* max_iterations has been set to 1 to end the run
    waiting,    \* the main thread is blocked in m_thread->wait()
    events,     \* signals of the worker queued for the main thread
    emitted,    \* signals the worker has emitted since "started" (bound)
    logLines    \* log lines the worker has produced

workerVars == <<thread, stopReq, events, emitted, logLines>>
peerVars == <<proc, socket, timer, conn, configured, waiting, workerVars>>

PeerTypeOK ==
    /\ proc \in [Runs -> {"none", "alive", "exited"}]
    /\ socket \in [Runs -> {"unconnected", "connecting", "connected"}]
    /\ timer \in [Runs -> {"off", "timeout", "retry"}]
    /\ conn \in [Runs -> 0 .. MaxConns]
    /\ configured \in [Runs -> BOOLEAN]
    /\ thread \in [Runs -> {"none", "created", "running", "finished"}]
    /\ stopReq \in [Runs -> BOOLEAN]
    /\ waiting \in [Runs -> BOOLEAN]
    /\ events \in [Runs -> Seq(WorkerSignals)]
    /\ emitted \in [Runs -> 0 .. MaxOutput]
    /\ logLines \in [Runs -> Nat]

PeerInit ==
    /\ proc = [r \in Runs |-> "none"]
    /\ socket = [r \in Runs |-> "unconnected"]
    /\ timer = [r \in Runs |-> "off"]
    /\ conn = [r \in Runs |-> 0]
    /\ configured = [r \in Runs |-> FALSE]
    /\ thread = [r \in Runs |-> "none"]
    /\ stopReq = [r \in Runs |-> FALSE]
    /\ waiting = [r \in Runs |-> FALSE]
    /\ events = [r \in Runs |-> <<>>]
    /\ emitted = [r \in Runs |-> 0]
    /\ logLines = [r \in Runs |-> 0]

Conn(r) == <<r, conn[r]>>                 \* the peer's current connection
Looping(r) == proc[r] = "alive" /\ ~waiting[r]
ThreadBusy(r) == thread[r] \in {"created", "running"}   \* isRunning()

\* Calls written by the main thread: lost unless the socket is connected.
Emit(r, msgs) ==
    IF socket[r] = "connected"
    THEN ToServer(Conn(r), msgs)
    ELSE UNCHANGED toServer

\* Mutant: the raw signal of the thread is forwarded.
RawWire(s) == s

\* The call each queued signal makes when the main thread delivers it: a
\* finished thread runs threadFinished, which emits reconstructionStopped.
Wire(s) == IF s = "finished" THEN "stopped" ELSE s
WireAll(q) == [i \in 1 .. Len(q) |-> Wire(q[i])]

----------------------------------------------------------------------------
(* Connecting, losing the connection and recovering it.                    *)

\* uwrapc_network_main: attempt_connection, then the event loop.
PeerStart(r) ==
    /\ proc[r] = "none"
    /\ proc' = [proc EXCEPT ![r] = "alive"]
    /\ timer' = [timer EXCEPT ![r] = "timeout"]
    /\ UNCHANGED <<linkVars, socket, conn, configured, waiting, workerVars>>

\* connect / attemptReconnection reach the server, which accepts the socket.
\* A refused attempt changes nothing: the first one is not repeated.
PeerConnect(r) ==
    /\ Looping(r) /\ socket[r] = "unconnected" /\ timer[r] # "off"
    /\ conn[r] < MaxConns
    /\ conn' = [conn EXCEPT ![r] = @ + 1]
    /\ socket' = [socket EXCEPT ![r] = "connecting"]
    /\ link' = [link EXCEPT ![<<r, conn[r] + 1>>] = "up"]
    /\ UNCHANGED <<toServer, toPeer, proc, timer, configured, waiting, workerVars>>

\* First connectedToServer: send the identification key.
ConnectionEstablished(r) ==
    /\ Looping(r) /\ socket[r] = "connecting" /\ timer[r] = "timeout"
    /\ socket' = [socket EXCEPT ![r] = "connected"]
    /\ timer' = [timer EXCEPT ![r] = "off"]
    /\ ToServer(Conn(r), <<"key">>)
    /\ UNCHANGED <<link, toPeer, proc, conn, configured, waiting, workerVars>>

\* Mutant: the key is sent again.
IdentifyingConnectionRecovered(r) ==
    /\ Looping(r) /\ socket[r] = "connecting" /\ timer[r] = "retry"
    /\ socket' = [socket EXCEPT ![r] = "connected"]
    /\ timer' = [timer EXCEPT ![r] = "off"]
    /\ ToServer(Conn(r), <<"key">>)
    /\ UNCHANGED <<link, toPeer, proc, conn, configured, waiting, workerVars>>

\* Later connectedToServer: only the timer is stopped; no key is sent.
ConnectionRecovered(r) ==
    /\ Looping(r) /\ socket[r] = "connecting" /\ timer[r] = "retry"
    /\ socket' = [socket EXCEPT ![r] = "connected"]
    /\ timer' = [timer EXCEPT ![r] = "off"]
    /\ UNCHANGED <<linkVars, proc, conn, configured, waiting, workerVars>>

\* disconnectedFromServer, or a socket error: start the reconnection timer.
ConnectionLost(r) ==
    /\ Looping(r) /\ socket[r] = "connected"
    /\ link[Conn(r)] # "up" /\ toPeer[Conn(r)] = <<>>
    /\ socket' = [socket EXCEPT ![r] = "unconnected"]
    /\ timer' = [timer EXCEPT ![r] = IF @ = "off" THEN "retry" ELSE @]
    /\ UNCHANGED <<linkVars, proc, conn, configured, waiting, workerVars>>

\* The process ends, whatever it was doing; its sockets are closed.
Exit(r) ==
    /\ proc' = [proc EXCEPT ![r] = "exited"]
    /\ waiting' = [waiting EXCEPT ![r] = FALSE]
    /\ events' = [events EXCEPT ![r] = <<>>]
    /\ IF socket[r] = "unconnected" THEN UNCHANGED linkVars ELSE Close(Conn(r))
    /\ socket' = [socket EXCEPT ![r] = "unconnected"]
    /\ timer' = [timer EXCEPT ![r] = "off"]
    /\ UNCHANGED <<conn, configured, stopReq, emitted, logLines>>

\* The ten seconds for the first connection are over.
CheckTimeOut(r) ==
    /\ Looping(r) /\ timer[r] = "timeout"
    /\ Exit(r)
    /\ UNCHANGED thread

\* A crash, a fatal error, or the hangup sent when HawkGUI kills the ssh
\* that launched the peer.
PeerDies(r) ==
    /\ proc[r] = "alive"
    /\ Exit(r)
    /\ UNCHANGED thread

----------------------------------------------------------------------------
(* Calls from the server, taken in order by the main thread.               *)

Receive(r, m) ==
    /\ Looping(r) /\ socket[r] = "connected"
    /\ toPeer[Conn(r)] # <<>> /\ Head(toPeer[Conn(r)]) = m

Consume(r) == toPeer' = [toPeer EXCEPT ![Conn(r)] = Tail(@)]

ReceiveOptions(r) ==
    /\ Receive(r, "options") /\ Consume(r)
    /\ configured' = [configured EXCEPT ![r] = TRUE]
    /\ UNCHANGED <<link, toServer, proc, socket, timer, conn, waiting, workerVars>>

\* A new worker thread, whatever m_thread was before.
StartReconstruction(r) ==
    /\ Receive(r, "start") /\ Consume(r)
    /\ thread' = [thread EXCEPT ![r] = "created"]
    /\ UNCHANGED <<link, toServer, proc, socket, timer, conn, configured, waiting,
                   stopReq, events, emitted, logLines>>

\* First half of stopReconstruction: ask the run to end and wait for it.
StopReconstruction(r) ==
    /\ Receive(r, "stop") /\ Consume(r)
    /\ stopReq' = [stopReq EXCEPT ![r] = TRUE]
    /\ waiting' = [waiting EXCEPT ![r] = TRUE]
    /\ UNCHANGED <<link, toServer, proc, socket, timer, conn, configured, thread,
                   events, emitted, logLines>>

\* Mutant: stopReconstruction does not wait for the thread.
HastyStopReturns(r) ==
    /\ proc[r] = "alive" /\ waiting[r]
    /\ waiting' = [waiting EXCEPT ![r] = FALSE]
    /\ Emit(r, <<"stopped">> \o WireAll(events[r]))
    /\ events' = [events EXCEPT ![r] = <<>>]
    /\ UNCHANGED <<link, toPeer, proc, socket, timer, conn, configured, thread,
                   stopReq, emitted, logLines>>

\* Second half: reconstructionStopped goes out at once, and processEvents
\* then delivers everything the worker left in the event queue.
StopReturns(r) ==
    /\ proc[r] = "alive" /\ waiting[r] /\ ~ThreadBusy(r)
    /\ waiting' = [waiting EXCEPT ![r] = FALSE]
    /\ Emit(r, <<"stopped">> \o WireAll(events[r]))
    /\ events' = [events EXCEPT ![r] = <<>>]
    /\ UNCHANGED <<link, toPeer, proc, socket, timer, conn, configured, thread,
                   stopReq, emitted, logLines>>

\* quit terminates a worker that is still running and leaves the program.
Quit(r) ==
    /\ Receive(r, "quit")
    /\ thread' = [thread EXCEPT ![r] = IF ThreadBusy(r) THEN "finished" ELSE @]
    /\ Exit(r)

\* The main thread delivers the oldest queued signal of the worker.
DeliverSignal(r) ==
    /\ Looping(r) /\ events[r] # <<>>
    /\ Emit(r, <<Wire(Head(events[r]))>>)
    /\ events' = [events EXCEPT ![r] = Tail(@)]
    /\ UNCHANGED <<link, toPeer, proc, socket, timer, conn, configured, waiting,
                   thread, stopReq, emitted, logLines>>

----------------------------------------------------------------------------
(* The worker thread.                                                      *)

WorkerBegins(r) ==
    /\ proc[r] = "alive" /\ thread[r] = "created"
    /\ thread' = [thread EXCEPT ![r] = "running"]
    /\ events' = [events EXCEPT ![r] = Append(@, "started")]
    /\ UNCHANGED <<linkVars, proc, socket, timer, conn, configured, waiting,
                   stopReq, emitted, logLines>>

\* hawk_log sends a log line, hawk_info / hawk_warning a message.
WorkerEmits(r, s) ==
    /\ proc[r] = "alive" /\ thread[r] = "running"
    /\ emitted[r] < MaxOutput
    /\ emitted' = [emitted EXCEPT ![r] = @ + 1]
    /\ logLines' = [logLines EXCEPT ![r] = IF s = "log" THEN @ + 1 ELSE @]
    /\ events' = [events EXCEPT ![r] = Append(@, s)]
    /\ UNCHANGED <<linkVars, proc, socket, timer, conn, configured, waiting,
                   thread, stopReq>>

\* Mutant: the end of the thread overtakes the signals queued before it.
OvertakingWorkerEnds(r) ==
    /\ proc[r] = "alive" /\ thread[r] = "running"
    /\ thread' = [thread EXCEPT ![r] = "finished"]
    /\ events' = [events EXCEPT ![r] = <<"finished">> \o @]
    /\ UNCHANGED <<linkVars, proc, socket, timer, conn, configured, waiting,
                   stopReq, emitted, logLines>>

\* Mutant: a run that was told to stop goes on.
DeafWorkerEnds(r) == ~stopReq[r] /\ OvertakingWorkerEnds(r)

\* uwrapc_start returns.  Unless max_iterations is 1 the run may go on for
\* ever (max_iterations = 0), so it is only obliged to end once stopReq.
WorkerEnds(r) ==
    /\ proc[r] = "alive" /\ thread[r] = "running"
    /\ thread' = [thread EXCEPT ![r] = "finished"]
    /\ events' = [events EXCEPT ![r] = Append(@, "finished")]
    /\ UNCHANGED <<linkVars, proc, socket, timer, conn, configured, waiting,
                   stopReq, emitted, logLines>>

----------------------------------------------------------------------------
PeerStep(r) ==
    \/ ConnectionEstablished(r) \/ ConnectionRecovered(r) \/ ConnectionLost(r)
    \/ CheckTimeOut(r) \/ PeerDies(r)
    \/ ReceiveOptions(r) \/ StartReconstruction(r)
    \/ StopReconstruction(r) \/ StopReturns(r) \/ Quit(r)
    \/ DeliverSignal(r)
    \/ WorkerBegins(r) \/ WorkerEnds(r)
    \/ \E s \in {"log", "message"} : WorkerEmits(r, s)
=============================================================================
