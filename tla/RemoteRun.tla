----------------------------- MODULE RemoteRun -----------------------------
(***************************************************************************)
(* HawkGUI and the uwrapc processes it launched on remote hosts, running   *)
(* together over Qxt RPC: ProcessControl + RPCServer on one side, one      *)
(* RPCPeer per run on the other.                                           *)
(***************************************************************************)
EXTENDS ProcessControl, RPCPeer

vars == <<linkVars, guiVars, peerVars>>

TypeOK == LinkTypeOK /\ GuiTypeOK /\ PeerTypeOK

Init == LinkInit /\ GuiInit /\ PeerInit

\* The ssh of run r starts its uwrapc some time after the launch, or never.
Launch(r) == key[r] # NoKey /\ PeerStart(r) /\ UNCHANGED guiVars

\* The server accepts the socket in the same step.
Connect(r) == PeerConnect(r) /\ ClientConnected(<<r, conn[r] + 1>>)

Peer(r) == PeerStep(r) /\ UNCHANGED guiVars

ServerStep(c) ==
    (ServerReceive(c) \/ OnClientDisconnected(c)) /\ UNCHANGED peerVars

User ==
    (UserStarts \/ UserStops \/ Dismiss) /\ UNCHANGED peerVars

LocalExit == LocalProcessExits /\ UNCHANGED peerVars

LinkBreaks(c) == Break(c) /\ UNCHANGED <<guiVars, peerVars>>

Next ==
    \/ User
    \/ LocalExit
    \/ \E r \in Runs : Launch(r) \/ Connect(r) \/ Peer(r)
    \/ \E c \in Conns : ServerStep(c) \/ LinkBreaks(c)

Spec == Init /\ [][Next]_vars

----------------------------------------------------------------------------
(* Fairness: both event loops keep turning, a run told to stop ends, and   *)
(* the user closes the message boxes.  Nothing obliges the user to press   *)
(* Run, ssh to reach the host, a connection to be made or a run without a  *)
(* stop request to end.  A closed socket is always noticed by the server;  *)
(* a broken link need not be (no keepalive is set).                        *)

PeerProgress(r) ==
    /\ \/ ConnectionEstablished(r)
       \/ ReceiveOptions(r) \/ StartReconstruction(r)
       \/ StopReconstruction(r) \/ StopReturns(r) \/ Quit(r)
       \/ DeliverSignal(r)
       \/ WorkerBegins(r)
       \/ stopReq[r] /\ WorkerEnds(r)
    /\ UNCHANGED guiVars

ServerProgress(c) ==
    /\ ServerReceive(c) \/ (link[c] = "closed" /\ OnClientDisconnected(c))
    /\ UNCHANGED peerVars

Fairness ==
    /\ \A r \in Runs : WF_vars(PeerProgress(r))
    /\ \A c \in Conns : WF_vars(ServerProgress(c))
    /\ WF_vars(Dismiss /\ UNCHANGED peerVars)

FairSpec == Spec /\ Fairness

----------------------------------------------------------------------------
(* Safety.                                                                 *)

Has(q, m) == \E i \in 1 .. Len(q) : q[i] = m

\* The comment of startRPCProcess, "Make sure the generated key is unique":
\* no two runs share a key while one of them is waiting or running.
KeysUnique ==
    /\ \A k \in keysToStart : k \notin Listed(keysRunning)
    /\ \A i, j \in 1 .. Len(keysRunning) :
           keysRunning[i] = keysRunning[j] /\ keysRunning[i] # NoKey => i = j

\* Every key in m_keysRunning belongs to a client of m_clientKeyMap that is
\* still connected or whose "finished" box is on the screen: stopProcess
\* never addresses a client nobody remembers, and no run stays listed for
\* ever because its client was dropped first.
RunningKeyHasClient ==
    \A k \in Listed(keysRunning) :
        \E c \in ClientsOf(k, clientKey) :
            c \in open \/ [kind |-> "finished", client |-> c] \in Elements(dialogs)

\* startReconstruction reaches a peer at most once and before it has a
\* worker: m_thread is never overwritten while its thread may be running.
StartedOnce ==
    \A c \in Conns : Has(toPeer[c], "start") =>
        /\ thread[c[1]] = "none"
        /\ \A i, j \in 1 .. Len(toPeer[c]) :
               toPeer[c][i] = "start" /\ toPeer[c][j] = "start" => i = j

\* The worker reads global_options while it runs: the server never lets
\* options arrive once the worker exists.
OptionsBeforeWorker ==
    \A c \in Conns : Has(toPeer[c], "options") => thread[c[1]] = "none"

\* A stop is only handled by a peer whose m_thread has been set: every stop
\* under way is behind the start of its run.
StopAfterStart ==
    \A c \in Conns : \A i \in 1 .. Len(toPeer[c]) :
        toPeer[c][i] = "stop" /\ thread[c[1]] = "none" =>
            \E j \in 1 .. i - 1 : toPeer[c][j] = "start"

\* quit never terminates a running worker: it only follows the end of it.
QuitAfterWorker ==
    \A c \in Conns : Has(toPeer[c], "quit") => thread[c[1]] = "finished"

\* A run that ended by itself on its first connection has delivered its
\* whole log by the time the server dismisses the peer.
LogComplete ==
    \A r \in Runs :
        Has(toPeer[<<r, 1>>], "quit") /\ ~stopReq[r] =>
            logged[<<r, 1>>] = logLines[r]

\* The three survive lost links, recoveries, local runs and options that could
\* not be written.
SafeAfterRecovery == StopAfterStart /\ QuitAfterWorker /\ LogComplete

\* A peer that lost its first connection does not identify itself on the next
\* ones, so the server never addresses it there except to dismiss it: it is
\* not listed under them, not started again and not stopped.
RecoveredPeerAnonymous ==
    \A c \in Conns : c[2] > 1 =>
        /\ clientKey[c] = NoKey
        /\ \A i \in 1 .. Len(toPeer[c]) : toPeer[c][i] = "quit"

\* Unless a local launch failed, the button shows a run only while there is
\* one to wait for, to show, or whose exit code is on the screen: finishing
\* runs never leave it checked behind them, in whatever order they finish.
ButtonHonest ==
    checked => \/ local \/ keysToStart # {} \/ Listed(keysRunning) # {}
               \/ \E i \in 1 .. Len(dialogs) : dialogs[i].kind = "exit"

\* startEmbeddedProcess reports a uwrapc that does not start and emits nothing,
\* so the Run button stays checked with nothing behind it.  That is the only
\* step that makes the button lie, whatever the stops, the ends, the lost links
\* and the message boxes that interleave with it.
LaunchFails == ~checked /\ checked' /\ ~local' /\ UNCHANGED key

OnlyFailedLaunchMisleads ==
    [][ButtonHonest => ButtonHonest' \/ LaunchFails]_vars

----------------------------------------------------------------------------
(* Refinement: the lists and the worker threads implement RunLifecycle.    *)

StageOf(r) ==
    CASE key[r] = NoKey -> "idle"
      [] key[r] \in keysToStart -> "starting"
      [] key[r] \in Listed(keysRunning) -> "running"
      [] OTHER -> "finished"

WorkOf(r) ==
    CASE thread[r] = "none" -> "none"
      [] ThreadBusy(r) -> "working"
      [] OTHER -> "done"

Lifecycle == INSTANCE RunLifecycle
    WITH stage <- [r \in Runs |-> StageOf(r)],
         work <- [r \in Runs |-> WorkOf(r)]

\* Each run goes through its stages in order and once, and so does its
\* reconstruction, which never precedes the listing of the run.
ImplementsLifecycle == Lifecycle!LifecycleSpec

----------------------------------------------------------------------------
(* Liveness.                                                               *)

LinkLost(r) == \E c \in Conns : c[1] = r /\ link[c] = "broken"

\* A peer that has been told to stop leaves the program, unless the network
\* fails on the way.
StopTerminates ==
    \A r \in Runs : stopReq[r] ~> (proc[r] = "exited" \/ LinkLost(r))

\* So does a peer whose worker has ended, stopped or not.
FinishedPeerQuits ==
    \A r \in Runs : thread[r] = "finished" ~> (proc[r] = "exited" \/ LinkLost(r))

\* The key of a peer that has gone is taken off m_keysRunning.
DeadRunForgotten ==
    \A r \in Runs :
        link[<<r, 1>>] = "closed" ~> key[r] \notin Listed(keysRunning)

----------------------------------------------------------------------------
(* The strengthening that makes the safety properties inductive.           *)

Once(q, m) == \A i, j \in 1 .. Len(q) : q[i] = m /\ q[j] = m => i = j

\* Every b of q has an a before it; no a of q has a b before it.
Behind(q, a, b) ==
    \A i \in 1 .. Len(q) : q[i] = b => \E j \in 1 .. i - 1 : q[j] = a
NeverBehind(q, a, b) ==
    \A i, j \in 1 .. Len(q) : q[i] = a /\ q[j] = b => i < j

\* Calls under way to a peer whose worker thread is in state t.
PeerQueueOK(q, t) ==
    /\ Has(q, "start") \/ Has(q, "options") => t = "none"
    /\ Once(q, "start")
    /\ NeverBehind(q, "options", "start")
    /\ t = "none" => Behind(q, "start", "stop")
    /\ Has(q, "quit") => t = "finished"

\* Nothing but quit: a peer the server has not started or does not know.
Quiet(q) == ~Has(q, "options") /\ ~Has(q, "start") /\ ~Has(q, "stop")

\* A client is known by the key of its peer, on its first connection only.
ClientsKnown ==
    \A c \in Conns : clientKey[c] # NoKey =>
        clientKey[c] = key[c[1]] /\ c[2] = 1 /\ clientKey[c] \notin keysToStart

\* A key is sent once, on the first connection, while its run still waits.
KeySentOnce ==
    \A c \in Conns : Has(toServer[c], "key") =>
        /\ c[2] = 1 /\ timer[c[1]] # "timeout" /\ Once(toServer[c], "key")
        /\ key[c[1]] \in keysToStart

\* What the phases of a connection say about each other.
Connecting ==
    \A r \in Runs :
        /\ proc[r] = "none" => timer[r] = "off" /\ conn[r] = 0
        /\ proc[r] # "alive" => socket[r] = "unconnected"
        /\ timer[r] = "timeout" =>
               conn[r] = IF socket[r] = "unconnected" THEN 0 ELSE 1
        /\ timer[r] = "retry" => conn[r] # 0
        /\ socket[r] # "unconnected" => conn[r] # 0
        /\ key[r] = NoKey => proc[r] = "none"
        /\ key[r] # NoKey /\ (proc[r] = "none" \/ timer[r] = "timeout") =>
               key[r] \in keysToStart

LinksUsed ==
    \A c \in Conns :
        /\ link[c] = "unused" => toServer[c] = <<>> /\ toPeer[c] = <<>>
        /\ c[2] > conn[c[1]] =>
               link[c] = "unused" /\ c \notin open /\ clientKey[c] = NoKey

\* The server addresses a peer only between its listing and its end.
Addressed ==
    \A c \in Conns :
        /\ PeerQueueOK(toPeer[c], thread[c[1]])
        /\ c[2] > 1 \/ key[c[1]] = NoKey \/ key[c[1]] \in keysToStart =>
               Quiet(toPeer[c])
        /\ key[c[1]] = NoKey \/ key[c[1]] \in keysToStart => thread[c[1]] = "none"
        /\ clientKey[c] \in Listed(keysRunning) /\ link[c] = "up"
           /\ thread[c[1]] = "none" => Has(toPeer[c], "start")

\* The end of a run is only reported once its worker has ended.
EndReported ==
    /\ \A c \in Conns : Has(toServer[c], "stopped") => thread[c[1]] = "finished"
    /\ \A r \in Runs : Has(events[r], "finished") => thread[r] = "finished"
    /\ \A r \in Runs : waiting[r] => thread[r] # "none"

KeysInjective ==
    \A r, s \in Runs : key[r] # NoKey /\ key[r] = key[s] => r = s

KeysGiven ==
    keysToStart \cup Listed(keysRunning) \subseteq {key[r] : r \in Runs}

ProtocolInv ==
    /\ ClientsKnown /\ KeySentOnce /\ Connecting /\ LinksUsed
    /\ Addressed /\ EndReported /\ KeysInjective /\ KeysGiven
=============================================================================
