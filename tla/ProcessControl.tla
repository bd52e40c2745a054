--------------------------- MODULE ProcessControl ---------------------------
(***************************************************************************)
(* The HawkGUI side of a reconstruction: the Run button, ProcessControl    *)
(* (which launches runs locally or over ssh) and RPCServer (which talks to *)
(* the remote ones).  Everything runs in the GUI thread, but the modal     *)
(* message boxes spin a nested event loop in the middle of a handler:      *)
(* "dialogs" is the stack of handlers suspended that way, innermost last.  *)
(***************************************************************************)
EXTENDS RPCLink, FiniteSets

CONSTANTS
    Keys,           \* values of qrand() used as run keys
    NoKey,          \* what m_clientKeyMap.value returns for an unknown client
    NoConn,         \* client of a dialog that belongs to no connection
    LaunchMethods,  \* values the user gives to ProcessControl/launchMethod
    FreshKeys,      \* TRUE: qrand() does not repeat itself within a session
    Failures,       \* local failures that may happen: "options", "launch"
    MaxPending      \* bound: no local launch while a link has more calls under way

ASSUME KeysAssumption ==
    /\ NoKey \notin Keys
    /\ NoConn \notin Conns
    /\ FreshKeys \in BOOLEAN
    /\ LaunchMethods \subseteq {"local", "remote"}
    /\ Failures \subseteq {"options", "launch"}
    /\ MaxPending \in Nat

VARIABLES
    checked,     \* the Run action is checked
    dialogs,     \* suspended handlers, innermost last
    processType, \* m_processType, uninitialised until a run sets it
    local,       \* a local uwrapc is running
    keysToStart, \* m_keysToStart (only membership matters)
    keysRunning, \* m_keysRunning; a removed key leaves NoKey in its place
    key,         \* key given to each remote process on its command line
    open,        \* clients of the connection manager
    clientKey,   \* m_clientKeyMap; NoKey for an absent client
    logged       \* lines appended to the log file of each client

runVars == <<checked, processType, local, keysToStart, keysRunning, key>>
serverVars == <<open, clientKey, logged>>
guiVars == <<dialogs, runVars, serverVars>>

Dialog == [kind : {"finished", "message", "exit"}, client : Conns \cup {NoConn}]

GuiTypeOK ==
    /\ checked \in BOOLEAN
    /\ dialogs \in Seq(Dialog)
    /\ processType \in {"garbage", "local", "remote"}
    /\ local \in BOOLEAN
    /\ keysToStart \in SUBSET Keys
    /\ keysRunning \in Seq(Keys \cup {NoKey})
    /\ key \in [Runs -> Keys \cup {NoKey}]
    /\ open \in SUBSET Conns
    /\ clientKey \in [Conns -> Keys \cup {NoKey}]
    /\ logged \in [Conns -> Nat]

GuiInit ==
    /\ checked = FALSE
    /\ dialogs = <<>>
    /\ processType \in {"garbage", "local", "remote"}
    /\ local = FALSE
    /\ keysToStart = {}
    /\ keysRunning = <<>>
    /\ key = [r \in Runs |-> NoKey]
    /\ open = {}
    /\ clientKey = [c \in Conns |-> NoKey]
    /\ logged = [c \in Conns |-> 0]

Elements(q) == {q[i] : i \in 1 .. Len(q)}

\* The keys listed in q, the first of them, and q.removeAll(k).
Listed(q) == Elements(q) \ {NoKey}
IsFirst(q, i) == q[i] # NoKey /\ \A j \in 1 .. i - 1 : q[j] = NoKey
RemoveAll(q, k) == [i \in 1 .. Len(q) |-> IF q[i] = k THEN NoKey ELSE q[i]]

\* QxtRPCService::call without a client: every client gets the call.
Broadcast(msgs) ==
    toPeer' = [c \in Conns |-> IF c \in open /\ link[c] = "up"
                               THEN toPeer[c] \o msgs ELSE toPeer[c]]

\* RPCServer::call: a client that is not connected is skipped.
ToPeer(c, msgs) ==
    toPeer' = IF c \in open /\ link[c] = "up"
              THEN [toPeer EXCEPT ![c] = @ \o msgs]
              ELSE toPeer

\* m_clientKeyMap.key(k): some client with that key.
ClientsOf(k, map) == {c \in Conns : map[c] = k}

\* Mutant: stopReconstruction is called without a client.
BroadcastStopByKey(k, map) == Broadcast(<<"stop">>)

StopByKey(k, map) ==
    IF ClientsOf(k, map) = {}
    THEN UNCHANGED toPeer
    ELSE \E c \in ClientsOf(k, map) : ToPeer(c, <<"stop">>)

IsRunningClient(c) == clientKey[c] \in Listed(keysRunning)
IsStartingClient(c) == clientKey[c] \in keysToStart
IsValidClient(c) == IsRunningClient(c) \/ IsStartingClient(c)

----------------------------------------------------------------------------
(* The Run button.                                                         *)

\* stopByKey(m_keysRunning.first()), if there is one.
StopFirst(running, map) ==
    IF Listed(running) = {}
    THEN UNCHANGED toPeer
    ELSE \E i \in 1 .. Len(running) :
             IsFirst(running, i) /\ StopByKey(running[i], map)

\* stopProcess, called while m_keysRunning is running, m_clientKeyMap is map
\* and a local process is running iff lcl.  A local process dies of the
\* SIGTERM; an ssh that gets it instead may take its peer down at any time.
StopProcess(running, map, lcl) ==
    /\ IF processType = "remote"
       THEN StopFirst(running, map)
       ELSE UNCHANGED toPeer
    /\ local' = IF processType = "local" THEN FALSE ELSE lcl

\* Mutant: the Run action stays checked.
StickyProcessFinished(running, map, lcl) ==
    UNCHANGED <<checked, toPeer>> /\ local' = lcl

\* HawkGUI::onProcessFinished: unchecking a checked action calls stopProcess.
ProcessFinished(running, map, lcl) ==
    /\ checked' = FALSE
    /\ IF checked
       THEN StopProcess(running, map, lcl)
       ELSE UNCHANGED toPeer /\ local' = lcl

FreeKeys ==
    Keys \ (keysToStart \cup (IF FreshKeys THEN {key[r] : r \in Runs} ELSE {}))

\* Every launch deletes the QProcess of the launch before it.  Deleting one
\* that is still running kills it: an ssh may take its peer down with it; a
\* local uwrapc is reported as finished, which unchecks the action again and
\* calls stopProcess.
ReplaceProcess ==
    /\ checked' = ~local
    /\ IF local /\ processType = "remote"
       THEN StopFirst(keysRunning, clientKey)
       ELSE UNCHANGED toPeer

StartRPCProcess(r) ==
    /\ "remote" \in LaunchMethods
    /\ key[r] = NoKey
    /\ \E k \in FreeKeys :
           /\ keysToStart' = keysToStart \cup {k}
           /\ key' = [key EXCEPT ![r] = k]
    /\ ReplaceProcess
    /\ local' = FALSE
    /\ UNCHANGED <<dialogs, processType>>

StartEmbeddedProcess ==
    /\ "local" \in LaunchMethods
    /\ \A c \in Conns : Len(toPeer[c]) + Len(toServer[c]) <= MaxPending
    /\ ReplaceProcess
    /\ \/ /\ local' = TRUE
          /\ processType' = "local"
          /\ UNCHANGED dialogs
       \/ /\ "launch" \in Failures
          /\ local' = FALSE
          /\ dialogs' = Append(dialogs, [kind |-> "message", client |-> NoConn])
          /\ UNCHANGED processType
    /\ UNCHANGED <<keysToStart, key>>

\* A modal dialog keeps the user away from the Run button.
UserStarts ==
    /\ dialogs = <<>> /\ ~checked
    /\ StartEmbeddedProcess \/ \E r \in Runs : StartRPCProcess(r)
    /\ UNCHANGED <<link, toServer, keysRunning, serverVars>>

UserStops ==
    /\ dialogs = <<>> /\ checked
    /\ checked' = FALSE
    /\ StopProcess(keysRunning, clientKey, local)
    /\ UNCHANGED <<link, toServer, dialogs, processType, keysToStart, keysRunning,
                   key, serverVars>>

\* onProcessFinished of the local process: a bad exit code is shown first.
LocalProcessExits ==
    /\ local
    /\ \/ /\ ProcessFinished(keysRunning, clientKey, FALSE)
          /\ UNCHANGED dialogs
       \/ /\ dialogs' = Append(dialogs, [kind |-> "exit", client |-> NoConn])
          /\ local' = FALSE
          /\ UNCHANGED <<toPeer, checked>>
    /\ UNCHANGED <<link, toServer, processType, keysToStart, keysRunning, key,
                   serverVars>>

----------------------------------------------------------------------------
(* Calls from the clients, taken in order by the GUI thread.               *)

\* While a message of client c is on the screen its socket is being read
\* further up the stack, and Qt does not read it again.
Reading(c) == [kind |-> "message", client |-> c] \notin Elements(dialogs)

Incoming(c, m) ==
    /\ c \in open /\ Reading(c)
    /\ toServer[c] # <<>> /\ Head(toServer[c]) = m

Take(c) == toServer' = [toServer EXCEPT ![c] = Tail(@)]

\* Mutant: the calls that start a run go to every client.
BroadcastHandleRemoteClient(k, map) ==
    IF k \in keysToStart
    THEN /\ keysToStart' = keysToStart \ {k}
         /\ keysRunning' = Append(keysRunning, k)
         /\ Broadcast(<<"options", "start">>)
         /\ processType' = "remote"
    ELSE UNCHANGED <<keysToStart, keysRunning, toPeer, processType>>

\* Mutant: without options the peer is not started, but it is listed.
AbandoningHandleRemoteClient(k, map) ==
    IF k \in keysToStart
    THEN /\ keysToStart' = keysToStart \ {k}
         /\ keysRunning' = Append(keysRunning, k)
         /\ \E c \in ClientsOf(k, map) :
                \/ ToPeer(c, <<"options", "start">>)
                \/ "options" \in Failures /\ UNCHANGED toPeer
         /\ processType' = "remote"
    ELSE UNCHANGED <<keysToStart, keysRunning, toPeer, processType>>

\* sendOptions sends nothing when it cannot create its temporary file, and
\* the start call goes out all the same.
HandleRemoteClient(k, map) ==
    IF k \in keysToStart
    THEN /\ keysToStart' = keysToStart \ {k}
         /\ keysRunning' = Append(keysRunning, k)
         /\ \E c \in ClientsOf(k, map) :
                \/ ToPeer(c, <<"options", "start">>)
                \/ "options" \in Failures /\ ToPeer(c, <<"start">>)
         /\ processType' = "remote"
    ELSE UNCHANGED <<keysToStart, keysRunning, toPeer, processType>>

ReceiveIdentificationKey(c) ==
    /\ Incoming(c, "key") /\ Take(c)
    /\ clientKey' = [clientKey EXCEPT ![c] = key[c[1]]]
    /\ HandleRemoteClient(key[c[1]], clientKey')
    /\ UNCHANGED <<link, dialogs, checked, local, key, open, logged>>

\* Mutant: a peer is not dismissed when its run has ended.
SilentReconstructionStopped(c) ==
    /\ Incoming(c, "stopped") /\ Take(c)
    /\ UNCHANGED <<link, toPeer, guiVars>>

ReconstructionStarted(c) ==
    /\ Incoming(c, "started") /\ Take(c)
    /\ UNCHANGED <<link, toPeer, guiVars>>

ReconstructionStopped(c) ==
    /\ Incoming(c, "stopped") /\ Take(c)
    /\ ToPeer(c, <<"quit">>)
    /\ UNCHANGED <<link, guiVars>>

ReceiveLogLine(c) ==
    /\ Incoming(c, "log") /\ Take(c)
    /\ logged' = [logged EXCEPT ![c] = IF IsRunningClient(c) THEN @ + 1 ELSE @]
    /\ UNCHANGED <<link, toPeer, dialogs, runVars, open, clientKey>>

DisplayMessage(c) ==
    /\ Incoming(c, "message") /\ Take(c)
    /\ dialogs' = IF IsValidClient(c)
                  THEN Append(dialogs, [kind |-> "message", client |-> c])
                  ELSE dialogs
    /\ UNCHANGED <<link, toPeer, runVars, serverVars>>

ClientConnected(c) ==
    /\ open' = open \cup {c}
    /\ UNCHANGED <<dialogs, runVars, clientKey, logged>>

\* Mutant: the entry of the client is removed before it is announced.
ForgetfulOnClientDisconnected(c) ==
    /\ c \in open /\ Reading(c)
    /\ link[c] # "up" /\ toServer[c] = <<>>
    /\ open' = open \ {c}
    /\ clientKey' = [clientKey EXCEPT ![c] = NoKey]
    /\ dialogs' = IF IsRunningClient(c)
                  THEN Append(dialogs, [kind |-> "finished", client |-> c])
                  ELSE dialogs
    /\ UNCHANGED <<linkVars, runVars, logged>>

\* First half of onClientDisconnected: a running client is announced first,
\* and its key and its entry stay until the message box is dismissed.
OnClientDisconnected(c) ==
    /\ c \in open /\ Reading(c)
    /\ link[c] # "up" /\ toServer[c] = <<>>
    /\ open' = open \ {c}
    /\ IF IsRunningClient(c)
       THEN /\ dialogs' = Append(dialogs, [kind |-> "finished", client |-> c])
            /\ UNCHANGED clientKey
       ELSE /\ clientKey' = [clientKey EXCEPT ![c] = NoKey]
            /\ UNCHANGED dialogs
    /\ UNCHANGED <<linkVars, runVars, logged>>

----------------------------------------------------------------------------
(* The innermost suspended handler goes on when its dialog is dismissed.   *)

Top == dialogs[Len(dialogs)]
Pop == dialogs' = SubSeq(dialogs, 1, Len(dialogs) - 1)

DismissMessage ==
    /\ dialogs # <<>> /\ Top.kind = "message" /\ Pop
    /\ UNCHANGED <<linkVars, runVars, serverVars>>

DismissExit ==
    /\ dialogs # <<>> /\ Top.kind = "exit" /\ Pop
    /\ ProcessFinished(keysRunning, clientKey, local)
    /\ UNCHANGED <<link, toServer, processType, keysToStart, keysRunning, key,
                   serverVars>>

\* Mutant: the key of the finished run stays in m_keysRunning.
LeakyDismissFinished ==
    /\ dialogs # <<>> /\ Top.kind = "finished" /\ Pop
    /\ keysRunning' = keysRunning
    /\ ProcessFinished(keysRunning', clientKey, local)
    /\ clientKey' = [clientKey EXCEPT ![Top.client] = NoKey]
    /\ UNCHANGED <<link, toServer, processType, keysToStart, key, open, logged>>

\* Second half of cleanRemoteClient, then of onClientDisconnected.
DismissFinished ==
    /\ dialogs # <<>> /\ Top.kind = "finished" /\ Pop
    /\ keysRunning' = RemoveAll(keysRunning, clientKey[Top.client])
    /\ ProcessFinished(keysRunning', clientKey, local)
    /\ clientKey' = [clientKey EXCEPT ![Top.client] = NoKey]
    /\ UNCHANGED <<link, toServer, processType, keysToStart, key, open, logged>>

Dismiss == DismissMessage \/ DismissExit \/ DismissFinished

ServerReceive(c) ==
    \/ ReceiveIdentificationKey(c) \/ ReconstructionStarted(c)
    \/ ReconstructionStopped(c) \/ ReceiveLogLine(c) \/ DisplayMessage(c)
=============================================================================
