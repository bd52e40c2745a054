-------------------------- MODULE RemoteRun_proofs --------------------------
(***************************************************************************)
(* Proofs about RemoteRun, for any number of runs, keys and connections.   *)
(***************************************************************************)
EXTENDS RemoteRun, SequenceTheorems, TLAPS

----------------------------------------------------------------------------
(* What the writes to the channels do to their types.                      *)

LEMMA PrefixType ==
    ASSUME NEW S, NEW q \in Seq(S), NEW n \in 0 .. Len(q)
    PROVE  /\ Prefix(q, n) \in Seq(S)
           /\ Len(Prefix(q, n)) = n
           /\ \A i \in 1 .. n : Prefix(q, n)[i] = q[i]
  BY SubSeqProperties DEF Prefix

LEMMA TailType ==
    ASSUME NEW S, NEW q \in Seq(S), q # <<>>
    PROVE  /\ Head(q) \in S
           /\ Tail(q) \in Seq(S)
           /\ Len(Tail(q)) = Len(q) - 1
           /\ \A i \in 1 .. Len(Tail(q)) : Tail(q)[i] = q[i + 1]
  BY HeadTailProperties

LEMMA ToServerType ==
    ASSUME LinkTypeOK, NEW c, NEW msgs \in Seq(ServerMsgs), ToServer(c, msgs)
    PROVE  toServer' \in [Conns -> Seq(ServerMsgs)]
  <1>1. c \in Conns => toServer[c] \o msgs \in Seq(ServerMsgs)
    BY ConcatProperties DEF LinkTypeOK
  <1> QED
    BY <1>1 DEF LinkTypeOK, ToServer

LEMMA ToPeerType ==
    ASSUME LinkTypeOK, NEW c, NEW msgs \in Seq(PeerMsgs), ToPeer(c, msgs)
    PROVE  toPeer' \in [Conns -> Seq(PeerMsgs)]
  <1>1. c \in Conns => toPeer[c] \o msgs \in Seq(PeerMsgs)
    BY ConcatProperties DEF LinkTypeOK
  <1> QED
    BY <1>1 DEF LinkTypeOK, ToPeer

LEMMA StopByKeyType ==
    ASSUME LinkTypeOK, NEW k, NEW map, StopByKey(k, map)
    PROVE  toPeer' \in [Conns -> Seq(PeerMsgs)]
  <1>1. <<"stop">> \in Seq(PeerMsgs)
    BY DEF PeerMsgs
  <1> QED
    BY <1>1, ToPeerType DEF StopByKey, ClientsOf, LinkTypeOK

LEMMA StopFirstType ==
    ASSUME LinkTypeOK, NEW running, NEW map, StopFirst(running, map)
    PROVE  toPeer' \in [Conns -> Seq(PeerMsgs)]
  BY StopByKeyType DEF StopFirst, LinkTypeOK

LEMMA ProcessFinishedType ==
    ASSUME TypeOK, NEW running, NEW map, NEW lcl \in BOOLEAN,
           ProcessFinished(running, map, lcl)
    PROVE  /\ toPeer' \in [Conns -> Seq(PeerMsgs)]
           /\ checked' \in BOOLEAN
           /\ local' \in BOOLEAN
  BY StopFirstType DEF ProcessFinished, StopProcess, TypeOK, LinkTypeOK

LEMMA CloseType ==
    ASSUME LinkTypeOK, NEW c, Close(c)
    PROVE  LinkTypeOK'
  <1>1. PICK n \in 0 .. Len(toServer[c]) :
            /\ link' = [link EXCEPT ![c] = IF @ = "up" THEN "closed" ELSE @]
            /\ toServer' = [toServer EXCEPT ![c] = Prefix(@, n)]
            /\ toPeer' = [toPeer EXCEPT ![c] = <<>>]
    BY DEF Close
  <1>2. c \in Conns => Prefix(toServer[c], n) \in Seq(ServerMsgs)
    BY PrefixType DEF LinkTypeOK
  <1>3. toServer' \in [Conns -> Seq(ServerMsgs)]
    BY <1>1, <1>2 DEF LinkTypeOK
  <1>4. toPeer' \in [Conns -> Seq(PeerMsgs)]
    <2>1. <<>> \in Seq(PeerMsgs)
      OBVIOUS
    <2> QED
      BY <1>1, <2>1 DEF LinkTypeOK
  <1>5. link' \in [Conns -> {"unused", "up", "broken", "closed"}]
    BY <1>1 DEF LinkTypeOK
  <1> QED
    BY <1>3, <1>4, <1>5 DEF LinkTypeOK

LEMMA ExitType ==
    ASSUME TypeOK, NEW r \in Runs, Exit(r),
           thread' \in [Runs -> {"none", "created", "running", "finished"}]
    PROVE  LinkTypeOK' /\ PeerTypeOK'
  <1>1. LinkTypeOK'
    BY CloseType DEF Exit, TypeOK, LinkTypeOK, linkVars
  <1>2. events' \in [Runs -> Seq(WorkerSignals)]
    BY DEF Exit, TypeOK, PeerTypeOK
  <1> QED
    BY <1>1, <1>2 DEF Exit, TypeOK, PeerTypeOK

----------------------------------------------------------------------------
(* The steps of a peer.                                                    *)

LEMMA EmitType ==
    ASSUME TypeOK, NEW r \in Runs, NEW msgs \in Seq(ServerMsgs), Emit(r, msgs)
    PROVE  toServer' \in [Conns -> Seq(ServerMsgs)]
  BY ToServerType DEF Emit, TypeOK, LinkTypeOK

LEMMA WireType ==
    ASSUME NEW q \in Seq(WorkerSignals)
    PROVE  /\ WireAll(q) \in Seq(ServerMsgs)
           /\ Len(WireAll(q)) = Len(q)
           /\ \A i \in 1 .. Len(q) : WireAll(q)[i] = Wire(q[i])
  <1>1. \A i \in 1 .. Len(q) : q[i] \in WorkerSignals
    OBVIOUS
  <1>2. \A i \in 1 .. Len(q) : Wire(q[i]) \in ServerMsgs
    BY <1>1 DEF Wire, WorkerSignals, ServerMsgs
  <1>3. WireAll(q) \in [1 .. Len(q) -> ServerMsgs]
    BY <1>2 DEF WireAll
  <1>4. Len(q) \in Nat
    OBVIOUS
  <1>5. WireAll(q) \in Seq(ServerMsgs)
    BY <1>3, <1>4, IsASeq DEF WireAll
  <1> QED
    BY <1>3, <1>4, <1>5 DEF WireAll

LEMMA ConsumeType ==
    ASSUME TypeOK, NEW r \in Runs, NEW m, Receive(r, m), Consume(r)
    PROVE  toPeer' \in [Conns -> Seq(PeerMsgs)]
  <1>1. Conn(r) \in Conns => Tail(toPeer[Conn(r)]) \in Seq(PeerMsgs)
    BY TailType DEF TypeOK, LinkTypeOK, Receive
  <1> QED
    BY <1>1 DEF TypeOK, LinkTypeOK, Consume

LEMMA QueueType ==
    ASSUME TypeOK, NEW r \in Runs, NEW s \in WorkerSignals,
           events' = [events EXCEPT ![r] = Append(@, s)]
    PROVE  events' \in [Runs -> Seq(WorkerSignals)]
  <1>1. Append(events[r], s) \in Seq(WorkerSignals)
    BY AppendProperties DEF TypeOK, PeerTypeOK
  <1> QED
    BY <1>1 DEF TypeOK, PeerTypeOK

LEMMA PeerStepType ==
    ASSUME TypeOK, NEW r \in Runs, PeerStep(r)
    PROVE  LinkTypeOK' /\ PeerTypeOK'
  <1> USE DEF TypeOK
  <1>1. CASE ConnectionEstablished(r)
    <2>1. <<"key">> \in Seq(ServerMsgs)
      BY DEF ServerMsgs
    <2>2. toServer' \in [Conns -> Seq(ServerMsgs)]
      BY <1>1, <2>1, ToServerType DEF ConnectionEstablished
    <2> QED
      BY <1>1, <2>2 DEF ConnectionEstablished, LinkTypeOK, PeerTypeOK, workerVars
  <1>2. CASE ConnectionRecovered(r)
    BY <1>2 DEF ConnectionRecovered, LinkTypeOK, PeerTypeOK, linkVars, workerVars
  <1>3. CASE ConnectionLost(r)
    BY <1>3 DEF ConnectionLost, LinkTypeOK, PeerTypeOK, linkVars, workerVars
  <1>4. CASE CheckTimeOut(r)
    BY <1>4, ExitType DEF CheckTimeOut, PeerTypeOK
  <1>5. CASE PeerDies(r)
    BY <1>5, ExitType DEF PeerDies, PeerTypeOK
  <1>6. CASE ReceiveOptions(r)
    BY <1>6, ConsumeType DEF ReceiveOptions, LinkTypeOK, PeerTypeOK, workerVars
  <1>7. CASE StartReconstruction(r)
    BY <1>7, ConsumeType DEF StartReconstruction, LinkTypeOK, PeerTypeOK
  <1>8. CASE StopReconstruction(r)
    BY <1>8, ConsumeType DEF StopReconstruction, LinkTypeOK, PeerTypeOK
  <1>9. CASE StopReturns(r)
    <2>1. <<"stopped">> \in Seq(ServerMsgs)
      BY DEF ServerMsgs
    <2>2. WireAll(events[r]) \in Seq(ServerMsgs)
      BY WireType DEF PeerTypeOK
    <2>3. <<"stopped">> \o WireAll(events[r]) \in Seq(ServerMsgs)
      BY <2>1, <2>2, ConcatProperties
    <2>4. toServer' \in [Conns -> Seq(ServerMsgs)]
      BY <1>9, <2>3, EmitType DEF StopReturns
    <2>5. events' \in [Runs -> Seq(WorkerSignals)]
      BY <1>9 DEF StopReturns, PeerTypeOK
    <2> QED
      BY <1>9, <2>4, <2>5 DEF StopReturns, LinkTypeOK, PeerTypeOK
  <1>10. CASE Quit(r)
    BY <1>10, ExitType DEF Quit, PeerTypeOK
  <1>11. CASE DeliverSignal(r)
    <2>1. /\ Head(events[r]) \in WorkerSignals
          /\ Tail(events[r]) \in Seq(WorkerSignals)
      BY <1>11, TailType DEF DeliverSignal, PeerTypeOK
    <2>2. <<Wire(Head(events[r]))>> \in Seq(ServerMsgs)
      BY <2>1 DEF Wire, WorkerSignals, ServerMsgs
    <2>3. toServer' \in [Conns -> Seq(ServerMsgs)]
      BY <1>11, <2>2, EmitType DEF DeliverSignal
    <2> QED
      BY <1>11, <2>1, <2>3 DEF DeliverSignal, LinkTypeOK, PeerTypeOK
  <1>12. CASE WorkerBegins(r)
    <2>1. events' \in [Runs -> Seq(WorkerSignals)]
      BY <1>12, QueueType DEF WorkerBegins, WorkerSignals
    <2> QED
      BY <1>12, <2>1 DEF WorkerBegins, LinkTypeOK, PeerTypeOK, linkVars
  <1>13. CASE WorkerEnds(r)
    <2>1. events' \in [Runs -> Seq(WorkerSignals)]
      BY <1>13, QueueType DEF WorkerEnds, WorkerSignals
    <2> QED
      BY <1>13, <2>1 DEF WorkerEnds, LinkTypeOK, PeerTypeOK, linkVars
  <1>14. ASSUME NEW s \in {"log", "message"}, WorkerEmits(r, s)
         PROVE  LinkTypeOK' /\ PeerTypeOK'
    <2>1. events' \in [Runs -> Seq(WorkerSignals)]
      BY <1>14, QueueType DEF WorkerEmits, WorkerSignals
    <2>2. emitted' \in [Runs -> 0 .. MaxOutput]
      BY <1>14, MaxOutputAssumption DEF WorkerEmits, PeerTypeOK
    <2>3. logLines' \in [Runs -> Nat]
      BY <1>14 DEF WorkerEmits, PeerTypeOK
    <2> QED
      BY <1>14, <2>1, <2>2, <2>3, MaxOutputAssumption
      DEF WorkerEmits, LinkTypeOK, PeerTypeOK, linkVars
  <1> QED
    BY <1>1, <1>2, <1>3, <1>4, <1>5, <1>6, <1>7, <1>8, <1>9, <1>10, <1>11,
       <1>12, <1>13, <1>14 DEF PeerStep
----------------------------------------------------------------------------
(* The steps of the GUI.                                                   *)

LEMMA PushType ==
    ASSUME TypeOK, NEW d \in Dialog, dialogs' = Append(dialogs, d)
    PROVE  dialogs' \in Seq(Dialog)
  BY AppendProperties DEF TypeOK, GuiTypeOK

LEMMA PopType ==
    ASSUME TypeOK, dialogs # <<>>, Pop
    PROVE  /\ dialogs' \in Seq(Dialog)
           /\ Top \in Dialog
           /\ Len(dialogs) \in Nat \ {0}
           /\ Len(dialogs') = Len(dialogs) - 1
           /\ \A i \in 1 .. Len(dialogs') : dialogs'[i] = dialogs[i]
  <1>1. dialogs \in Seq(Dialog)
    BY DEF TypeOK, GuiTypeOK
  <1>2. Len(dialogs) \in Nat \ {0}
    BY <1>1, EmptySeq, LenProperties
  <1>3. Top \in Dialog
    BY <1>1, <1>2, ElementOfSeq DEF Top
  <1>4. dialogs' = SubSeq(dialogs, 1, Len(dialogs) - 1)
    BY DEF Pop
  <1>5. Len(dialogs) - 1 \in 0 .. Len(dialogs)
    BY <1>2
  <1>6. dialogs' = Prefix(dialogs, Len(dialogs) - 1)
    BY <1>4 DEF Prefix
  <1> QED
    BY <1>1, <1>2, <1>3, <1>5, <1>6, PrefixType

LEMMA UserStepType ==
    ASSUME TypeOK, UserStarts \/ UserStops \/ LocalProcessExits
    PROVE  LinkTypeOK' /\ GuiTypeOK'
  <1> USE DEF TypeOK
  <1>1. CASE UserStarts
    <2>1. ReplaceProcess
      BY <1>1 DEF UserStarts, StartEmbeddedProcess, StartRPCProcess
    <2>2. toPeer' \in [Conns -> Seq(PeerMsgs)] /\ checked' \in BOOLEAN
      BY <2>1, StopFirstType DEF ReplaceProcess, LinkTypeOK, GuiTypeOK
    <2>3. CASE StartEmbeddedProcess
      <3>1. [kind |-> "message", client |-> NoConn] \in Dialog
        BY DEF Dialog
      <3>2. dialogs' \in Seq(Dialog)
        BY <2>3, <3>1, PushType DEF StartEmbeddedProcess, GuiTypeOK
      <3> QED
        BY <1>1, <2>2, <2>3, <3>2
        DEF UserStarts, StartEmbeddedProcess, LinkTypeOK, GuiTypeOK, serverVars
    <2>4. ASSUME NEW r \in Runs, StartRPCProcess(r)
          PROVE  LinkTypeOK' /\ GuiTypeOK'
      <3>1. PICK k \in FreeKeys : /\ keysToStart' = keysToStart \cup {k}
                                  /\ key' = [key EXCEPT ![r] = k]
        BY <2>4 DEF StartRPCProcess
      <3>2. k \in Keys
        BY DEF FreeKeys
      <3> QED
        BY <1>1, <2>2, <2>4, <3>1, <3>2
        DEF UserStarts, StartRPCProcess, LinkTypeOK, GuiTypeOK, serverVars
    <2> QED
      BY <1>1, <2>3, <2>4 DEF UserStarts
  <1>2. CASE UserStops
    <2>1. toPeer' \in [Conns -> Seq(PeerMsgs)] /\ local' \in BOOLEAN
      BY <1>2, StopFirstType DEF UserStops, StopProcess, LinkTypeOK, GuiTypeOK
    <2> QED
      BY <1>2, <2>1 DEF UserStops, LinkTypeOK, GuiTypeOK, serverVars
  <1>3. CASE LocalProcessExits
    <2>1. CASE ProcessFinished(keysRunning, clientKey, FALSE) /\ UNCHANGED dialogs
      <3>1. /\ toPeer' \in [Conns -> Seq(PeerMsgs)]
            /\ checked' \in BOOLEAN
            /\ local' \in BOOLEAN
        BY <2>1, ProcessFinishedType
      <3> QED
        BY <1>3, <2>1, <3>1
        DEF LocalProcessExits, LinkTypeOK, GuiTypeOK, serverVars
    <2>2. CASE /\ dialogs' = Append(dialogs, [kind |-> "exit", client |-> NoConn])
               /\ local' = FALSE
               /\ UNCHANGED <<toPeer, checked>>
      <3>1. [kind |-> "exit", client |-> NoConn] \in Dialog
        BY DEF Dialog
      <3>2. dialogs' \in Seq(Dialog)
        BY <2>2, <3>1, PushType
      <3> QED
        BY <1>3, <2>2, <3>2
        DEF LocalProcessExits, LinkTypeOK, GuiTypeOK, serverVars
    <2> QED
      BY <1>3, <2>1, <2>2 DEF LocalProcessExits
  <1> QED
    BY <1>1, <1>2, <1>3

LEMMA DismissType ==
    ASSUME TypeOK, Dismiss
    PROVE  LinkTypeOK' /\ GuiTypeOK'
  <1> USE DEF TypeOK
  <1>1. CASE DismissMessage
    BY <1>1, PopType
    DEF DismissMessage, LinkTypeOK, GuiTypeOK, linkVars, runVars, serverVars
  <1>2. CASE DismissExit
    <2>1. /\ toPeer' \in [Conns -> Seq(PeerMsgs)]
          /\ checked' \in BOOLEAN
          /\ local' \in BOOLEAN
      BY <1>2, ProcessFinishedType DEF DismissExit, GuiTypeOK
    <2> QED
      BY <1>2, <2>1, PopType DEF DismissExit, LinkTypeOK, GuiTypeOK, serverVars
  <1>3. CASE DismissFinished
    <2>1. /\ toPeer' \in [Conns -> Seq(PeerMsgs)]
          /\ checked' \in BOOLEAN
          /\ local' \in BOOLEAN
      BY <1>3, ProcessFinishedType DEF DismissFinished, GuiTypeOK
    <2>2. keysRunning' \in Seq(Keys \cup {NoKey})
      <3> DEFINE q == RemoveAll(keysRunning, clientKey[Top.client])
      <3>1. \A i \in 1 .. Len(keysRunning) : q[i] \in Keys \cup {NoKey}
        BY DEF RemoveAll, GuiTypeOK
      <3>2. q \in [1 .. Len(keysRunning) -> Keys \cup {NoKey}]
        BY <3>1 DEF RemoveAll
      <3>3. Len(keysRunning) \in Nat
        BY DEF GuiTypeOK
      <3>4. q \in Seq(Keys \cup {NoKey})
        BY <3>1, <3>3, IsASeq DEF RemoveAll
      <3> QED
        BY <1>3, <3>4 DEF DismissFinished
    <2> QED
      BY <1>3, <2>1, <2>2, PopType DEF DismissFinished, LinkTypeOK, GuiTypeOK
  <1> QED
    BY <1>1, <1>2, <1>3 DEF Dismiss

LEMMA TakeType ==
    ASSUME TypeOK, NEW c \in Conns, NEW m, Incoming(c, m), Take(c)
    PROVE  toServer' \in [Conns -> Seq(ServerMsgs)]
  BY TailType DEF TypeOK, LinkTypeOK, Incoming, Take

LEMMA HandleRemoteClientType ==
    ASSUME TypeOK, NEW k, NEW map, HandleRemoteClient(k, map)
    PROVE  /\ keysToStart' \in SUBSET Keys
           /\ keysRunning' \in Seq(Keys \cup {NoKey})
           /\ toPeer' \in [Conns -> Seq(PeerMsgs)]
           /\ processType' \in {"garbage", "local", "remote"}
  <1> USE DEF TypeOK
  <1>1. CASE k \in keysToStart
    <2>1. k \in Keys
      BY <1>1 DEF GuiTypeOK
    <2>2. Append(keysRunning, k) \in Seq(Keys \cup {NoKey})
      BY <2>1, AppendProperties DEF GuiTypeOK
    <2>3. <<"options", "start">> \in Seq(PeerMsgs) /\ <<"start">> \in Seq(PeerMsgs)
      BY DEF PeerMsgs
    <2>4. toPeer' \in [Conns -> Seq(PeerMsgs)]
      BY <1>1, <2>3, ToPeerType DEF HandleRemoteClient
    <2> QED
      BY <1>1, <2>2, <2>4 DEF HandleRemoteClient, GuiTypeOK
  <1>2. CASE k \notin keysToStart
    BY <1>2 DEF HandleRemoteClient, GuiTypeOK, LinkTypeOK
  <1> QED
    BY <1>1, <1>2

LEMMA ServerStepType ==
    ASSUME TypeOK, NEW c \in Conns,
           ServerReceive(c) \/ OnClientDisconnected(c)
    PROVE  LinkTypeOK' /\ GuiTypeOK'
  <1> USE DEF TypeOK
  <1>1. CASE ReceiveIdentificationKey(c)
    <2>1. c[1] \in Runs
      BY DEF Conns
    <2>2. HandleRemoteClient(key[c[1]], clientKey')
      BY <1>1 DEF ReceiveIdentificationKey
    <2>3. toServer' \in [Conns -> Seq(ServerMsgs)]
      BY <1>1, TakeType DEF ReceiveIdentificationKey
    <2>4. clientKey' \in [Conns -> Keys \cup {NoKey}]
      BY <1>1, <2>1 DEF ReceiveIdentificationKey, GuiTypeOK
    <2> QED
      BY <1>1, <2>2, <2>3, <2>4, HandleRemoteClientType
      DEF ReceiveIdentificationKey, LinkTypeOK, GuiTypeOK
  <1>2. CASE ReconstructionStarted(c)
    BY <1>2, TakeType
    DEF ReconstructionStarted, LinkTypeOK, GuiTypeOK, guiVars, runVars, serverVars
  <1>3. CASE ReconstructionStopped(c)
    <2>1. <<"quit">> \in Seq(PeerMsgs)
      BY DEF PeerMsgs
    <2> QED
      BY <1>3, <2>1, TakeType, ToPeerType
      DEF ReconstructionStopped, LinkTypeOK, GuiTypeOK, guiVars, runVars, serverVars
  <1>4. CASE ReceiveLogLine(c)
    BY <1>4, TakeType DEF ReceiveLogLine, LinkTypeOK, GuiTypeOK, runVars
  <1>5. CASE DisplayMessage(c)
    <2>1. [kind |-> "message", client |-> c] \in Dialog
      BY DEF Dialog
    <2>2. dialogs' \in Seq(Dialog)
      BY <1>5, <2>1, PushType DEF DisplayMessage, GuiTypeOK
    <2> QED
      BY <1>5, <2>2, TakeType
      DEF DisplayMessage, LinkTypeOK, GuiTypeOK, runVars, serverVars
  <1>6. CASE OnClientDisconnected(c)
    <2>1. [kind |-> "finished", client |-> c] \in Dialog
      BY DEF Dialog
    <2>2. dialogs' \in Seq(Dialog)
      BY <1>6, <2>1, PushType DEF OnClientDisconnected, GuiTypeOK
    <2>3. clientKey' \in [Conns -> Keys \cup {NoKey}]
      BY <1>6 DEF OnClientDisconnected, GuiTypeOK
    <2> QED
      BY <1>6, <2>2, <2>3
      DEF OnClientDisconnected, LinkTypeOK, GuiTypeOK, linkVars, runVars
  <1> QED
    BY <1>1, <1>2, <1>3, <1>4, <1>5, <1>6 DEF ServerReceive

----------------------------------------------------------------------------
LEMMA InitType == Init => TypeOK
  <1> SUFFICES ASSUME Init PROVE TypeOK
    OBVIOUS
  <1>1. LinkTypeOK
    BY DEF Init, LinkInit, LinkTypeOK
  <1>2. GuiTypeOK
    <2>1. <<>> \in Seq(Dialog) /\ <<>> \in Seq(Keys \cup {NoKey})
      OBVIOUS
    <2> QED
      BY <2>1 DEF Init, GuiInit, GuiTypeOK
  <1>3. PeerTypeOK
    <2>1. 0 \in 0 .. MaxConns /\ 0 \in 0 .. MaxOutput /\ 0 \in Nat
      BY MaxOutputAssumption, MaxConnsAssumption
    <2>2. <<>> \in Seq(WorkerSignals)
      OBVIOUS
    <2> QED
      BY <2>1, <2>2 DEF Init, PeerInit, PeerTypeOK
  <1> QED
    BY <1>1, <1>2, <1>3 DEF TypeOK

LEMMA NextType == TypeOK /\ [Next]_vars => TypeOK'
  <1> SUFFICES ASSUME TypeOK, [Next]_vars PROVE TypeOK'
    OBVIOUS
  <1>1. CASE UNCHANGED vars
    BY <1>1
    DEF vars, guiVars, runVars, serverVars, peerVars, workerVars, linkVars,
        TypeOK, LinkTypeOK, GuiTypeOK, PeerTypeOK
  <1>2. CASE User
    <2>1. PeerTypeOK'
      BY <1>2 DEF User, peerVars, workerVars, TypeOK, PeerTypeOK
    <2> QED
      BY <1>2, <2>1, UserStepType, DismissType DEF User, TypeOK
  <1>3. CASE LocalExit
    <2>1. PeerTypeOK'
      BY <1>3 DEF LocalExit, peerVars, workerVars, TypeOK, PeerTypeOK
    <2> QED
      BY <1>3, <2>1, UserStepType DEF LocalExit, TypeOK
  <1>4. ASSUME NEW r \in Runs, Launch(r) PROVE TypeOK'
    BY <1>4
    DEF Launch, PeerStart, TypeOK, LinkTypeOK, PeerTypeOK, GuiTypeOK,
        linkVars, guiVars, runVars, serverVars, workerVars
  <1>5. ASSUME NEW r \in Runs, Connect(r) PROVE TypeOK'
    <2>1. conn[r] + 1 \in 1 .. MaxConns
      BY <1>5, MaxConnsAssumption DEF Connect, PeerConnect, TypeOK, PeerTypeOK
    <2>2. <<r, conn[r] + 1>> \in Conns
      BY <2>1 DEF Conns
    <2>3. conn' \in [Runs -> 0 .. MaxConns]
      BY <1>5, <2>1, MaxConnsAssumption DEF Connect, PeerConnect, TypeOK, PeerTypeOK
    <2> QED
      BY <1>5, <2>2, <2>3
      DEF Connect, PeerConnect, ClientConnected, TypeOK, LinkTypeOK, PeerTypeOK,
          GuiTypeOK, runVars, workerVars
  <1>6. ASSUME NEW r \in Runs, Peer(r) PROVE TypeOK'
    <2>1. GuiTypeOK'
      BY <1>6 DEF Peer, guiVars, runVars, serverVars, TypeOK, GuiTypeOK
    <2> QED
      BY <1>6, <2>1, PeerStepType DEF Peer, TypeOK
  <1>7. ASSUME NEW c \in Conns, ServerStep(c) PROVE TypeOK'
    <2>1. PeerTypeOK'
      BY <1>7 DEF ServerStep, peerVars, workerVars, TypeOK, PeerTypeOK
    <2> QED
      BY <1>7, <2>1, ServerStepType DEF ServerStep, TypeOK
  <1>8. ASSUME NEW c \in Conns, LinkBreaks(c) PROVE TypeOK'
    <2>1. PICK n \in 0 .. Len(toServer[c]), m \in 0 .. Len(toPeer[c]) :
            /\ toServer' = [toServer EXCEPT ![c] = Prefix(@, n)]
            /\ toPeer' = [toPeer EXCEPT ![c] = Prefix(@, m)]
      BY <1>8 DEF LinkBreaks, Break
    <2>2. /\ Prefix(toServer[c], n) \in Seq(ServerMsgs)
          /\ Prefix(toPeer[c], m) \in Seq(PeerMsgs)
      BY PrefixType DEF TypeOK, LinkTypeOK
    <2>3. LinkTypeOK'
      BY <1>8, <2>1, <2>2 DEF LinkBreaks, Break, TypeOK, LinkTypeOK
    <2> QED
      BY <1>8, <2>3
      DEF LinkBreaks, TypeOK, GuiTypeOK, PeerTypeOK, guiVars, runVars,
          serverVars, peerVars, workerVars
  <1> QED
    BY <1>1, <1>2, <1>3, <1>4, <1>5, <1>6, <1>7, <1>8 DEF Next

\* Every variable of the composed system always has its type.
THEOREM TypeCorrect == Spec => []TypeOK
  BY InitType, NextType, PTL DEF Spec

----------------------------------------------------------------------------
(* The list of running keys and the stack of dialogs, as sets.             *)

LEMMA ElementsAppend ==
    ASSUME NEW S, NEW q \in Seq(S), NEW e \in S
    PROVE  Elements(Append(q, e)) = Elements(q) \cup {e}
  <1>1. /\ Len(q) \in Nat
        /\ Len(Append(q, e)) = Len(q) + 1
        /\ \A i \in 1 .. Len(q) : Append(q, e)[i] = q[i]
        /\ Append(q, e)[Len(q) + 1] = e
    BY AppendProperties, LenProperties
  <1>2. 1 .. (Len(q) + 1) = (1 .. Len(q)) \cup {Len(q) + 1}
    BY <1>1
  <1> QED
    BY <1>1, <1>2 DEF Elements

LEMMA ListedAppend ==
    ASSUME NEW q \in Seq(Keys \cup {NoKey}), NEW k \in Keys
    PROVE  Listed(Append(q, k)) = Listed(q) \cup {k}
  BY ElementsAppend, KeysAssumption DEF Listed

LEMMA ListedRemoveAll ==
    ASSUME NEW q \in Seq(Keys \cup {NoKey}), NEW k
    PROVE  Listed(RemoveAll(q, k)) = Listed(q) \ {k}
  <1>1. Len(q) \in Nat
    OBVIOUS
  <1>2. Len(RemoveAll(q, k)) = Len(q)
    BY <1>1 DEF RemoveAll
  <1>3. \A i \in 1 .. Len(q) :
            RemoveAll(q, k)[i] = IF q[i] = k THEN NoKey ELSE q[i]
    BY DEF RemoveAll
  <1> QED
    BY <1>2, <1>3 DEF Listed, Elements

LEMMA DialogsPush ==
    ASSUME TypeOK, NEW d \in Dialog, dialogs' = Append(dialogs, d)
    PROVE  Elements(dialogs') = Elements(dialogs) \cup {d}
  BY ElementsAppend DEF TypeOK, GuiTypeOK

LEMMA DialogsPop ==
    ASSUME TypeOK, dialogs # <<>>, Pop, NEW d \in Elements(dialogs), d # Top
    PROVE  d \in Elements(dialogs')
  <1>1. PICK i \in 1 .. Len(dialogs) : dialogs[i] = d
    BY DEF Elements
  <1>2. i # Len(dialogs)
    BY <1>1 DEF Top
  <1>3. i \in 1 .. Len(dialogs')
    BY <1>2, PopType
  <1>4. dialogs'[i] = d
    BY <1>1, <1>3, PopType
  <1> QED
    BY <1>3, <1>4 DEF Elements

----------------------------------------------------------------------------
(* RunningKeyHasClient.  By itself it is not inductive: a client that      *)
(* identifies itself again must not lose the key it is already listed for. *)

KnownByOwnKey ==
    \A c \in Conns : clientKey[c] # NoKey => clientKey[c] = key[c[1]]

ClientIInv == TypeOK /\ KnownByOwnKey /\ RunningKeyHasClient

\* Client c keeps key k listed.
Holds(k, c) ==
    /\ clientKey[c] = k
    /\ c \in open \/ [kind |-> "finished", client |-> c] \in Elements(dialogs)

LEMMA RunningKeyHolders ==
    RunningKeyHasClient <=>
        \A k \in Listed(keysRunning) : \E c \in Conns : Holds(k, c)
  BY DEF RunningKeyHasClient, Holds, ClientsOf

LEMMA ClientFrame ==
    ASSUME ClientIInv, UNCHANGED <<clientKey, key, keysRunning>>,
           open \subseteq open',
           \A c \in Conns : [kind |-> "finished", client |-> c] \in Elements(dialogs)
               => [kind |-> "finished", client |-> c] \in Elements(dialogs)'
    PROVE  KnownByOwnKey' /\ RunningKeyHasClient'
  BY DEF ClientIInv, KnownByOwnKey, RunningKeyHasClient, ClientsOf

LEMMA LaunchKeepsClients ==
    ASSUME ClientIInv, UserStarts
    PROVE  KnownByOwnKey' /\ RunningKeyHasClient'
  <1> USE DEF ClientIInv
  <1>1. UNCHANGED <<keysRunning, clientKey, open>>
    BY DEF UserStarts, serverVars
  <1>2. CASE StartEmbeddedProcess
    <2>1. [kind |-> "message", client |-> NoConn] \in Dialog
      BY DEF Dialog
    <2>2. Elements(dialogs) \subseteq Elements(dialogs)'
      BY <1>2, <2>1, DialogsPush DEF StartEmbeddedProcess
    <2> QED
      BY <1>1, <1>2, <2>2, ClientFrame DEF StartEmbeddedProcess
  <1>3. ASSUME NEW r \in Runs, StartRPCProcess(r)
        PROVE  KnownByOwnKey' /\ RunningKeyHasClient'
    <2>1. key[r] = NoKey /\ UNCHANGED dialogs
      BY <1>3 DEF StartRPCProcess
    <2>2. PICK k : key' = [key EXCEPT ![r] = k]
      BY <1>3 DEF StartRPCProcess
    <2>3. \A s \in Runs : key[s] # NoKey => key'[s] = key[s]
      BY <2>1, <2>2 DEF TypeOK, GuiTypeOK
    <2>4. KnownByOwnKey'
      BY <1>1, <2>3 DEF KnownByOwnKey, Conns
    <2>5. RunningKeyHasClient'
      BY <1>1, <2>1 DEF RunningKeyHasClient, ClientsOf
    <2> QED
      BY <2>4, <2>5
  <1> QED
    BY <1>2, <1>3 DEF UserStarts

LEMMA DismissKeepsClients ==
    ASSUME ClientIInv, Dismiss
    PROVE  KnownByOwnKey' /\ RunningKeyHasClient'
  <1> USE DEF ClientIInv
  <1>1. CASE DismissMessage \/ DismissExit
    <2>1. dialogs # <<>> /\ Pop /\ Top.kind # "finished"
      BY <1>1 DEF DismissMessage, DismissExit
    <2>2. UNCHANGED <<clientKey, key, keysRunning, open>>
      BY <1>1 DEF DismissMessage, DismissExit, runVars, serverVars
    <2> QED
      BY <2>1, <2>2, DialogsPop, ClientFrame
  <1>2. CASE DismissFinished
    <2> DEFINE gone == Top.client
    <2>1. /\ dialogs # <<>> /\ Pop
          /\ keysRunning' = RemoveAll(keysRunning, clientKey[gone])
          /\ clientKey' = [clientKey EXCEPT ![gone] = NoKey]
          /\ UNCHANGED <<key, open>>
      BY <1>2 DEF DismissFinished
    <2>2. KnownByOwnKey'
      BY <2>1 DEF KnownByOwnKey, TypeOK, GuiTypeOK
    <2>3. ASSUME NEW k \in Listed(keysRunning)'
          PROVE  \E c \in Conns : Holds(k, c)'
      <3>1. k \in Listed(keysRunning) /\ k # clientKey[gone]
        <4>1. keysRunning \in Seq(Keys \cup {NoKey})
          BY DEF TypeOK, GuiTypeOK
        <4>2. Listed(RemoveAll(keysRunning, clientKey[gone]))
              = Listed(keysRunning) \ {clientKey[gone]}
          BY <4>1, ListedRemoveAll
        <4> QED
          BY <2>1, <4>2
      <3>2. PICK c \in Conns : Holds(k, c)
        BY <3>1, RunningKeyHolders
      <3>3. c # gone
        BY <3>1, <3>2 DEF Holds
      <3>4. clientKey'[c] = k
        BY <2>1, <3>2, <3>3 DEF Holds, TypeOK, GuiTypeOK
      <3>5. [kind |-> "finished", client |-> c] # Top
        BY <3>3
      <3>6. c \in open' \/ [kind |-> "finished", client |-> c] \in Elements(dialogs')
        BY <2>1, <3>2, <3>5, DialogsPop DEF Holds
      <3> QED
        BY <3>4, <3>6 DEF Holds
    <2> QED
      BY <2>2, <2>3, RunningKeyHolders DEF RunningKeyHasClient, Holds, ClientsOf
  <1> QED
    BY <1>1, <1>2 DEF Dismiss

LEMMA IdentificationKeepsClients ==
    ASSUME ClientIInv, NEW c \in Conns, ReceiveIdentificationKey(c)
    PROVE  KnownByOwnKey' /\ RunningKeyHasClient'
  <1> USE DEF ClientIInv
  <1> DEFINE k == key[c[1]]
  <1>1. /\ c \in open
        /\ clientKey' = [clientKey EXCEPT ![c] = k]
        /\ UNCHANGED <<key, open, dialogs>>
        /\ HandleRemoteClient(k, clientKey')
    BY DEF ReceiveIdentificationKey, Incoming
  <1>2. \A d \in Conns : clientKey[d] # NoKey => clientKey'[d] = clientKey[d]
    BY <1>1 DEF KnownByOwnKey, TypeOK, GuiTypeOK
  <1>3. KnownByOwnKey'
    BY <1>1 DEF KnownByOwnKey, TypeOK, GuiTypeOK
  <1>4. Listed(keysRunning)' \subseteq Listed(keysRunning) \cup {k}
    <2>1. CASE k \in keysToStart
      <3>1. k \in Keys /\ keysRunning' = Append(keysRunning, k)
        BY <1>1, <2>1 DEF HandleRemoteClient, TypeOK, GuiTypeOK
      <3> QED
        BY <3>1, ListedAppend DEF TypeOK, GuiTypeOK
    <2>2. CASE k \notin keysToStart
      BY <1>1, <2>2 DEF HandleRemoteClient
    <2> QED
      BY <2>1, <2>2
  <1>5. ASSUME NEW l \in Listed(keysRunning)'
        PROVE  \E d \in Conns : Holds(l, d)'
    <2>1. CASE l = k
      <3>1. clientKey'[c] = k
        BY <1>1 DEF TypeOK, GuiTypeOK
      <3> QED
        BY <1>1, <2>1, <3>1 DEF Holds
    <2>2. CASE l # k
      <3>1. l \in Listed(keysRunning) /\ l # NoKey
        BY <1>4, <2>2 DEF Listed
      <3>2. PICK d \in Conns : Holds(l, d)
        BY <3>1, RunningKeyHolders
      <3> QED
        BY <1>1, <1>2, <3>1, <3>2 DEF Holds
    <2> QED
      BY <2>1, <2>2
  <1> QED
    BY <1>3, <1>5 DEF RunningKeyHasClient, Holds, ClientsOf

LEMMA DisconnectionKeepsClients ==
    ASSUME ClientIInv, NEW c \in Conns, OnClientDisconnected(c)
    PROVE  KnownByOwnKey' /\ RunningKeyHasClient'
  <1> USE DEF ClientIInv
  <1> DEFINE frame == [kind |-> "finished", client |-> c]
  <1>1. open' = open \ {c} /\ UNCHANGED <<key, keysRunning>>
    BY DEF OnClientDisconnected, runVars
  <1>2. frame \in Dialog
    BY DEF Dialog
  <1>3. CASE IsRunningClient(c)
    <2>1. clientKey' = clientKey /\ Elements(dialogs)' = Elements(dialogs) \cup {frame}
      BY <1>2, <1>3, DialogsPush DEF OnClientDisconnected
    <2>2. KnownByOwnKey'
      BY <1>1, <2>1 DEF KnownByOwnKey
    <2>3. \A k, d : Holds(k, d) => Holds(k, d)'
      BY <1>1, <2>1 DEF Holds
    <2> QED
      BY <1>1, <2>2, <2>3, RunningKeyHolders
      DEF RunningKeyHasClient, Holds, ClientsOf
  <1>4. CASE ~IsRunningClient(c)
    <2>1. clientKey' = [clientKey EXCEPT ![c] = NoKey] /\ UNCHANGED dialogs
      BY <1>4 DEF OnClientDisconnected
    <2>2. KnownByOwnKey'
      BY <1>1, <2>1 DEF KnownByOwnKey, TypeOK, GuiTypeOK
    <2>3. \A k \in Listed(keysRunning), d \in Conns : Holds(k, d) => Holds(k, d)'
      BY <1>1, <1>4, <2>1 DEF Holds, IsRunningClient, TypeOK, GuiTypeOK
    <2> QED
      BY <1>1, <2>2, <2>3, RunningKeyHolders
      DEF RunningKeyHasClient, Holds, ClientsOf
  <1> QED
    BY <1>3, <1>4

\* However clients come, go and are interleaved with the message boxes, a
\* listed key always belongs to a client the server still remembers.
THEOREM RunningKeysHaveClients == Spec => []RunningKeyHasClient
  <1>1. Init => ClientIInv
    <2> SUFFICES ASSUME Init PROVE KnownByOwnKey /\ RunningKeyHasClient
      BY InitType DEF ClientIInv
    <2>1. KnownByOwnKey
      BY DEF Init, GuiInit, KnownByOwnKey
    <2>2. Listed(keysRunning) = {}
      BY DEF Init, GuiInit, Listed, Elements
    <2> QED
      BY <2>1, <2>2 DEF RunningKeyHasClient
  <1>2. ClientIInv /\ [Next]_vars => ClientIInv'
    <2> SUFFICES ASSUME ClientIInv, [Next]_vars
                 PROVE  KnownByOwnKey' /\ RunningKeyHasClient'
      BY NextType DEF ClientIInv
    <2>1. CASE UNCHANGED guiVars
      BY <2>1, ClientFrame DEF guiVars, runVars, serverVars
    <2>2. CASE User
      <3>1. CASE UserStops
        BY <3>1, ClientFrame DEF UserStops, serverVars
      <3> QED
        BY <2>2, <3>1, LaunchKeepsClients, DismissKeepsClients DEF User
    <2>3. CASE LocalExit
      <3>1. [kind |-> "exit", client |-> NoConn] \in Dialog
        BY DEF Dialog
      <3>2. Elements(dialogs) \subseteq Elements(dialogs)'
        BY <2>3, <3>1, DialogsPush DEF LocalExit, LocalProcessExits, ClientIInv
      <3> QED
        BY <2>3, <3>2, ClientFrame DEF LocalExit, LocalProcessExits, serverVars
    <2>4. ASSUME NEW r \in Runs, Connect(r)
          PROVE  KnownByOwnKey' /\ RunningKeyHasClient'
      BY <2>4, ClientFrame DEF Connect, ClientConnected, runVars
    <2>5. ASSUME NEW c \in Conns, ServerStep(c)
          PROVE  KnownByOwnKey' /\ RunningKeyHasClient'
      <3>1. CASE ReconstructionStarted(c) \/ ReconstructionStopped(c) \/ ReceiveLogLine(c)
        BY <3>1, ClientFrame
        DEF ReconstructionStarted, ReconstructionStopped, ReceiveLogLine, guiVars,
            runVars, serverVars
      <3>2. CASE DisplayMessage(c)
        <4>1. [kind |-> "message", client |-> c] \in Dialog
          BY DEF Dialog
        <4>2. Elements(dialogs) \subseteq Elements(dialogs)'
          BY <3>2, <4>1, DialogsPush DEF DisplayMessage, ClientIInv
        <4> QED
          BY <3>2, <4>2, ClientFrame DEF DisplayMessage, runVars, serverVars
      <3> QED
        BY <2>5, <3>1, <3>2, IdentificationKeepsClients, DisconnectionKeepsClients
        DEF ServerStep, ServerReceive
    <2> QED
      BY <2>1, <2>2, <2>3, <2>4, <2>5
      DEF Next, Launch, Peer, LinkBreaks, vars
  <1> QED
    BY <1>1, <1>2, PTL DEF Spec, ClientIInv

----------------------------------------------------------------------------
(* What the Run button says of the runs.                                   *)

\* A dialog that is shown stays until it is the innermost one and dismissed.
LEMMA ExitKept ==
    ASSUME TypeOK,
           \/ UNCHANGED dialogs
           \/ \E d \in Dialog : dialogs' = Append(dialogs, d)
           \/ dialogs # <<>> /\ Pop /\ Top.kind # "exit",
           \E i \in 1 .. Len(dialogs) : dialogs[i].kind = "exit"
    PROVE  \E i \in 1 .. Len(dialogs') : dialogs'[i].kind = "exit"
  <1>1. PICK i \in 1 .. Len(dialogs) : dialogs[i].kind = "exit"
    OBVIOUS
  <1>2. dialogs \in Seq(Dialog) /\ Len(dialogs) \in Nat
    BY DEF TypeOK, GuiTypeOK
  <1>3. CASE UNCHANGED dialogs
    BY <1>1, <1>3
  <1>4. ASSUME NEW d \in Dialog, dialogs' = Append(dialogs, d)
        PROVE  i \in 1 .. Len(dialogs') /\ dialogs'[i] = dialogs[i]
    BY <1>1, <1>2, <1>4, AppendProperties
  <1>5. CASE dialogs # <<>> /\ Pop /\ Top.kind # "exit"
    <2>1. /\ Len(dialogs) \in Nat \ {0} /\ Len(dialogs') = Len(dialogs) - 1
          /\ \A j \in 1 .. Len(dialogs') : dialogs'[j] = dialogs[j]
      BY <1>5, PopType
    <2>2. i # Len(dialogs)
      BY <1>1, <1>5 DEF Top
    <2>3. i \in 1 .. Len(dialogs')
      BY <1>1, <2>1, <2>2
    <2> QED
      BY <1>1, <2>1, <2>3
  <1> QED
    BY <1>1, <1>3, <1>4, <1>5

LEMMA ButtonStep ==
    ASSUME TypeOK, ButtonHonest, [Next]_vars
    PROVE  ButtonHonest' \/ (LaunchFails /\ "launch" \in Failures)
  <1> DEFINE Exits == \E i \in 1 .. Len(dialogs) : dialogs[i].kind = "exit"
  <1>t. /\ keysRunning \in Seq(Keys \cup {NoKey}) /\ keysToStart \subseteq Keys
        /\ dialogs \in Seq(Dialog)
    BY DEF TypeOK, GuiTypeOK
  <1>1. CASE /\ UNCHANGED <<checked, local, keysToStart, keysRunning>>
             /\ \/ UNCHANGED dialogs
                \/ \E d \in Dialog : dialogs' = Append(dialogs, d)
                \/ dialogs # <<>> /\ Pop /\ Top.kind # "exit"
    <2>1. Exits => Exits'
      BY <1>1, ExitKept
    <2> QED
      BY <1>1, <2>1 DEF ButtonHonest
  <1>2. CASE checked' = FALSE
    BY <1>2 DEF ButtonHonest
  <1>3. CASE UserStarts
    <2>1. ASSUME NEW r \in Runs, StartRPCProcess(r) PROVE ButtonHonest'
      <3>1. keysToStart' # {}
        BY <2>1 DEF StartRPCProcess
      <3> QED
        BY <3>1 DEF ButtonHonest
    <2>2. CASE StartEmbeddedProcess
      <3>1. CASE local'
        BY <3>1 DEF ButtonHonest
      <3>2. CASE ~local' /\ checked'
        BY <1>3, <2>2, <3>2 DEF UserStarts, StartEmbeddedProcess, LaunchFails
      <3> QED
        BY <1>2, <2>2, <3>1, <3>2 DEF StartEmbeddedProcess, ReplaceProcess, ButtonHonest
    <2> QED
      BY <1>3, <2>1, <2>2 DEF UserStarts
  <1>4. CASE UserStops
    BY <1>2, <1>4 DEF UserStops
  <1>5. CASE LocalExit
    <2>1. CASE ProcessFinished(keysRunning, clientKey, FALSE)
      BY <1>2, <2>1 DEF ProcessFinished
    <2>2. CASE dialogs' = Append(dialogs, [kind |-> "exit", client |-> NoConn])
      <3>1. [kind |-> "exit", client |-> NoConn] \in Dialog
        BY DEF Dialog
      <3>2. /\ Len(dialogs') = Len(dialogs) + 1 /\ Len(dialogs) \in Nat
            /\ dialogs'[Len(dialogs) + 1] = [kind |-> "exit", client |-> NoConn]
        BY <1>t, <2>2, <3>1, AppendProperties, LenProperties
      <3>3. Exits'
        BY <3>2
      <3> QED
        BY <3>3 DEF ButtonHonest
    <2> QED
      BY <1>5, <2>1, <2>2 DEF LocalExit, LocalProcessExits
  <1>6. CASE Dismiss
    <2>1. CASE DismissMessage
      BY <1>1, <2>1 DEF DismissMessage, runVars
    <2> QED
      BY <1>2, <1>6, <2>1 DEF Dismiss, DismissExit, DismissFinished, ProcessFinished
  <1>7. ASSUME NEW c \in Conns, ServerStep(c)
        PROVE  ButtonHonest'
    <2>1. CASE ReceiveIdentificationKey(c)
      <3>1. /\ HandleRemoteClient(key[c[1]], clientKey')
            /\ UNCHANGED <<checked, local, dialogs>>
        BY <2>1 DEF ReceiveIdentificationKey
      <3>2. CASE key[c[1]] \in keysToStart
        <4>1. Listed(keysRunning') = Listed(keysRunning) \cup {key[c[1]]}
          BY <1>t, <3>1, <3>2, ListedAppend DEF HandleRemoteClient
        <4> QED
          BY <4>1 DEF ButtonHonest
      <3>3. CASE key[c[1]] \notin keysToStart
        BY <1>1, <3>1, <3>3 DEF HandleRemoteClient, ButtonHonest
      <3> QED
        BY <3>2, <3>3
    <2>2. CASE ReconstructionStarted(c) \/ ReconstructionStopped(c) \/ ReceiveLogLine(c)
      BY <1>1, <2>2
      DEF ReconstructionStarted, ReconstructionStopped, ReceiveLogLine, guiVars, runVars,
          ButtonHonest
    <2>3. CASE DisplayMessage(c) \/ OnClientDisconnected(c)
      <3>1. /\ [kind |-> "message", client |-> c] \in Dialog
            /\ [kind |-> "finished", client |-> c] \in Dialog
        BY DEF Dialog
      <3>2. /\ UNCHANGED <<checked, local, keysToStart, keysRunning>>
            /\ UNCHANGED dialogs \/ \E d \in Dialog : dialogs' = Append(dialogs, d)
        BY <2>3, <3>1 DEF DisplayMessage, OnClientDisconnected, runVars
      <3>3. Exits => Exits'
        BY <3>2, ExitKept
      <3> QED
        BY <3>2, <3>3 DEF ButtonHonest
    <2> QED
      BY <1>7, <2>1, <2>2, <2>3 DEF ServerStep, ServerReceive
  <1>8. CASE \/ UNCHANGED vars
             \/ \E r \in Runs : Launch(r) \/ Connect(r) \/ Peer(r)
             \/ \E c \in Conns : LinkBreaks(c)
    BY <1>1, <1>8
    DEF vars, Launch, Connect, ClientConnected, Peer, LinkBreaks, guiVars, runVars
  <1> QED
    BY <1>3, <1>4, <1>5, <1>6, <1>7, <1>8 DEF Next, User

\* The only step that leaves Run checked with nothing behind it is the launch of
\* a local uwrapc that does not start (ProcessControl::startEmbeddedProcess):
\* no order of ends, stops, lost links and message boxes does.
THEOREM OnlyLaunchMisleads == Spec => OnlyFailedLaunchMisleads
  <1>1. TypeOK /\ [Next]_vars => TypeOK'
    BY NextType
  <1>2. TypeOK /\ [Next]_vars => [ButtonHonest => ButtonHonest' \/ LaunchFails]_vars
    BY ButtonStep
  <1> QED
    BY InitType, <1>1, <1>2, PTL DEF Spec, OnlyFailedLaunchMisleads

\* So, while local launches succeed, a checked Run button always has a run to
\* show for it (HawkGUI::onProcessFinished, ProcessControl::cleanRemoteClient).
THEOREM ButtonStaysHonest == ASSUME "launch" \notin Failures PROVE Spec => []ButtonHonest
  <1>1. TypeOK /\ ButtonHonest /\ [Next]_vars => TypeOK' /\ ButtonHonest'
    BY NextType, ButtonStep
  <1>2. Init => TypeOK /\ ButtonHonest
    BY InitType DEF Init, GuiInit, ButtonHonest
  <1> QED
    BY <1>1, <1>2, PTL DEF Spec
=============================================================================
