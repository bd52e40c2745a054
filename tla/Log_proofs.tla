----------------------------- MODULE Log_proofs -----------------------------
(***************************************************************************)
(* Proofs about the log lines of remote runs, for any number of runs, lines *)
(* and connections: none is lost between the worker and the server before  *)
(* the server dismisses the peer.  Then about the ends of these runs: the  *)
(* report of each is under way until it is handled.                        *)
(***************************************************************************)
EXTENDS Protocol_proofs, FiniteSetTheorems

----------------------------------------------------------------------------
(* Counting the lines in a queue.                                          *)

Lines(q) == Cardinality({i \in 1 .. Len(q) : q[i] = "log"})

LEMMA LinesFinite ==
    ASSUME NEW S, NEW q \in Seq(S)
    PROVE  /\ Lines(q) \in Nat /\ IsFiniteSet({i \in 1 .. Len(q) : q[i] = "log"})
           /\ ~Has(q, "log") <=> Lines(q) = 0
  <1> DEFINE P == {i \in 1 .. Len(q) : q[i] = "log"}
  <1>1. IsFiniteSet(1 .. Len(q))
    BY LenProperties, FS_Interval
  <1>2. P \in SUBSET (1 .. Len(q))
    OBVIOUS
  <1>3. IsFiniteSet(P)
    BY <1>1, <1>2, FS_Subset
  <1>4. Cardinality(P) \in Nat /\ (Cardinality(P) = 0 <=> P = {})
    BY <1>3, FS_CardinalityType, FS_EmptySet
  <1> QED
    BY <1>3, <1>4 DEF Lines, Has

LEMMA LinesType ==
    ASSUME NEW S, NEW q \in Seq(S)
    PROVE  Lines(q) \in Nat /\ (~Has(q, "log") => Lines(q) = 0)
  BY LinesFinite

LEMMA LinesEmpty == Lines(<<>>) = 0
  <1>1. ~Has(<<>>, "log")
    BY DEF Has
  <1> QED
    BY <1>1, EmptySeq, LinesType

LEMMA LinesAppend ==
    ASSUME NEW S, NEW q \in Seq(S), NEW e \in S
    PROVE  Lines(Append(q, e)) = Lines(q) + (IF e = "log" THEN 1 ELSE 0)
  <1> DEFINE P == {i \in 1 .. Len(q) : q[i] = "log"}
             A == {i \in 1 .. Len(Append(q, e)) : Append(q, e)[i] = "log"}
  <1>1. /\ Len(q) \in Nat /\ Len(Append(q, e)) = Len(q) + 1
        /\ \A i \in 1 .. Len(q) : Append(q, e)[i] = q[i]
        /\ Append(q, e)[Len(q) + 1] = e
    BY AppendProperties, LenProperties
  <1>2. IsFiniteSet(P) /\ Len(q) + 1 \notin P
    BY <1>1, LinesFinite
  <1>3. CASE e = "log"
    <2>1. A = P \cup {Len(q) + 1}
      BY <1>1, <1>3
    <2> QED
      BY <1>2, <1>3, <2>1, FS_AddElement DEF Lines
  <1>4. CASE e # "log"
    <2>1. A = P
      BY <1>1, <1>4
    <2>2. Cardinality(P) \in Nat
      BY LinesType DEF Lines
    <2>3. Lines(Append(q, e)) = Cardinality(A) /\ Lines(q) = Cardinality(P)
      BY DEF Lines
    <2> HIDE DEF P, A
    <2> QED
      BY <1>4, <2>1, <2>2, <2>3
  <1> QED
    BY <1>3, <1>4

LEMMA LinesTail ==
    ASSUME NEW S, NEW q \in Seq(S), q # <<>>
    PROVE  Lines(q) = Lines(Tail(q)) + (IF Head(q) = "log" THEN 1 ELSE 0)
  <1> DEFINE P == {i \in 1 .. Len(q) : q[i] = "log"}
             T == {i \in 1 .. Len(Tail(q)) : Tail(q)[i] = "log"}
             Rest == P \ {1}
             f == [i \in T |-> i + 1]
  <1>1. /\ Len(q) \in Nat \ {0} /\ Head(q) = q[1] /\ Tail(q) \in Seq(S)
        /\ Len(Tail(q)) = Len(q) - 1
        /\ \A i \in 1 .. Len(Tail(q)) : Tail(q)[i] = q[i + 1]
    BY HeadTailProperties, EmptySeq
  <1>2. f \in Bijection(T, Rest)
    <2>1. f \in [T -> Rest]
      BY <1>1
    <2>2. \A i, j \in T : f[i] = f[j] => i = j
      BY <1>1
    <2>3. \A k \in Rest : k - 1 \in T /\ f[k - 1] = k
      BY <1>1
    <2>4. f \in Injection(T, Rest) /\ f \in Surjection(T, Rest)
      BY <2>1, <2>2, <2>3 DEF Injection, IsInjective, Surjection
    <2> QED
      BY <2>4 DEF Bijection
  <1>3. IsFiniteSet(P) /\ IsFiniteSet(T)
    BY <1>1, LinesFinite
  <1>4. Cardinality(Rest) = Cardinality(T)
    BY <1>2, <1>3, FS_Bijection DEF ExistsBijection
  <1>5. Cardinality(Rest) = IF 1 \in P THEN Cardinality(P) - 1 ELSE Cardinality(P)
    BY <1>3, FS_RemoveElement
  <1>6. 1 \in P <=> Head(q) = "log"
    BY <1>1
  <1>7. Lines(q) = Cardinality(P) /\ Lines(Tail(q)) = Cardinality(T)
    BY DEF Lines
  <1>8. Cardinality(P) \in Nat /\ Cardinality(T) \in Nat
    BY <1>3, FS_CardinalityType
  <1> HIDE DEF P, T, Rest
  <1> QED
    BY <1>4, <1>5, <1>6, <1>7, <1>8
----------------------------------------------------------------------------
(* LogComplete.  The lines of a run that was not told to stop are counted   *)
(* where they are: queued in the peer, under way, or with the server.      *)

First(r) == <<r, 1>>

\* A box that announces the end of a client is about one that has gone.
BoxesOfGone ==
    \A d \in Elements(dialogs) : d.kind = "finished" =>
        /\ d.client \in Conns /\ d.client \notin open
        /\ d.client[2] <= conn[d.client[1]]

\* A run stays listed, and its client known, while that client is open: no
\* line of it is refused.
OpenListed ==
    \A r \in Runs : First(r) \in open /\ ServedRun(r) =>
        clientKey[First(r)] = key[r] /\ key[r] \in Listed(keysRunning)

\* A link that is up belongs to the peer's current socket.
Sockets ==
    /\ \A c \in Conns :
           /\ c[2] <= conn[c[1]] => link[c] # "unused"
           /\ link[c] = "up" => c[2] = conn[c[1]] /\ socket[c[1]] # "unconnected"
    /\ \A r \in Runs : socket[r] = "connecting" /\ conn[r] = 1 => timer[r] = "timeout"

LinksInv == BoxesOfGone /\ OpenListed /\ Sockets

EndsLast(q) == \A i \in 1 .. Len(q) : q[i] = "finished" => i = Len(q)

\* The end of the run is behind all of its lines, and no line is missing.
LinesInOrder(r) ==
    /\ Has(toServer[First(r)], "stopped") \/ Has(toPeer[First(r)], "quit") => events[r] = <<>>
    /\ NeverBehind(toServer[First(r)], "log", "stopped")
    /\ Has(toPeer[First(r)], "quit") =>
           ~Has(toServer[First(r)], "log") /\ logged[First(r)] = logLines[r]
    /\ link[First(r)] = "up" =>
           logged[First(r)] + Lines(toServer[First(r)]) + Lines(events[r]) = logLines[r]

LogFlow(r) ==
    /\ waiting[r] => stopReq[r]
    /\ thread[r] = "none" => events[r] = <<>> /\ logLines[r] = 0
    /\ link[First(r)] = "unused" => thread[r] = "none" /\ logged[First(r)] = 0
    /\ EndsLast(events[r])
    /\ ~stopReq[r] => LinesInOrder(r)

LogInv == ServiceInv /\ LinksInv /\ \A r \in Runs : LogFlow(r)
----------------------------------------------------------------------------
(* The links.                                                              *)

LEMMA BoxesStep ==
    ASSUME ServiceInv, LinksInv, [Next]_vars
    PROVE  BoxesOfGone'
  <1> USE IdentTypes DEF ServiceInv, IdentInv, KeysInv, LinksInv
  <1> DEFINE Box(c) == [kind |-> "finished", client |-> c]
  <1>t. dialogs \in Seq(Dialog) /\ \A c \in Conns : Box(c) \in Dialog
    BY DEF TypeOK, GuiTypeOK, Dialog
  <1>1. CASE UNCHANGED <<dialogs, open, conn>>
    BY <1>1 DEF BoxesOfGone
  <1>2. ASSUME NEW d \in Dialog, d.kind # "finished", dialogs' = Append(dialogs, d),
               UNCHANGED <<open, conn>>
        PROVE  BoxesOfGone'
    <2>1. Elements(dialogs') = Elements(dialogs) \cup {d}
      BY <1>2, DialogsPush
    <2> QED
      BY <1>2, <2>1 DEF BoxesOfGone
  <1>3. CASE dialogs # <<>> /\ Pop /\ UNCHANGED <<open, conn>>
    <2>1. Elements(dialogs') \subseteq Elements(dialogs)
      BY <1>3, PopType DEF Elements
    <2> QED
      BY <1>3, <2>1 DEF BoxesOfGone
  <1>4. ASSUME NEW c \in Conns, OnClientDisconnected(c), UNCHANGED conn
        PROVE  BoxesOfGone'
    <2>1. open' = open \ {c} /\ c \in open
      BY <1>4 DEF OnClientDisconnected
    <2>2. c[2] <= conn[c[1]]
      BY <2>1 DEF Identified, ConnectionsMade
    <2>3. Elements(dialogs') \subseteq Elements(dialogs) \cup {Box(c)}
      BY <1>t, <1>4, DialogsPush DEF OnClientDisconnected
    <2> QED
      BY <1>4, <2>1, <2>2, <2>3 DEF BoxesOfGone
  <1>5. ASSUME NEW r \in Runs, Connect(r) PROVE BoxesOfGone'
    <2>1. /\ conn' = [conn EXCEPT ![r] = @ + 1] /\ UNCHANGED dialogs
          /\ open' = open \cup {<<r, conn[r] + 1>>}
      BY <1>5 DEF Connect, PeerConnect, ClientConnected
    <2>2. conn[r] \in Nat /\ conn'[r] = conn[r] + 1 /\ \A s \in Runs \ {r} : conn'[s] = conn[s]
      BY <2>1, MaxConnsAssumption
    <2> QED
      BY <2>1, <2>2, MaxConnsAssumption DEF BoxesOfGone
  <1>6. CASE User
    <2>1. UNCHANGED <<open, conn>>
      BY <1>6 DEF User, UserStarts, UserStops, Dismiss, DismissMessage, DismissExit,
        DismissFinished, serverVars, peerVars
    <2>2. CASE UserStarts
      <3>1. [kind |-> "message", client |-> NoConn] \in Dialog
        BY DEF Dialog
      <3> QED
        BY <1>1, <1>2, <2>1, <2>2, <3>1
        DEF UserStarts, StartEmbeddedProcess, StartRPCProcess
    <2>3. CASE UserStops
      BY <1>1, <2>1, <2>3 DEF UserStops
    <2>4. CASE Dismiss
      BY <1>3, <2>1, <2>4 DEF Dismiss, DismissMessage, DismissExit, DismissFinished
    <2> QED
      BY <1>6, <2>2, <2>3, <2>4 DEF User
  <1>7. CASE LocalExit
    <2>1. [kind |-> "exit", client |-> NoConn] \in Dialog
      BY DEF Dialog
    <2> QED
      BY <1>1, <1>2, <1>7, <2>1 DEF LocalExit, LocalProcessExits, serverVars, peerVars
  <1>8. ASSUME NEW c \in Conns, ServerStep(c) PROVE BoxesOfGone'
    <2>1. UNCHANGED conn
      BY <1>8 DEF ServerStep, peerVars
    <2>2. CASE OnClientDisconnected(c)
      BY <1>4, <2>1, <2>2
    <2>3. CASE ServerReceive(c)
      <3>1. [kind |-> "message", client |-> c] \in Dialog
        BY DEF Dialog
      <3> QED
        BY <1>1, <1>2, <2>1, <2>3, <3>1
        DEF ServerReceive, ReceiveIdentificationKey, ReconstructionStarted,
            ReconstructionStopped, ReceiveLogLine, DisplayMessage, guiVars, serverVars
    <2> QED
      BY <1>8, <2>2, <2>3 DEF ServerStep
  <1>9. ASSUME NEW r \in Runs, Peer(r) PROVE UNCHANGED conn
    BY <1>9 DEF Peer, PeerStep, ConnectionEstablished, ConnectionRecovered, ConnectionLost,
      CheckTimeOut, PeerDies, Quit, Exit, ReceiveOptions, StartReconstruction,
      StopReconstruction, StopReturns, DeliverSignal, WorkerBegins, WorkerEnds, WorkerEmits
  <1>10. ASSUME NEW r \in Runs, NEW c, Launch(r) \/ Peer(r) \/ LinkBreaks(c)
         PROVE  BoxesOfGone'
    BY <1>1, <1>9, <1>10
    DEF Launch, PeerStart, Peer, LinkBreaks, guiVars, serverVars, peerVars
  <1>11. CASE UNCHANGED vars
    BY <1>1, <1>11 DEF vars, guiVars, serverVars, peerVars
  <1> QED
    BY <1>5, <1>6, <1>7, <1>8, <1>10, <1>11 DEF Next
LEMMA OpenListedFrame ==
    ASSUME OpenListed,
           \A r \in Runs : First(r) \in open' /\ ServedRun(r)' =>
               /\ First(r) \in open /\ ServedRun(r) /\ key'[r] = key[r]
               /\ clientKey'[First(r)] = clientKey[First(r)]
               /\ key[r] \in Listed(keysRunning) => key[r] \in Listed(keysRunning')
    PROVE  OpenListed'
  BY DEF OpenListed, First

LEMMA OpenListedStep ==
    ASSUME FreshKeys, ServiceInv, LinksInv, [Next]_vars
    PROVE  OpenListed'
  <1> USE IdentTypes DEF ServiceInv, IdentInv, KeysInv, LinksInv
  <1>t. /\ \A r \in Runs : First(r) \in Conns /\ First(r)[1] = r /\ First(r)[2] = 1
        /\ keysRunning \in Seq(Keys \cup {NoKey})
    BY MaxConnsAssumption DEF First, Conns, TypeOK, GuiTypeOK
  <1>1. CASE UNCHANGED <<open, clientKey, key, keysToStart, keysRunning>>
    BY <1>1 DEF OpenListed, ServedRun, First
  <1>2. ASSUME NEW r \in Runs, StartRPCProcess(r), UNCHANGED <<open, clientKey, keysRunning>>
        PROVE  OpenListed'
    <2>1. PICK k \in FreeKeys : /\ keysToStart' = keysToStart \cup {k}
                                /\ key' = [key EXCEPT ![r] = k]
      BY <1>2 DEF StartRPCProcess
    <2> QED
      BY <1>2, <2>1, OpenListedFrame DEF ServedRun
  <1>3. ASSUME NEW c \in Conns, ReceiveIdentificationKey(c) PROVE OpenListed'
    <2> DEFINE k == key[c[1]]
    <2>1. /\ Has(toServer[c], "key")
          /\ clientKey' = [clientKey EXCEPT ![c] = k]
          /\ HandleRemoteClient(k, clientKey') /\ UNCHANGED <<key, open>>
      BY <1>3, HasTail DEF ReceiveIdentificationKey, Incoming
    <2>2. c[2] = 1 /\ k \in keysToStart /\ k \in Keys /\ k # NoKey
      BY <2>1 DEF Identified, KeySentOnce
    <2>3. /\ keysToStart' = keysToStart \ {k}
          /\ Listed(keysRunning') = Listed(keysRunning) \cup {k}
      BY <1>t, <2>1, <2>2, ListedAppend DEF HandleRemoteClient
    <2>4. \A r \in Runs : key[r] = k => r = c[1]
      BY <2>2 DEF KeysInjective
    <2>5. First(c[1]) = c
      BY <2>2 DEF First
    <2>6. ASSUME NEW r \in Runs, First(r) \in open', ServedRun(r)'
          PROVE  clientKey'[First(r)] = key'[r] /\ key'[r] \in Listed(keysRunning')
      <3>1. CASE r = c[1]
        BY <2>1, <2>3, <2>5, <3>1
      <3>2. CASE r # c[1]
        <4>1. ServedRun(r) /\ First(r) # c
          BY <1>t, <2>1, <2>3, <2>4, <2>6, <3>2 DEF ServedRun
        <4> QED
          BY <1>t, <2>1, <2>3, <2>6, <4>1 DEF OpenListed
      <3> QED
        BY <3>1, <3>2
    <2> QED
      BY <2>6 DEF OpenListed, First
  <1>4. ASSUME NEW c \in Conns, OnClientDisconnected(c) PROVE OpenListed'
    <2>1. /\ open' = open \ {c} /\ UNCHANGED <<key, keysToStart, keysRunning>>
          /\ clientKey' \in {clientKey, [clientKey EXCEPT ![c] = NoKey]}
      BY <1>4 DEF OnClientDisconnected, runVars
    <2> QED
      BY <1>t, <2>1, OpenListedFrame DEF ServedRun
  <1>5. CASE DismissFinished
    <2> DEFINE gone == Top.client
    <2>1. /\ dialogs # <<>> /\ Top.kind = "finished"
          /\ keysRunning' = RemoveAll(keysRunning, clientKey[gone])
          /\ clientKey' = [clientKey EXCEPT ![gone] = NoKey]
          /\ UNCHANGED <<key, keysToStart, open>>
      BY <1>5 DEF DismissFinished
    <2>2. Listed(keysRunning') = Listed(keysRunning) \ {clientKey[gone]}
      BY <1>t, <2>1, ListedRemoveAll
    <2>3. gone \in Conns /\ gone \notin open
      <3>1. Len(dialogs) \in 1 .. Len(dialogs) /\ Top \in Dialog
        <4>1. dialogs \in Seq(Dialog)
          BY DEF TypeOK, GuiTypeOK
        <4>2. Len(dialogs) \in Nat \ {0}
          BY <2>1, <4>1, EmptySeq, LenProperties
        <4> QED
          BY <4>1, <4>2, ElementOfSeq DEF Top
      <3>2. Top \in Elements(dialogs)
        BY <3>1 DEF Elements, Top
      <3> QED
        BY <2>1, <3>2 DEF BoxesOfGone
    <2>4. ASSUME NEW r \in Runs, First(r) \in open', ServedRun(r)'
          PROVE  clientKey'[First(r)] = key'[r] /\ key'[r] \in Listed(keysRunning')
      <3>1. /\ First(r) \in open /\ ServedRun(r) /\ key'[r] = key[r] /\ key[r] # NoKey
            /\ clientKey[First(r)] = key[r] /\ key[r] \in Listed(keysRunning)
        BY <2>1, <2>4 DEF ServedRun, OpenListed
      <3>2. First(r) # gone
        BY <1>t, <2>3, <3>1
      <3>3. clientKey'[First(r)] = key[r]
        BY <1>t, <2>1, <3>1, <3>2
      <3>4. ASSUME clientKey[gone] = key[r] PROVE FALSE
        <4>1. key[gone[1]] = key[r] /\ gone[2] = 1
          BY <2>3, <3>1, <3>4 DEF Identified, ClientsKnown
        <4>2. gone[1] = r
          BY <2>3, <3>1, <4>1 DEF KeysInjective
        <4> QED
          BY <2>3, <3>2, <4>1, <4>2 DEF First
      <3> QED
        BY <2>1, <2>2, <3>1, <3>3, <3>4
    <2> QED
      BY <2>4 DEF OpenListed, First
  <1>6. ASSUME NEW r \in Runs, Connect(r) PROVE OpenListed'
    <2>1. /\ open' = open \cup {<<r, conn[r] + 1>>} /\ timer[r] # "off" /\ proc[r] = "alive"
          /\ UNCHANGED <<clientKey, key, keysToStart, keysRunning>>
      BY <1>6 DEF Connect, PeerConnect, Looping, ClientConnected, runVars
    <2>2. conn[r] = 0 => ~ServedRun(r)
      BY <2>1 DEF Identified, Connecting, ServedRun
    <2>3. First(r) = <<r, conn[r] + 1>> => conn[r] = 0
      BY MaxConnsAssumption DEF First
    <2>4. \A s \in Runs \ {r} : First(s) # <<r, conn[r] + 1>>
      BY DEF First
    <2> QED
      BY <2>1, <2>2, <2>3, <2>4, OpenListedFrame DEF ServedRun
  <1>7. CASE User
    <2>1. CASE UserStarts
      BY <1>1, <1>2, <2>1 DEF UserStarts, StartEmbeddedProcess, serverVars
    <2>2. CASE UserStops
      BY <1>1, <2>2 DEF UserStops, serverVars
    <2>3. CASE Dismiss
      BY <1>1, <1>5, <2>3 DEF Dismiss, DismissMessage, DismissExit, runVars, serverVars
    <2> QED
      BY <1>7, <2>1, <2>2, <2>3 DEF User
  <1>8. ASSUME NEW c \in Conns, ServerStep(c) PROVE OpenListed'
    BY <1>1, <1>3, <1>4, <1>8
    DEF ServerStep, ServerReceive, ReconstructionStarted, ReconstructionStopped,
        ReceiveLogLine, DisplayMessage, guiVars, runVars, serverVars
  <1>9. ASSUME NEW r, NEW c, Launch(r) \/ Peer(r) \/ LinkBreaks(c)
        PROVE  OpenListed'
    BY <1>1, <1>9 DEF Launch, Peer, LinkBreaks, guiVars, runVars, serverVars
  <1>10. CASE LocalExit \/ UNCHANGED vars
    BY <1>1, <1>10
    DEF LocalExit, LocalProcessExits, vars, guiVars, runVars, serverVars
  <1> QED
    BY <1>6, <1>7, <1>8, <1>9, <1>10 DEF Next

\* A socket is given up once its link is down.
LEMMA SocketLost ==
    ASSUME TypeOK, Sockets, NEW r \in Runs,
           socket' = [socket EXCEPT ![r] = "unconnected"],
           \A s \in Runs \ {r} : timer'[s] = timer[s],
           conn' = conn,
           \A c \in Conns : link'[c] # link[c] => link[c] = "up" /\ link'[c] = "closed",
           \A c \in Conns : c = Conn(r) => link'[c] # "up"
    PROVE  Sockets'
  <1> USE IdentTypes
  <1>1. ASSUME NEW c \in Conns
        PROVE  /\ c[2] <= conn'[c[1]] => link'[c] # "unused"
               /\ link'[c] = "up" => c[2] = conn'[c[1]] /\ socket'[c[1]] # "unconnected"
    <2>1. link'[c] = "up" => link[c] = "up"
      OBVIOUS
    <2>2. CASE c[1] = r
      <3>1. link'[c] # "up"
        BY <2>1, <2>2 DEF Sockets, Conn
      <3> QED
        BY <3>1 DEF Sockets
    <2>3. CASE c[1] # r
      BY <2>1, <2>3 DEF Sockets
    <2> QED
      BY <2>2, <2>3
  <1>2. \A s \in Runs : socket'[s] = "connecting" /\ conn'[s] = 1 => timer'[s] = "timeout"
    BY DEF Sockets
  <1> QED
    BY <1>1, <1>2 DEF Sockets

LEMMA SocketsStep ==
    ASSUME ServiceInv, LinksInv, [Next]_vars
    PROVE  Sockets'
  <1> USE IdentTypes DEF ServiceInv, IdentInv, KeysInv, LinksInv
  <1>1. CASE UNCHANGED <<link, conn, socket, timer>>
    BY <1>1 DEF Sockets
  <1>2. ASSUME NEW r \in Runs, Launch(r) PROVE Sockets'
    <2>1. proc[r] = "none" /\ UNCHANGED <<link, conn, socket>>
          /\ timer' = [timer EXCEPT ![r] = "timeout"]
      BY <1>2 DEF Launch, PeerStart, linkVars
    <2> QED
      BY <2>1 DEF Sockets
  <1>3. ASSUME NEW r \in Runs, Connect(r) PROVE Sockets'
    <2> DEFINE new == <<r, conn[r] + 1>>
    <2>1. /\ socket[r] = "unconnected" /\ timer[r] # "off" /\ conn[r] < MaxConns
          /\ conn' = [conn EXCEPT ![r] = @ + 1]
          /\ socket' = [socket EXCEPT ![r] = "connecting"]
          /\ link' = [link EXCEPT ![new] = "up"] /\ UNCHANGED timer
      BY <1>3 DEF Connect, PeerConnect
    <2>2. /\ conn[r] \in Nat /\ conn'[r] = conn[r] + 1 /\ socket'[r] = "connecting"
          /\ \A s \in Runs \ {r} : conn'[s] = conn[s] /\ socket'[s] = socket[s]
          /\ new \in Conns /\ link'[new] = "up"
          /\ \A c \in Conns \ {new} : link'[c] = link[c]
      BY <2>1, MaxConnsAssumption DEF Conns
    <2>3. ASSUME NEW c \in Conns
          PROVE  /\ c[2] <= conn'[c[1]] => link'[c] # "unused"
                 /\ link'[c] = "up" => c[2] = conn'[c[1]] /\ socket'[c[1]] # "unconnected"
      <3>1. CASE c = new
        BY <2>2, <3>1
      <3>2. CASE c # new /\ c[1] = r
        <4>1. c[2] # conn[r] + 1
          BY <3>2
        <4> QED
          BY <2>1, <2>2, <3>2, <4>1, MaxConnsAssumption DEF Sockets
      <3>3. CASE c[1] # r
        BY <2>2, <3>3 DEF Sockets
      <3> QED
        BY <3>1, <3>2, <3>3
    <2>4. conn'[r] = 1 => timer'[r] = "timeout"
      BY <2>1, <2>2 DEF Identified, Connecting
    <2> QED
      BY <2>1, <2>2, <2>3, <2>4 DEF Sockets
  <1>4. ASSUME NEW r \in Runs, ConnectionEstablished(r) \/ ConnectionRecovered(r)
        PROVE  Sockets'
    <2>1. /\ socket' = [socket EXCEPT ![r] = "connected"]
          /\ timer' = [timer EXCEPT ![r] = "off"] /\ UNCHANGED <<link, conn>>
      BY <1>4 DEF ConnectionEstablished, ConnectionRecovered, linkVars
    <2> QED
      BY <2>1 DEF Sockets
  <1>6. ASSUME NEW r \in Runs, ConnectionLost(r) PROVE Sockets'
    <2>1. /\ socket' = [socket EXCEPT ![r] = "unconnected"]
          /\ \A s \in Runs \ {r} : timer'[s] = timer[s]
          /\ UNCHANGED <<link, conn>> /\ link[Conn(r)] # "up"
      BY <1>6 DEF ConnectionLost, linkVars
    <2> QED
      BY <2>1, SocketLost
  <1>7. ASSUME NEW r \in Runs, Exit(r) PROVE Sockets'
    <2>1. CASE socket[r] = "unconnected"
      <3>1. /\ UNCHANGED <<link, conn>>
            /\ \A s \in Runs \ {r} : timer'[s] = timer[s]
            /\ socket' = [socket EXCEPT ![r] = "unconnected"]
        BY <1>7, <2>1 DEF Exit, linkVars
      <3>2. \A c \in Conns : c = Conn(r) => link[c] # "up"
        BY <2>1 DEF Sockets, Conn
      <3> QED
        BY <3>1, <3>2, SocketLost
    <2>2. CASE socket[r] # "unconnected"
      <3>1. /\ link' = [link EXCEPT ![Conn(r)] = IF @ = "up" THEN "closed" ELSE @]
            /\ UNCHANGED conn
            /\ \A s \in Runs \ {r} : timer'[s] = timer[s]
            /\ socket' = [socket EXCEPT ![r] = "unconnected"]
        BY <1>7, <2>2 DEF Exit, Close
      <3> QED
        BY <3>1, SocketLost
    <2> QED
      BY <2>1, <2>2
  <1>8. ASSUME NEW r \in Runs, Peer(r) PROVE Sockets'
    <2>1. CASE \/ ReceiveOptions(r) \/ StartReconstruction(r) \/ StopReconstruction(r)
               \/ StopReturns(r) \/ DeliverSignal(r) \/ WorkerBegins(r) \/ WorkerEnds(r)
               \/ \E sig \in {"log", "message"} : WorkerEmits(r, sig)
      BY <1>1, <2>1
      DEF ReceiveOptions, StartReconstruction, StopReconstruction, StopReturns,
          DeliverSignal, WorkerBegins, WorkerEnds, WorkerEmits, linkVars
    <2> QED
      BY <1>4, <1>6, <1>7, <1>8, <2>1 DEF Peer, PeerStep, CheckTimeOut, PeerDies, Quit
  <1>9. ASSUME NEW c \in Conns, LinkBreaks(c) PROVE Sockets'
    <2>1. link' = [link EXCEPT ![c] = "broken"] /\ UNCHANGED <<conn, socket, timer>>
      BY <1>9 DEF LinkBreaks, Break, peerVars
    <2> QED
      BY <2>1 DEF Sockets
  <1>10. CASE User \/ LocalExit \/ UNCHANGED vars
    <2>1. UNCHANGED <<link, conn, socket, timer>>
      BY <1>10 DEF User, UserStarts, UserStops, Dismiss, DismissMessage, DismissExit,
        DismissFinished, LocalExit, LocalProcessExits, vars, linkVars, peerVars
    <2> QED
      BY <1>1, <2>1
  <1>11. ASSUME NEW c \in Conns, ServerStep(c) PROVE Sockets'
    <2>1. UNCHANGED <<link, conn, socket, timer>>
      BY <1>11 DEF ServerStep, ServerReceive, ReceiveIdentificationKey, ReconstructionStarted,
        ReconstructionStopped, ReceiveLogLine, DisplayMessage, OnClientDisconnected,
        linkVars, peerVars
    <2> QED
      BY <1>1, <2>1
  <1> QED
    BY <1>2, <1>3, <1>8, <1>9, <1>10, <1>11 DEF Next
LEMMA LinksStep ==
    ASSUME FreshKeys, ServiceInv, LinksInv, [Next]_vars
    PROVE  LinksInv'
  BY BoxesStep, OpenListedStep, SocketsStep DEF LinksInv

----------------------------------------------------------------------------
(* The order of what is queued.                                            *)

LEMMA OrderTail ==
    ASSUME NEW S, NEW q \in Seq(S), q # <<>>, NEW a, NEW b, NeverBehind(q, a, b)
    PROVE  /\ NeverBehind(Tail(q), a, b)
           /\ Head(q) = b /\ a # b => ~Has(q, a)
  <1>1. /\ Len(q) \in Nat \ {0} /\ Head(q) = q[1] /\ Len(Tail(q)) = Len(q) - 1
        /\ \A i \in 1 .. Len(Tail(q)) : Tail(q)[i] = q[i + 1]
    BY HeadTailProperties, EmptySeq
  <1>2. NeverBehind(Tail(q), a, b)
    <2> SUFFICES ASSUME NEW i \in 1 .. Len(Tail(q)), NEW j \in 1 .. Len(Tail(q)),
                        Tail(q)[i] = a, Tail(q)[j] = b
                 PROVE  i < j
      BY DEF NeverBehind
    <2>1. i + 1 \in 1 .. Len(q) /\ j + 1 \in 1 .. Len(q) /\ q[i + 1] = a /\ q[j + 1] = b
      BY <1>1
    <2>2. i + 1 < j + 1
      BY <2>1 DEF NeverBehind
    <2> QED
      BY <2>2
  <1>3. ASSUME Head(q) = b, a # b, NEW i \in 1 .. Len(q), q[i] = a PROVE FALSE
    <2>1. i < 1
      BY <1>1, <1>3 DEF NeverBehind
    <2> QED
      BY <2>1
  <1> QED
    BY <1>2, <1>3 DEF Has

LEMMA OrderPrefix ==
    ASSUME NEW S, NEW q \in Seq(S), NEW n \in 0 .. Len(q), NEW a, NEW b, NeverBehind(q, a, b)
    PROVE  NeverBehind(Prefix(q, n), a, b)
  <1>1. /\ Len(Prefix(q, n)) = n /\ 1 .. n \subseteq 1 .. Len(q)
        /\ \A i \in 1 .. n : Prefix(q, n)[i] = q[i]
    <2>1. Len(q) \in Nat
      OBVIOUS
    <2> QED
      BY <2>1, PrefixType
  <1> HIDE DEF Prefix
  <1> QED
    BY <1>1 DEF NeverBehind

\* A message sent is one more behind those on their way.
LEMMA SentOne ==
    ASSUME NEW S, NEW q \in Seq(S), NEW m \in S
    PROVE  /\ \A x : Has(q \o <<m>>, x) <=> Has(q, x) \/ x = m
           /\ \A a, b : NeverBehind(q, a, b) /\ a # b /\ (m = a => ~Has(q, b))
                            => NeverBehind(q \o <<m>>, a, b)
           /\ Lines(q \o <<m>>) = Lines(q) + (IF m = "log" THEN 1 ELSE 0)
  <1> DEFINE p == q \o <<m>>
  <1>1. p = Append(q, m)
    OBVIOUS
  <1> HIDE DEF p
  <1>2. /\ Len(q) \in Nat /\ Len(p) = Len(q) + 1
        /\ \A i \in 1 .. Len(q) : p[i] = q[i]
        /\ p[Len(q) + 1] = m
    BY <1>1, AppendProperties, LenProperties
  <1>3. \A x : Has(p, x) <=> Has(q, x) \/ x = m
    BY <1>2 DEF Has
  <1>4. ASSUME NEW a, NEW b, NeverBehind(q, a, b), a # b, m = a => ~Has(q, b)
        PROVE  NeverBehind(p, a, b)
    BY <1>2, <1>4 DEF NeverBehind, Has
  <1>5. Lines(p) = Lines(q) + (IF m = "log" THEN 1 ELSE 0)
    BY <1>1, LinesAppend
  <1> QED
    BY <1>3, <1>4, <1>5 DEF p

\* What the server has still to read when it has taken a call.
LEMMA ServerTail ==
    ASSUME NEW q \in Seq(ServerMsgs), q # <<>>
    PROVE  /\ Tail(q) \in Seq(ServerMsgs)
           /\ Has(q, Head(q)) /\ \A x : Has(Tail(q), x) => Has(q, x)
           /\ Lines(q) = Lines(Tail(q)) + (IF Head(q) = "log" THEN 1 ELSE 0)
           /\ NeverBehind(q, "log", "stopped") =>
                  /\ NeverBehind(Tail(q), "log", "stopped")
                  /\ Head(q) = "stopped" => ~Has(q, "log")
  <1>1. Tail(q) \in Seq(ServerMsgs)
    BY TailType
  <1>2. Has(q, Head(q)) /\ \A x : Has(Tail(q), x) => Has(q, x)
    BY HasTail
  <1>3. Lines(q) = Lines(Tail(q)) + (IF Head(q) = "log" THEN 1 ELSE 0)
    BY LinesTail
  <1>4. ASSUME NeverBehind(q, "log", "stopped")
        PROVE  /\ NeverBehind(Tail(q), "log", "stopped")
               /\ Head(q) = "stopped" => ~Has(q, "log")
    BY <1>4, OrderTail
  <1> QED
    BY <1>1, <1>2, <1>3, <1>4

\* What is left of the calls in a direction that has been cut.
LEMMA Cut ==
    ASSUME NEW S, NEW q \in Seq(S), NEW n \in 0 .. Len(q), NEW p, p = Prefix(q, n)
    PROVE  /\ \A x : Has(p, x) => Has(q, x)
           /\ NeverBehind(q, "log", "stopped") => NeverBehind(p, "log", "stopped")
  <1>1. \A x : Has(p, x) => Has(q, x)
    BY HasPrefix
  <1>2. NeverBehind(q, "log", "stopped") => NeverBehind(p, "log", "stopped")
    BY OrderPrefix
  <1> QED
    BY <1>1, <1>2

LEMMA SentInOrder ==
    ASSUME NEW S, NEW q \in Seq(S), NEW m \in S, NEW a, NEW b, a # b,
           NeverBehind(q, a, b), m = a => ~Has(q, b)
    PROVE  NeverBehind(q \o <<m>>, a, b)
  BY SentOne

LEMMA EndsAppend ==
    ASSUME NEW S, NEW q \in Seq(S), NEW m \in S, ~Has(q, "finished")
    PROVE  EndsLast(Append(q, m))
  <1>1. /\ Len(q) \in Nat /\ Len(Append(q, m)) = Len(q) + 1
        /\ \A i \in 1 .. Len(q) : Append(q, m)[i] = q[i]
    BY AppendProperties, LenProperties
  <1> QED
    BY <1>1 DEF EndsLast, Has

LEMMA EndsTail ==
    ASSUME NEW S, NEW q \in Seq(S), q # <<>>, EndsLast(q)
    PROVE  EndsLast(Tail(q)) /\ (Head(q) = "finished" => Tail(q) = <<>>)
  <1>1. /\ Len(q) \in Nat \ {0} /\ Head(q) = q[1] /\ Tail(q) \in Seq(S)
        /\ Len(Tail(q)) = Len(q) - 1
        /\ \A i \in 1 .. Len(Tail(q)) : Tail(q)[i] = q[i + 1]
    BY HeadTailProperties, EmptySeq
  <1>2. EndsLast(Tail(q))
    <2> SUFFICES ASSUME NEW i \in 1 .. Len(Tail(q)), Tail(q)[i] = "finished"
                 PROVE  i = Len(Tail(q))
      BY DEF EndsLast
    <2> DEFINE n == Len(Tail(q))
    <2>0. Len(q) \in Nat /\ Len(q) = n + 1 /\ n \in Nat
      BY <1>1
    <2>1. i + 1 \in 1 .. Len(q) /\ q[i + 1] = "finished"
      BY <1>1
    <2>2. i + 1 = Len(q)
      BY <2>1 DEF EndsLast
    <2> HIDE DEF n
    <2>3. i = n
      BY <2>0, <2>2
    <2> QED
      BY <2>3 DEF n
  <1>3. Head(q) = "finished" => Len(Tail(q)) = 0
    <2>1. 1 \in 1 .. Len(q)
      BY <1>1
    <2>2. Head(q) = "finished" => 1 = Len(q)
      BY <1>1, <2>1 DEF EndsLast
    <2> QED
      BY <1>1, <2>2
  <1> QED
    BY <1>1, <1>2, <1>3, EmptySeq

----------------------------------------------------------------------------
(* The lines of one run.                                                   *)

LEMMA FlowTypes ==
    ASSUME TypeOK
    PROVE  /\ logged \in [Conns -> Nat] /\ logLines \in [Runs -> Nat]
           /\ stopReq \in [Runs -> BOOLEAN]
           /\ \A r \in Runs : First(r) \in Conns /\ First(r)[1] = r /\ First(r)[2] = 1
           /\ \A c \in Conns : c[2] = 1 => c = First(c[1])
  BY MaxConnsAssumption DEF TypeOK, GuiTypeOK, PeerTypeOK, First, Conns

\* Steps that touch neither the lines of run r nor what carries them.
LEMMA FlowFrame ==
    ASSUME NEW r \in Runs, LogFlow(r),
           Has(toPeer'[First(r)], "quit") => Has(toPeer[First(r)], "quit"),
           waiting'[r] = waiting[r], stopReq'[r] = stopReq[r], thread'[r] = thread[r],
           events'[r] = events[r], logLines'[r] = logLines[r],
           link'[First(r)] = link[First(r)], toServer'[First(r)] = toServer[First(r)],
           logged'[First(r)] = logged[First(r)]
    PROVE  LogFlow(r)'
  BY DEF LogFlow, LinesInOrder, First

\* The user only ever adds stops.
LEMMA UserSendsStops ==
    ASSUME TypeOK, User \/ LocalExit
    PROVE  StopsServed
  <1>1. CASE UserStarts
    <2>1. ReplaceProcess
      BY <1>1 DEF UserStarts, StartEmbeddedProcess, StartRPCProcess
    <2> QED
      BY <2>1, StopFirstServed DEF ReplaceProcess, StopsServed
  <1>2. CASE UserStops \/ DismissMessage \/ DismissExit \/ LocalExit
    BY <1>2, StopFirstServed, ProcessFinishedServed
    DEF UserStops, StopProcess, DismissMessage, DismissExit, LocalExit, LocalProcessExits,
        linkVars, StopsServed
  <1>3. CASE DismissFinished
    <2>1. /\ keysRunning' = RemoveAll(keysRunning, clientKey[Top.client])
          /\ ProcessFinished(keysRunning', clientKey, local)
      BY <1>3 DEF DismissFinished
    <2>2. keysRunning \in Seq(Keys \cup {NoKey})
      BY DEF TypeOK, GuiTypeOK
    <2> QED
      BY <2>1, <2>2, ListedRemoveAll, ProcessFinishedServed
  <1> QED
    BY <1>1, <1>2, <1>3 DEF User, Dismiss

LEMMA FlowUser ==
    ASSUME LogInv, User \/ LocalExit, NEW r \in Runs
    PROVE  LogFlow(r)'
  <1> USE IdentTypes, FlowTypes DEF LogInv, ServiceInv, IdentInv, KeysInv
  <1>1. UNCHANGED <<waiting, stopReq, thread, events, logLines, link, toServer, logged>>
    BY DEF User, LocalExit, UserStarts, UserStops, LocalProcessExits, Dismiss, DismissMessage,
        DismissExit, DismissFinished, linkVars, serverVars, peerVars, workerVars
  <1>2. Has(toPeer'[First(r)], "quit") => Has(toPeer[First(r)], "quit")
    <2>1. StopsServed
      BY UserSendsStops
    <2>2. toPeer[First(r)] \in Seq(PeerMsgs) /\ "stop" \in PeerMsgs
      BY DEF PeerMsgs
    <2>3. ASSUME NEW c \in Conns, toPeer' = [toPeer EXCEPT ![c] = @ \o <<"stop">>]
          PROVE  \/ toPeer'[First(r)] = toPeer[First(r)]
                 \/ toPeer'[First(r)] = toPeer[First(r)] \o <<"stop">>
      BY <2>3
    <2>4. ASSUME toPeer'[First(r)] = toPeer[First(r)] \o <<"stop">>
          PROVE  Has(toPeer'[First(r)], "quit") => Has(toPeer[First(r)], "quit")
      BY <2>2, <2>4, SentOne
    <2> QED
      BY <2>1, <2>3, <2>4 DEF StopsServed
  <1> QED
    BY <1>1, <1>2, FlowFrame

LEMMA FlowConnect ==
    ASSUME LogInv, NEW p \in Runs, Connect(p), NEW r \in Runs
    PROVE  LogFlow(r)'
  <1> USE IdentTypes, FlowTypes DEF LogInv, ServiceInv, IdentInv, KeysInv
  <1>1. /\ link' = [link EXCEPT ![<<p, conn[p] + 1>>] = "up"]
        /\ UNCHANGED <<toServer, toPeer, waiting, stopReq, thread, events, logLines, logged>>
    BY DEF Connect, PeerConnect, ClientConnected, workerVars
  <1>2. CASE First(r) # <<p, conn[p] + 1>>
    <2>1. link'[First(r)] = link[First(r)]
      BY <1>1, <1>2
    <2> QED
      BY <1>1, <2>1, FlowFrame
  <1>3. CASE First(r) = <<p, conn[p] + 1>>
    <2>1. r = p /\ conn[r] = 0
      BY <1>3, MaxConnsAssumption DEF First
    <2>2. link[First(r)] = "unused" /\ toServer[First(r)] = <<>>
      BY <2>1 DEF Identified, ConnectionsMade
    <2>3. /\ thread[r] = "none" /\ logged[First(r)] = 0
          /\ events[r] = <<>> /\ logLines[r] = 0
      BY <2>2 DEF LogFlow
    <2>4. ~Has(toPeer[First(r)], "quit")
      BY <2>3 DEF CallInv, Addressed, PeerQueueOK
    <2>5. link'[First(r)] = "up"
      BY <1>1, <1>3
    <2>6. LinesInOrder(r)'
      BY <1>1, <2>2, <2>3, <2>4, LinesEmpty DEF LinesInOrder, NeverBehind, First
    <2> QED
      BY <1>1, <2>3, <2>5, <2>6 DEF LogFlow, First
  <1> QED
    BY <1>2, <1>3

LEMMA FlowBreaks ==
    ASSUME LogInv, NEW c \in Conns, LinkBreaks(c), NEW r \in Runs
    PROVE  LogFlow(r)'
  <1> USE IdentTypes, FlowTypes DEF LogInv, ServiceInv, IdentInv, KeysInv
  <1>1. PICK n \in 0 .. Len(toServer[c]), m \in 0 .. Len(toPeer[c]) :
            /\ toServer' = [toServer EXCEPT ![c] = Prefix(@, n)]
            /\ toPeer' = [toPeer EXCEPT ![c] = Prefix(@, m)]
    BY DEF LinkBreaks, Break
  <1>2. /\ link' = [link EXCEPT ![c] = "broken"] /\ link[c] = "up"
        /\ UNCHANGED <<waiting, stopReq, thread, events, logLines, logged>>
    BY DEF LinkBreaks, Break, guiVars, serverVars, peerVars, workerVars
  <1>3. CASE First(r) # c
    <2>1. /\ link'[First(r)] = link[First(r)] /\ toServer'[First(r)] = toServer[First(r)]
          /\ toPeer'[First(r)] = toPeer[First(r)]
      BY <1>1, <1>2, <1>3
    <2> QED
      BY <1>2, <2>1, FlowFrame
  <1>4. CASE First(r) = c
    <2>1. /\ toServer'[c] = Prefix(toServer[c], n) /\ toPeer'[c] = Prefix(toPeer[c], m)
          /\ link'[c] = "broken"
      BY <1>1, <1>2
    <2>2. \A x : /\ Has(toServer'[c], x) => Has(toServer[c], x)
                 /\ Has(toPeer'[c], x) => Has(toPeer[c], x)
      BY <2>1, Cut
    <2>o. NeverBehind(toServer[c], "log", "stopped") => NeverBehind(toServer'[c], "log", "stopped")
      BY <2>1, OrderPrefix
    <2>3. LinesInOrder(r) => LinesInOrder(r)'
      <3>1. First(r)' = First(r)
        BY DEF First
      <3> QED
        BY <1>2, <1>4, <2>1, <2>2, <2>o, <3>1 DEF LinesInOrder
    <2> QED
      BY <1>2, <1>4, <2>1, <2>3 DEF LogFlow, First
  <1> QED
    BY <1>3, <1>4
\* The server takes a call that is no line and answers with anything but quit.
LEMMA FlowTake ==
    ASSUME TypeOK, NEW c \in Conns, toServer[c] # <<>>, Head(toServer[c]) # "log", Take(c),
           NEW r \in Runs, LogFlow(r),
           Has(toPeer'[First(r)], "quit") => Has(toPeer[First(r)], "quit"),
           UNCHANGED <<waiting, stopReq, thread, events, logLines, link, logged>>
    PROVE  LogFlow(r)'
  <1> USE IdentTypes, FlowTypes
  <1>1. /\ toServer'[c] = Tail(toServer[c])
        /\ \A d \in Conns \ {c} : toServer'[d] = toServer[d]
    BY DEF Take
  <1>2. CASE First(r) # c
    BY <1>1, <1>2, FlowFrame
  <1>3. CASE First(r) = c
    <2>1. \A x : Has(toServer'[c], x) => Has(toServer[c], x)
      BY <1>1, HasTail
    <2>2. Lines(toServer'[c]) = Lines(toServer[c])
      <3>1. Lines(toServer[c]) = Lines(Tail(toServer[c])) + 0
        BY LinesTail
      <3>2. Lines(Tail(toServer[c])) \in Nat
        BY TailType, LinesType
      <3> QED
        BY <1>1, <3>1, <3>2
    <2>3. NeverBehind(toServer[c], "log", "stopped") => NeverBehind(toServer'[c], "log", "stopped")
      BY <1>1, OrderTail
    <2>4. First(r)' = First(r)
      BY DEF First
    <2>5. LinesInOrder(r) => LinesInOrder(r)'
      BY <1>3, <2>1, <2>2, <2>3, <2>4 DEF LinesInOrder
    <2> QED
      BY <1>3, <2>4, <2>5 DEF LogFlow
  <1> QED
    BY <1>2, <1>3

\* The end of a run arrives behind its last line, and the peer is dismissed.
LEMMA FlowStopped ==
    ASSUME LogInv, NEW c \in Conns, ReconstructionStopped(c), UNCHANGED peerVars,
           NEW r \in Runs
    PROVE  LogFlow(r)'
  <1> USE IdentTypes, FlowTypes DEF LogInv, ServiceInv, IdentInv, KeysInv
  <1>t. toServer[c] \in Seq(ServerMsgs)
    OBVIOUS
  <1>1. /\ toServer[c] # <<>> /\ Head(toServer[c]) = "stopped" /\ Take(c)
        /\ ToPeer(c, <<"quit">>)
        /\ UNCHANGED <<waiting, stopReq, thread, events, logLines, link, logged>>
    BY DEF ReconstructionStopped, Incoming, guiVars, serverVars, peerVars, workerVars
  <1>2. /\ \A d \in Conns \ {c} : toPeer'[d] = toPeer[d]
        /\ link[c] # "up" => toPeer'[c] = toPeer[c]
    BY <1>1 DEF ToPeer
  <1>3. CASE First(r) # c
    BY <1>1, <1>2, <1>3, FlowTake
  <1>4. CASE First(r) = c /\ link[c] # "up"
    BY <1>1, <1>2, <1>4, FlowTake
  <1>5. CASE First(r) = c /\ link[c] = "up"
    <2>1. toServer'[c] = Tail(toServer[c])
      BY <1>1 DEF Take
    <2>2. Has(toServer[c], "stopped") /\ \A x : Has(toServer'[c], x) => Has(toServer[c], x)
      <3> HIDE IdentTypes, FlowTypes DEF LogInv, ServiceInv, IdentInv, KeysInv
      <3> QED
        BY <1>t, <1>1, <2>1, ServerTail
    <2>3. First(r)' = First(r)
      BY DEF First
    <2>4. ASSUME LinesInOrder(r) PROVE LinesInOrder(r)'
      <3>1. /\ events[r] = <<>> /\ NeverBehind(toServer[c], "log", "stopped")
            /\ logged[c] + Lines(toServer[c]) + Lines(events[r]) = logLines[r]
        BY <1>5, <2>2, <2>4 DEF LinesInOrder
      <3>2. NeverBehind(toServer'[c], "log", "stopped") /\ ~Has(toServer[c], "log")
        <4> HIDE IdentTypes, FlowTypes DEF LogInv, ServiceInv, IdentInv, KeysInv
        <4> QED
          BY <1>t, <1>1, <2>1, <3>1, ServerTail
      <3>3. ~Has(toServer'[c], "log")
        BY <2>2, <3>2
      <3>4. toServer[c] \in Seq(ServerMsgs) /\ toServer'[c] \in Seq(ServerMsgs)
        BY <1>1, <2>1, TailType
      <3>5. Lines(toServer[c]) = 0 /\ Lines(toServer'[c]) = 0
        BY <3>2, <3>3, <3>4, LinesType
      <3>6. logged[c] = logLines[r]
        BY <3>1, <3>5, LinesEmpty
      <3> QED
        BY <1>1, <1>5, <2>3, <3>1, <3>2, <3>3, <3>5, <3>6 DEF LinesInOrder
    <2> QED
      BY <1>1, <1>5, <2>3, <2>4 DEF LogFlow
  <1> QED
    BY <1>3, <1>4, <1>5

\* A line is appended to the log of the run it belongs to.
LEMMA FlowLine ==
    ASSUME LogInv, NEW c \in Conns, ReceiveLogLine(c), UNCHANGED peerVars,
           NEW r \in Runs
    PROVE  LogFlow(r)'
  <1> USE IdentTypes, FlowTypes DEF LogInv, ServiceInv, IdentInv, KeysInv
  <1>t. toServer[c] \in Seq(ServerMsgs)
    OBVIOUS
  <1>1. /\ c \in open /\ toServer[c] # <<>> /\ Head(toServer[c]) = "log" /\ Take(c)
        /\ logged' = [logged EXCEPT ![c] = IF IsRunningClient(c) THEN @ + 1 ELSE @]
        /\ UNCHANGED <<waiting, stopReq, thread, events, logLines, link, toPeer>>
    BY DEF ReceiveLogLine, Incoming, peerVars, workerVars
  <1>2. /\ toServer'[c] = Tail(toServer[c])
        /\ \A d \in Conns \ {c} : toServer'[d] = toServer[d] /\ logged'[d] = logged[d]
    BY <1>1 DEF Take
  <1>3. CASE First(r) # c
    BY <1>1, <1>2, <1>3, FlowFrame
  <1>4. CASE First(r) = c
    <2>1. Has(toServer[c], "log") /\ \A x : Has(toServer'[c], x) => Has(toServer[c], x)
      <3> HIDE IdentTypes, FlowTypes DEF LogInv, ServiceInv, IdentInv, KeysInv
      <3> QED
        BY <1>t, <1>1, <1>2, ServerTail
    <2>2. First(r)' = First(r)
      BY DEF First
    <2>3. link[c] # "unused"
      BY <1>1 DEF Identified, ConnectionsMade
    <2>4. ASSUME LinesInOrder(r) PROVE LinesInOrder(r)'
      <3>1. ~Has(toPeer[c], "quit") /\ NeverBehind(toServer[c], "log", "stopped")
        BY <1>4, <2>1, <2>4 DEF LinesInOrder
      <3>2. NeverBehind(toServer'[c], "log", "stopped")
        BY <1>1, <1>2, <3>1, OrderTail
      <3>3. ASSUME link[c] = "up"
            PROVE  logged'[c] + Lines(toServer'[c]) + Lines(events[r]) = logLines[r]
        <4> DEFINE a == Lines(toServer[c])
                   b == Lines(toServer'[c])
                   e == Lines(events[r])
        <4>1. a = b + 1
          <5> HIDE IdentTypes, FlowTypes DEF LogInv, ServiceInv, IdentInv, KeysInv
          <5> QED
            BY <1>t, <1>1, <1>2, ServerTail
        <4>t. toServer'[c] \in Seq(ServerMsgs) /\ events[r] \in Seq(WorkerSignals)
          BY <1>1, <1>2, TailType
        <4>2. b \in Nat /\ e \in Nat
          BY <4>t, LinesType
        <4>3. logged[c] + a + e = logLines[r]
          BY <1>4, <2>4, <3>3 DEF LinesInOrder
        <4>4. logged[c] \in Nat /\ logLines[r] \in Nat
          OBVIOUS
        <4> HIDE DEF a, b, e
        <4>5. logLines[r] # 0
          BY <4>1, <4>2, <4>3, <4>4
        <4>6. thread[r] # "none"
          BY <4>5 DEF LogFlow
        <4>7. ServedRun(r)
          BY <1>4, <4>6 DEF CallInv, Addressed, ServedRun
        <4>8. IsRunningClient(c)
          BY <1>1, <1>4, <4>7 DEF LinksInv, OpenListed, IsRunningClient
        <4>9. logged'[c] = logged[c] + 1
          BY <1>1, <4>8
        <4>10. logged'[c] + b + e = logLines[r]
          BY <4>1, <4>2, <4>3, <4>4, <4>9
        <4> QED
          BY <4>10 DEF b, e
      <3> QED
        BY <1>1, <1>4, <2>1, <2>2, <2>4, <3>1, <3>2, <3>3 DEF LinesInOrder
    <2> QED
      BY <1>1, <1>4, <2>2, <2>3, <2>4 DEF LogFlow
  <1> QED
    BY <1>3, <1>4

LEMMA LaunchNoQuit ==
    ASSUME NEW q \in Seq(PeerMsgs), NEW msgs \in {<<"options", "start">>, <<"start">>},
           Has(q \o msgs, "quit")
    PROVE  Has(q, "quit")
  <1>1. CASE msgs = <<"start">>
    <2>1. <<"start">> \in Seq(PeerMsgs) /\ ~Has(<<"start">>, "quit")
      BY DEF PeerMsgs, Has
    <2> QED
      BY <1>1, <2>1, HasConcat
  <1>2. CASE msgs = <<"options", "start">>
    <2>1. <<"options", "start">> \in Seq(PeerMsgs) /\ ~Has(<<"options", "start">>, "quit")
      BY DEF PeerMsgs, Has
    <2> QED
      BY <1>2, <2>1, HasConcat
  <1> QED
    BY <1>1, <1>2

LEMMA FlowServer ==
    ASSUME LogInv, NEW c \in Conns, ServerStep(c), NEW r \in Runs
    PROVE  LogFlow(r)'
  <1> USE IdentTypes, FlowTypes DEF LogInv, ServiceInv, IdentInv, KeysInv
  <1>g. UNCHANGED <<waiting, stopReq, thread, events, logLines>> /\ UNCHANGED peerVars
    BY DEF ServerStep, peerVars, workerVars
  <1>1. CASE ReceiveIdentificationKey(c)
    <2>1. /\ toServer[c] # <<>> /\ Head(toServer[c]) = "key" /\ Take(c)
          /\ HandleRemoteClient(key[c[1]], clientKey') /\ UNCHANGED <<link, logged>>
      BY <1>1 DEF ReceiveIdentificationKey, Incoming
    <2>2. ASSUME NEW d \in Conns, NEW msgs \in {<<"options", "start">>, <<"start">>},
                 ToPeer(d, msgs)
          PROVE  Has(toPeer'[First(r)], "quit") => Has(toPeer[First(r)], "quit")
      <3>1. CASE toPeer' = toPeer
        BY <3>1
      <3>2. CASE toPeer' = [toPeer EXCEPT ![d] = @ \o msgs]
        <4>1. \/ toPeer'[First(r)] = toPeer[First(r)]
              \/ toPeer'[First(r)] = toPeer[First(r)] \o msgs
          BY <3>2
        <4>2. toPeer[First(r)] \in Seq(PeerMsgs)
          OBVIOUS
        <4> HIDE IdentTypes, FlowTypes DEF LogInv, ServiceInv, IdentInv, KeysInv
        <4> QED
          BY <2>2, <4>1, <4>2, LaunchNoQuit
      <3> QED
        BY <2>2, <3>1, <3>2 DEF ToPeer
    <2>3. Has(toPeer'[First(r)], "quit") => Has(toPeer[First(r)], "quit")
      BY <2>1, <2>2 DEF HandleRemoteClient, ClientsOf
    <2> QED
      BY <1>g, <2>1, <2>3, FlowTake
  <1>2. CASE ReconstructionStarted(c) \/ DisplayMessage(c)
    <2>1. /\ toServer[c] # <<>> /\ Head(toServer[c]) # "log" /\ Take(c)
          /\ UNCHANGED <<link, toPeer, logged>>
      BY <1>2 DEF ReconstructionStarted, DisplayMessage, Incoming, guiVars, serverVars
    <2> QED
      BY <1>g, <2>1, FlowTake
  <1>3. CASE OnClientDisconnected(c)
    BY <1>g, <1>3, FlowFrame DEF OnClientDisconnected, linkVars
  <1> QED
    BY <1>g, <1>1, <1>2, <1>3, FlowStopped, FlowLine DEF ServerStep, ServerReceive
\* A peer that ends loses what is still queued in it, with its link.
LEMMA FlowExit ==
    ASSUME LogInv, TypeOK', Sockets', NEW p \in Runs, Exit(p),
           UNCHANGED <<thread, guiVars>>, NEW r \in Runs
    PROVE  LogFlow(r)'
  <1> USE IdentTypes, FlowTypes DEF LogInv, ServiceInv, IdentInv, KeysInv
  <1>1. /\ events' = [events EXCEPT ![p] = <<>>]
        /\ waiting' = [waiting EXCEPT ![p] = FALSE]
        /\ socket' = [socket EXCEPT ![p] = "unconnected"]
        /\ UNCHANGED <<thread, stopReq, logLines, logged, conn>>
    BY DEF Exit, guiVars, serverVars
  <1>2. PICK n :
            \/ UNCHANGED <<link, toServer, toPeer>>
            \/ /\ n \in 0 .. Len(toServer[Conn(p)])
               /\ link' = [link EXCEPT ![Conn(p)] = IF @ = "up" THEN "closed" ELSE @]
               /\ toServer' = [toServer EXCEPT ![Conn(p)] = Prefix(@, n)]
               /\ toPeer' = [toPeer EXCEPT ![Conn(p)] = <<>>]
    <2>1. CASE socket[p] = "unconnected"
      BY <2>1 DEF Exit, linkVars
    <2>2. CASE socket[p] # "unconnected"
      BY <2>2 DEF Exit, Close
    <2> QED
      BY <2>1, <2>2
  <1>3. First(r)' = First(r)
    BY DEF First
  <1>4. CASE r # p
    <2>1. /\ link'[First(r)] = link[First(r)] /\ toServer'[First(r)] = toServer[First(r)]
          /\ toPeer'[First(r)] = toPeer[First(r)]
      <3>1. First(r) \in Conns /\ First(r) # Conn(p)
        BY <1>4 DEF First, Conn
      <3> QED
        BY <1>2, <3>1
    <2> QED
      BY <1>1, <1>4, <2>1, FlowFrame
  <1>5. CASE r = p
    <2> DEFINE c == First(r)
    <2>1. events'[r] = <<>> /\ ~waiting'[r] /\ socket'[r] = "unconnected"
      BY <1>1, <1>5
    <2>0. c \in Conns /\ c[1] = r /\ toServer[c] \in Seq(ServerMsgs)
      OBVIOUS
    <2>2. link'[c] # "up"
      <3> HIDE DEF c
      <3> QED
        BY <2>0, <2>1 DEF Sockets
    <2>3. link'[c] = "unused" => link[c] = "unused"
      BY <1>2
    <2>4. /\ \A x : Has(toServer'[c], x) => Has(toServer[c], x)
          /\ NeverBehind(toServer[c], "log", "stopped")
                 => NeverBehind(toServer'[c], "log", "stopped")
          /\ Has(toPeer'[c], "quit") => Has(toPeer[c], "quit")
      <3>1. CASE toServer'[c] = toServer[c] /\ toPeer'[c] = toPeer[c]
        BY <3>1
      <3>2. CASE /\ n \in 0 .. Len(toServer[c])
                 /\ toServer'[c] = Prefix(toServer[c], n) /\ toPeer'[c] = <<>>
        <4>1. ~Has(<<>>, "quit")
          BY DEF Has
        <4> HIDE DEF c
        <4> QED
          BY <2>0, <3>2, <4>1, Cut
      <3>3. CASE c = Conn(p)
        BY <1>2, <2>0, <3>1, <3>2, <3>3
      <3>4. CASE c # Conn(p)
        BY <1>2, <2>0, <3>1, <3>4
      <3> QED
        BY <3>3, <3>4
    <2>5. LinesInOrder(r) => LinesInOrder(r)'
      BY <1>1, <1>3, <2>1, <2>2, <2>4 DEF LinesInOrder
    <2>6. EndsLast(<<>>)
      BY DEF EndsLast
    <2> QED
      BY <1>1, <1>3, <2>1, <2>3, <2>5, <2>6 DEF LogFlow
  <1> QED
    BY <1>4, <1>5

\* The peer takes a call of the server.
LEMMA FlowReceive ==
    ASSUME LogInv, NEW p \in Runs, UNCHANGED guiVars,
           ReceiveOptions(p) \/ StartReconstruction(p) \/ StopReconstruction(p),
           NEW r \in Runs
    PROVE  LogFlow(r)'
  <1> USE IdentTypes, FlowTypes DEF LogInv, ServiceInv, IdentInv, KeysInv
  <1> DEFINE q == toPeer[Conn(p)]
  <1>1. /\ socket[p] = "connected" /\ q # <<>> /\ toPeer' = [toPeer EXCEPT ![Conn(p)] = Tail(@)]
        /\ UNCHANGED <<link, toServer, events, logLines, logged>>
    BY DEF ReceiveOptions, StartReconstruction, StopReconstruction, Receive, Consume,
        workerVars, guiVars, serverVars
  <1>2. Conn(p) \in Conns /\ Conn(p)[1] = p /\ q \in Seq(PeerMsgs)
    BY <1>1, MaxConnsAssumption DEF Identified, Connecting, Conn, Conns
  <1>3. Has(toPeer'[First(r)], "quit") => Has(toPeer[First(r)], "quit")
    <2>1. Has(Tail(q), "quit") => Has(q, "quit")
      BY <1>1, <1>2, HasTail
    <2> QED
      BY <1>1, <1>2, <2>1
  <1>4. First(r)' = First(r)
    BY DEF First
  <1>5. LinesInOrder(r) => LinesInOrder(r)'
    BY <1>1, <1>3, <1>4 DEF LinesInOrder
  <1>6. CASE ReceiveOptions(p)
    <2>1. UNCHANGED <<waiting, stopReq, thread>>
      BY <1>6 DEF ReceiveOptions, workerVars
    <2> QED
      BY <1>1, <1>3, <2>1, FlowFrame
  <1>7. CASE StartReconstruction(p)
    <2>1. thread' = [thread EXCEPT ![p] = "created"] /\ UNCHANGED <<waiting, stopReq>>
      BY <1>7 DEF StartReconstruction
    <2>2. CASE r # p
      BY <1>1, <1>3, <2>1, <2>2, FlowFrame
    <2>3. CASE r = p
      <3>1. Has(q, "start")
        BY <1>1, <1>2, <1>7, HasTail DEF StartReconstruction, Receive
      <3>2. conn[p] <= 1
        BY <1>2, <3>1, MaxConnsAssumption DEF CallInv, Addressed, Quiet, Conn
      <3>3. First(r)[2] <= conn[First(r)[1]]
        BY <1>1, <2>3 DEF Identified, Connecting
      <3>4. link[First(r)] # "unused"
        BY <3>3 DEF LinksInv, Sockets
      <3>5. thread'[r] # "none"
        BY <2>1, <2>3
      <3> QED
        BY <1>1, <1>4, <1>5, <2>1, <3>4, <3>5 DEF LogFlow
    <2> QED
      BY <2>2, <2>3
  <1>8. CASE StopReconstruction(p)
    <2>1. /\ stopReq' = [stopReq EXCEPT ![p] = TRUE]
          /\ waiting' = [waiting EXCEPT ![p] = TRUE] /\ UNCHANGED thread
      BY <1>8 DEF StopReconstruction
    <2>2. CASE r # p
      BY <1>1, <1>3, <2>1, <2>2, FlowFrame
    <2>3. CASE r = p
      <3>1. stopReq'[r]
        BY <2>1, <2>3
      <3> QED
        BY <1>1, <1>4, <2>1, <3>1 DEF LogFlow
    <2> QED
      BY <2>2, <2>3
  <1> QED
    BY <1>6, <1>7, <1>8

\* The worker queues a signal.
LEMMA FlowWorker ==
    ASSUME LogInv, NEW p \in Runs, UNCHANGED guiVars,
           \/ WorkerBegins(p) \/ WorkerEnds(p)
           \/ \E sig \in {"log", "message"} : WorkerEmits(p, sig),
           NEW r \in Runs
    PROVE  LogFlow(r)'
  <1> USE IdentTypes, FlowTypes DEF LogInv, ServiceInv, IdentInv, KeysInv
  <1>1. UNCHANGED <<link, toServer, toPeer, waiting, stopReq, logged>>
    BY DEF WorkerBegins, WorkerEnds, WorkerEmits, linkVars, guiVars, serverVars
  <1>2. PICK sig \in WorkerSignals :
            /\ events' = [events EXCEPT ![p] = Append(@, sig)]
            /\ thread[p] \in {"created", "running"} /\ thread'[p] # "none"
            /\ \A s \in Runs \ {p} : thread'[s] = thread[s] /\ logLines'[s] = logLines[s]
            /\ logLines'[p] = logLines[p] + (IF sig = "log" THEN 1 ELSE 0)
    <2>1. CASE WorkerBegins(p)
      BY <2>1 DEF WorkerBegins, WorkerSignals
    <2>2. CASE WorkerEnds(p)
      BY <2>2 DEF WorkerEnds, WorkerSignals
    <2>3. ASSUME NEW m \in {"log", "message"}, WorkerEmits(p, m)
          PROVE  /\ events' = [events EXCEPT ![p] = Append(@, m)]
                 /\ thread[p] = "running" /\ UNCHANGED thread /\ m \in WorkerSignals
                 /\ \A s \in Runs \ {p} : logLines'[s] = logLines[s]
                 /\ logLines'[p] = logLines[p] + (IF m = "log" THEN 1 ELSE 0)
      BY <2>3 DEF WorkerEmits, WorkerSignals
    <2> QED
      BY <2>1, <2>2, <2>3
  <1>3. First(r)' = First(r)
    BY DEF First
  <1>4. CASE r # p
    BY <1>1, <1>2, <1>4, FlowFrame
  <1>5. CASE r = p
    <2> DEFINE c == First(r)
               q == events[r]
               e == Lines(q)
               a == Lines(toServer[c])
               k == IF sig = "log" THEN 1 ELSE 0
    <2>1. events'[r] = Append(q, sig) /\ q \in Seq(WorkerSignals)
      BY <1>2, <1>5
    <2>2. ~Has(q, "finished") /\ ~Has(toServer[c], "stopped")
      BY <1>2, <1>5 DEF CallInv, EndReported
    <2>3. ~Has(toPeer[c], "quit")
      BY <1>2, <1>5 DEF CallInv, Addressed, PeerQueueOK
    <2>e. EndsLast(events'[r])
      <3> HIDE DEF q
      <3> QED
        BY <2>1, <2>2, EndsAppend
    <2>4. Lines(events'[r]) = e + k
      <3> HIDE DEF q
      <3> QED
        BY <2>1, LinesAppend
    <2>5. a \in Nat /\ e \in Nat /\ logged[c] \in Nat /\ logLines[r] \in Nat /\ k \in Nat
      BY <2>1, LinesType
    <2>6. logLines'[r] = logLines[r] + k
      BY <1>2, <1>5
    <2>7. link[c] # "unused"
      BY <1>2, <1>5 DEF LogFlow
    <2>8. ASSUME LinesInOrder(r) PROVE LinesInOrder(r)'
      <3>1. NeverBehind(toServer[c], "log", "stopped")
        BY <2>8 DEF LinesInOrder
      <3>2. link[c] = "up" => logged[c] + a + e = logLines[r]
        BY <2>8 DEF LinesInOrder
      <3> HIDE DEF a, e, k, q
      <3>3. link[c] = "up" => logged[c] + a + (e + k) = logLines'[r]
        <4> HIDE IdentTypes, FlowTypes DEF LogInv, ServiceInv, IdentInv, KeysInv
        <4> QED
          BY <2>5, <2>6, <3>2
      <3> QED
        BY <1>1, <1>3, <2>2, <2>3, <2>4, <3>1, <3>3 DEF LinesInOrder, a
    <2> QED
      BY <1>1, <1>2, <1>3, <1>5, <2>e, <2>7, <2>8 DEF LogFlow
  <1> QED
    BY <1>4, <1>5
\* While the first link of a run that has started is up, the peer writes to it.
LEMMA UpIsConnected ==
    ASSUME LogInv, NEW r \in Runs, link[First(r)] = "up", thread[r] # "none"
    PROVE  Conn(r) = First(r) /\ socket[r] = "connected"
  <1> USE IdentTypes, FlowTypes DEF LogInv, ServiceInv, IdentInv, KeysInv
  <1>1. First(r) \in Conns /\ First(r)[1] = r /\ First(r)[2] = 1
    OBVIOUS
  <1>2. conn[r] = 1 /\ socket[r] # "unconnected"
    BY <1>1 DEF LinksInv, Sockets
  <1>3. ASSUME socket[r] = "connecting" PROVE FALSE
    <2>1. timer[r] = "timeout"
      BY <1>2, <1>3 DEF LinksInv, Sockets
    <2>2. key[r] = NoKey \/ key[r] \in keysToStart
      BY <2>1 DEF Identified, Connecting
    <2>3. thread[r] = "none"
      BY <1>1, <2>2 DEF CallInv, Addressed
    <2> QED
      BY <2>3
  <1>4. socket[r] = "connected"
    BY <1>2, <1>3
  <1> QED
    BY <1>2, <1>4 DEF Conn, First

\* The peer's event loop writes the oldest signal of the worker to the socket.
LEMMA FlowDeliver ==
    ASSUME LogInv, NEW p \in Runs, UNCHANGED guiVars, DeliverSignal(p), NEW r \in Runs
    PROVE  LogFlow(r)'
  <1> USE IdentTypes, FlowTypes DEF LogInv, ServiceInv, IdentInv, KeysInv
  <1> DEFINE h == Head(events[p])
  <1>1. /\ events[p] # <<>> /\ Emit(p, <<Wire(h)>>) /\ events' = [events EXCEPT ![p] = Tail(@)]
        /\ UNCHANGED <<link, toPeer, waiting, stopReq, thread, logLines, logged>>
    BY DEF DeliverSignal, guiVars, serverVars
  <1>2. h \in WorkerSignals /\ Wire(h) \in ServerMsgs
        /\ (IF h = "finished" THEN Wire(h) = "stopped" ELSE Wire(h) = h)
    <2>1. events[p] \in Seq(WorkerSignals)
      OBVIOUS
    <2>2. h \in WorkerSignals
      BY <1>1, <2>1, TailType
    <2> QED
      BY <2>2 DEF Wire, WorkerSignals, ServerMsgs
  <1>3. First(r)' = First(r)
    BY DEF First
  <1>4. CASE r # p
    <2>1. First(r) # Conn(p)
      BY <1>4 DEF First, Conn
    <2>2. toServer'[First(r)] = toServer[First(r)]
      BY <1>1, <2>1 DEF Emit, ToServer
    <2> QED
      BY <1>1, <1>4, <2>2, FlowFrame
  <1>5. CASE r = p
    <2> DEFINE c == First(r)
               q == events[r]
    <2>1. /\ q # <<>> /\ q \in Seq(WorkerSignals) /\ events'[r] = Tail(q) /\ h = Head(q)
          /\ c \in Conns /\ c[1] = r /\ c[2] = 1 /\ toServer[c] \in Seq(ServerMsgs)
      BY <1>1, <1>5
    <2>2. EndsLast(Tail(q)) /\ (h = "finished" => Tail(q) = <<>>)
      <3>1. EndsLast(q)
        BY DEF LogFlow
      <3> HIDE DEF q
      <3> QED
        BY <2>1, <3>1, EndsTail
    <2>3. thread[r] # "none"
      BY <2>1 DEF LogFlow
    <2>4. link[c] = "up" => toServer'[c] = toServer[c] \o <<Wire(h)>>
      <3>1. ASSUME link[c] = "up" PROVE Conn(r) = c /\ socket[r] = "connected"
        BY <2>3, <3>1, UpIsConnected
      <3>2. link[c] = "up" => Conn(p) = c
        BY <1>5, <3>1
      <3> QED
        BY <1>1, <1>5, <2>1, <3>1, <3>2 DEF Emit, ToServer
    <2>5. link[c] # "up" => toServer'[c] = toServer[c]
      BY <1>1, <2>1 DEF Emit, ToServer
    <2>6. ASSUME LinesInOrder(r) PROVE LinesInOrder(r)'
      <3> DEFINE t == toServer[c]
                 k == IF h = "log" THEN 1 ELSE 0
      <3>1. ~Has(t, "stopped") /\ ~Has(toPeer[c], "quit") /\ NeverBehind(t, "log", "stopped")
        BY <2>1, <2>6 DEF LinesInOrder
      <3>2. CASE link[c] = "up"
        <4>1. /\ \A x : Has(toServer'[c], x) <=> Has(t, x) \/ x = Wire(h)
              /\ NeverBehind(toServer'[c], "log", "stopped")
              /\ Lines(toServer'[c]) = Lines(t) + k
          <5>1. toServer'[c] = t \o <<Wire(h)>> /\ t \in Seq(ServerMsgs)
            BY <2>1, <2>4, <3>2
          <5>2. Wire(h) = "log" <=> h = "log"
            BY <1>2
          <5> HIDE DEF t, c, h
          <5> DEFINE u == t \o <<Wire(h)>>
          <5>3. \A x : Has(u, x) <=> Has(t, x) \/ x = Wire(h)
            BY <1>2, <5>1, SentOne
          <5>4. NeverBehind(u, "log", "stopped")
            BY <1>2, <3>1, <5>1, SentOne
          <5>5. Lines(u) = Lines(t) + k
            BY <1>2, <5>1, <5>2, SentOne
          <5>6. toServer'[c] = u
            BY <5>1
          <5> HIDE DEF u
          <5> QED
            BY <5>3, <5>4, <5>5, <5>6
        <4>2. Has(toServer'[c], "stopped") => events'[r] = <<>>
          <5>1. h \in WorkerSignals
            BY <1>2
          <5>2. h # "stopped"
            BY <5>1 DEF WorkerSignals
          <5>3. Wire(h) = "stopped" => h = "finished"
            BY <1>2, <5>2
          <5>4. Has(toServer'[c], "stopped") => Wire(h) = "stopped"
            BY <3>1, <4>1
          <5> HIDE DEF h, c, q
          <5> QED
            BY <2>1, <2>2, <5>3, <5>4
        <4>3. Lines(q) = Lines(events'[r]) + k
          <5> HIDE DEF q
          <5> QED
            BY <2>1, LinesTail
        <4>4. logged[c] + Lines(t) + Lines(q) = logLines[r]
          BY <2>6, <3>2 DEF LinesInOrder
        <4>5. /\ Lines(t) \in Nat /\ logged[c] \in Nat /\ logLines[r] \in Nat /\ k \in Nat
          BY <2>1, LinesType
        <4>6. Lines(events'[r]) \in Nat
          <5>1. events'[r] \in Seq(WorkerSignals)
            <6> HIDE DEF q
            <6> QED
              BY <2>1, TailType
          <5> QED
            BY <5>1, LinesType
        <4>7. logged[c] + Lines(toServer'[c]) + Lines(events'[r]) = logLines[r]
          <5> DEFINE a == Lines(t)
                     b == Lines(q)
                     d == Lines(events'[r])
          <5>1. /\ a \in Nat /\ d \in Nat /\ k \in Nat /\ logged[c] \in Nat
                /\ b = d + k /\ logged[c] + a + b = logLines[r]
            BY <4>3, <4>4, <4>5, <4>6
          <5> HIDE DEF a, b, d, k
          <5>2. logged[c] + (a + k) + d = logLines[r]
            <6> HIDE IdentTypes, FlowTypes DEF LogInv, ServiceInv, IdentInv, KeysInv
            <6> QED
              BY <5>1
          <5> QED
            BY <4>1, <5>2 DEF a, d, k
        <4> QED
          BY <1>1, <1>3, <3>1, <4>1, <4>2, <4>7 DEF LinesInOrder
      <3>3. CASE link[c] # "up"
        BY <1>1, <1>3, <2>5, <3>1, <3>3 DEF LinesInOrder
      <3> QED
        BY <3>2, <3>3
    <2>7. link[c] = "unused" => thread[r] = "none"
      BY DEF LogFlow
    <2> QED
      BY <1>1, <1>3, <2>1, <2>2, <2>3, <2>6, <2>7 DEF LogFlow
  <1> QED
    BY <1>4, <1>5

\* A run that was told to stop may lose lines to the end that overtakes them.
LEMMA FlowStopReturns ==
    ASSUME LogInv, NEW p \in Runs, UNCHANGED guiVars, StopReturns(p), NEW r \in Runs
    PROVE  LogFlow(r)'
  <1> USE IdentTypes, FlowTypes DEF LogInv, ServiceInv, IdentInv, KeysInv
  <1>1. /\ waiting[p] /\ waiting' = [waiting EXCEPT ![p] = FALSE]
        /\ events' = [events EXCEPT ![p] = <<>>] /\ Emit(p, <<"stopped">> \o WireAll(events[p]))
        /\ UNCHANGED <<link, toPeer, stopReq, thread, logLines, logged>>
    BY DEF StopReturns, guiVars, serverVars
  <1>2. First(r)' = First(r)
    BY DEF First
  <1>3. CASE r # p
    <2>1. First(r) # Conn(p)
      BY <1>3 DEF First, Conn
    <2>2. toServer'[First(r)] = toServer[First(r)]
      BY <1>1, <2>1 DEF Emit, ToServer
    <2> QED
      BY <1>1, <1>3, <2>2, FlowFrame
  <1>4. CASE r = p
    <2>1. stopReq'[r]
      BY <1>1, <1>4 DEF LogFlow
    <2>2. EndsLast(<<>>)
      BY DEF EndsLast
    <2> QED
      BY <1>1, <1>2, <1>4, <2>1, <2>2 DEF LogFlow
  <1> QED
    BY <1>3, <1>4

\* The peer's key carries no line.
LEMMA FlowConnection ==
    ASSUME LogInv, NEW p \in Runs, UNCHANGED guiVars,
           ConnectionEstablished(p) \/ ConnectionRecovered(p) \/ ConnectionLost(p),
           NEW r \in Runs
    PROVE  LogFlow(r)'
  <1> USE IdentTypes, FlowTypes DEF LogInv, ServiceInv, IdentInv, KeysInv
  <1> DEFINE c == First(r)
  <1>1. UNCHANGED <<link, toPeer, waiting, stopReq, thread, events, logLines, logged>>
    BY DEF ConnectionEstablished, ConnectionRecovered, ConnectionLost, linkVars, workerVars,
        guiVars, serverVars
  <1>2. First(r)' = First(r)
    BY DEF First
  <1>3. toServer'[c] = toServer[c] \/ toServer'[c] = toServer[c] \o <<"key">>
    <2>1. CASE toServer' = toServer
      BY <2>1
    <2>2. CASE toServer' = [toServer EXCEPT ![Conn(p)] = @ \o <<"key">>]
      BY <2>2
    <2> QED
      BY <2>1, <2>2 DEF ConnectionEstablished, ConnectionRecovered, ConnectionLost, linkVars,
          ToServer
  <1>4. CASE toServer'[c] = toServer[c]
    BY <1>1, <1>4, FlowFrame
  <1>5. CASE toServer'[c] = toServer[c] \o <<"key">>
    <2> DEFINE t == toServer[c]
    <2>1. t \in Seq(ServerMsgs) /\ "key" \in ServerMsgs
      BY DEF ServerMsgs
    <2>2. toServer'[c] = t \o <<"key">>
      BY <1>5
    <2>3. \A x : Has(toServer'[c], x) <=> Has(t, x) \/ x = "key"
      <3> HIDE DEF t, c
      <3>1. \A x : Has(t \o <<"key">>, x) <=> Has(t, x) \/ x = "key"
        BY <2>1, SentOne
      <3> QED
        BY <2>2, <3>1
    <2>4. NeverBehind(t, "log", "stopped") => NeverBehind(toServer'[c], "log", "stopped")
      <3> HIDE DEF t, c
      <3>1. NeverBehind(t, "log", "stopped") => NeverBehind(t \o <<"key">>, "log", "stopped")
        BY <2>1, SentInOrder
      <3> QED
        BY <2>2, <3>1
    <2>5. Lines(toServer'[c]) = Lines(t)
      <3> HIDE DEF t, c
      <3>1. Lines(t \o <<"key">>) = Lines(t) + 0 /\ Lines(t) \in Nat
        BY <2>1, SentOne, LinesType
      <3> QED
        BY <2>2, <3>1
    <2>6. LinesInOrder(r) => LinesInOrder(r)'
      BY <1>1, <1>2, <2>3, <2>4, <2>5 DEF LinesInOrder
    <2> QED
      BY <1>1, <1>2, <2>6 DEF LogFlow
  <1> QED
    BY <1>3, <1>4, <1>5
----------------------------------------------------------------------------
(* The whole system.                                                       *)

LEMMA FlowPeer ==
    ASSUME LogInv, TypeOK', Sockets', NEW p \in Runs, Peer(p), NEW r \in Runs
    PROVE  LogFlow(r)'
  <1>1. PeerStep(p) /\ UNCHANGED guiVars
    BY DEF Peer
  <1>2. CASE CheckTimeOut(p) \/ PeerDies(p)
    BY <1>1, <1>2, FlowExit DEF CheckTimeOut, PeerDies
  <1>3. CASE Quit(p)
    <2>1. UNCHANGED thread
      BY <1>3, QuitIdle DEF LogInv
    <2> QED
      BY <1>1, <1>3, <2>1, FlowExit DEF Quit
  <1>4. CASE ReceiveOptions(p) \/ StartReconstruction(p) \/ StopReconstruction(p)
    BY <1>1, <1>4, FlowReceive
  <1>5. CASE \/ WorkerBegins(p) \/ WorkerEnds(p)
             \/ \E sig \in {"log", "message"} : WorkerEmits(p, sig)
    BY <1>1, <1>5, FlowWorker
  <1>6. CASE ConnectionEstablished(p) \/ ConnectionRecovered(p) \/ ConnectionLost(p)
    BY <1>1, <1>6, FlowConnection
  <1>7. CASE StopReturns(p) \/ DeliverSignal(p)
    BY <1>1, <1>7, FlowStopReturns, FlowDeliver
  <1> QED
    BY <1>1, <1>2, <1>3, <1>4, <1>5, <1>6, <1>7 DEF PeerStep

LEMMA LogStep ==
    ASSUME FreshKeys, LogInv, [Next]_vars
    PROVE  LogInv'
  <1>1. ServiceInv' /\ LinksInv'
    BY ServiceStep, LinksStep DEF LogInv
  <1>2. TypeOK' /\ Sockets'
    BY <1>1 DEF ServiceInv, IdentInv, KeysInv, LinksInv
  <1> SUFFICES ASSUME NEW r \in Runs PROVE LogFlow(r)'
    BY <1>1 DEF LogInv
  <1>3. LogFlow(r)
    BY DEF LogInv
  <1>4. CASE UNCHANGED vars
    BY <1>3, <1>4, FlowFrame
    DEF vars, linkVars, guiVars, serverVars, peerVars, workerVars
  <1>5. CASE User \/ LocalExit
    BY <1>5, FlowUser
  <1>6. ASSUME NEW p \in Runs, Launch(p) PROVE LogFlow(r)'
    BY <1>3, <1>6, FlowFrame DEF Launch, PeerStart, linkVars, guiVars, serverVars, workerVars
  <1>7. ASSUME NEW p \in Runs, Connect(p) \/ Peer(p) PROVE LogFlow(r)'
    BY <1>2, <1>7, FlowConnect, FlowPeer
  <1>8. ASSUME NEW c \in Conns, ServerStep(c) \/ LinkBreaks(c) PROVE LogFlow(r)'
    BY <1>8, FlowServer, FlowBreaks
  <1> QED
    BY <1>4, <1>5, <1>6, <1>7, <1>8 DEF Next

LEMMA LogInit == Init => LogInv
  <1> SUFFICES ASSUME Init PROVE LinksInv /\ \A r \in Runs : LogFlow(r)
    BY ServiceInit DEF LogInv
  <1> USE DEF Init, LinkInit, GuiInit, PeerInit
  <1>1. LinksInv
    BY DEF LinksInv, BoxesOfGone, OpenListed, Sockets, Elements, First, Conns
  <1>2. ASSUME NEW r \in Runs PROVE LogFlow(r)
    <2>1. First(r) \in Conns
      BY MaxConnsAssumption DEF First, Conns
    <2>2. /\ waiting[r] = FALSE /\ thread[r] = "none" /\ events[r] = <<>> /\ logLines[r] = 0
          /\ link[First(r)] = "unused" /\ logged[First(r)] = 0
          /\ toServer[First(r)] = <<>> /\ toPeer[First(r)] = <<>>
      BY <2>1
    <2>3. EndsLast(<<>>) /\ \A x : ~Has(<<>>, x)
      BY DEF EndsLast, Has
    <2>4. NeverBehind(<<>>, "log", "stopped")
      BY DEF NeverBehind
    <2> QED
      BY <2>2, <2>3, <2>4 DEF LogFlow, LinesInOrder
  <1> QED
    BY <1>1, <1>2

LEMMA LogKept == LogInv => LogComplete
  BY DEF LogInv, LogFlow, LinesInOrder, LogComplete, First

\* No line of a run that ended by itself is lost, refused or still on its way
\* when its peer is dismissed, whatever happens to the other runs and to the
\* message boxes (UwrapcPeerThread's queued signals, RPCPeer::threadFinished,
\* RPCServer::receiveLogLine, onReconstructionStopped).
THEOREM LogArrives == ASSUME FreshKeys PROVE Spec => []LogComplete
  <1>1. LogInv /\ [Next]_vars => LogInv'
    BY LogStep
  <1> QED
    BY LogInit, <1>1, LogKept, PTL DEF Spec

\* Stops behind starts, quits behind workers and logs complete: the three at
\* once, with lost links, recoveries, local runs and options that could not be
\* written (RPCPeer, RPCServer, ProcessControl).
THEOREM SafeWhateverBreaks == ASSUME FreshKeys PROVE Spec => []SafeAfterRecovery
  <1>1. LogInv /\ [Next]_vars => LogInv'
    BY LogStep
  <1>2. LogInv => SafeAfterRecovery
    <2>1. ServiceInv => StopAfterStart /\ QuitAfterWorker
      BY DEF ServiceInv, CallInv, Addressed, PeerQueueOK, StopAfterStart, QuitAfterWorker, Behind
    <2> QED
      BY <2>1, LogKept DEF LogInv, SafeAfterRecovery
  <1> QED
    BY LogInit, <1>1, <1>2, PTL DEF Spec

----------------------------------------------------------------------------
(* The end of a run.  What the liveness of stops and ends rests on: a peer  *)
(* whose worker has ended never waits for a server that waits for it.      *)

\* The peer still has the end to report, or its report or the quit that
\* answers it is under way.
EndUnderWay(r) ==
    \/ waiting[r] \/ Has(events[r], "finished")
    \/ Has(toServer[First(r)], "stopped") \/ Has(toPeer[First(r)], "quit")

StopServed(r) ==
    stopReq[r] =>
        proc[r] = "exited" \/ thread[r] = "finished" \/ (waiting[r] /\ ThreadBusy(r))

EndFlow(r) ==
    /\ StopServed(r)
    /\ thread[r] # "none" => proc[r] # "none"
    /\ link[First(r)] = "closed" => proc[r] = "exited"
    /\ link[First(r)] = "up" => First(r) \in open
    /\ link[First(r)] = "up" /\ thread[r] = "finished" => EndUnderWay(r)

EndInv == LogInv /\ \A r \in Runs : EndFlow(r)

\* Steps that leave the end of run r where it is, or take it one station on.
LEMMA EndMoves ==
    ASSUME NEW r \in Runs, EndFlow(r),
           thread'[r] = thread[r], proc'[r] = proc[r], stopReq'[r] = stopReq[r],
           waiting'[r] = waiting[r], link'[First(r)] = link[First(r)],
           link[First(r)] = "up" => /\ First(r) \in open => First(r) \in open'
                                    /\ EndUnderWay(r) => EndUnderWay(r)'
    PROVE  EndFlow(r)'
  <1>1. First(r)' = First(r)
    BY DEF First
  <1>2. StopServed(r)'
    BY DEF EndFlow, StopServed, ThreadBusy
  <1> QED
    BY <1>1, <1>2 DEF EndFlow

LEMMA EndTypes ==
    ASSUME TypeOK
    PROVE  /\ thread \in [Runs -> {"none", "created", "running", "finished"}]
           /\ waiting \in [Runs -> BOOLEAN] /\ proc \in [Runs -> {"none", "alive", "exited"}]
           /\ events \in [Runs -> Seq(WorkerSignals)]
           /\ toServer \in [Conns -> Seq(ServerMsgs)] /\ toPeer \in [Conns -> Seq(PeerMsgs)]
           /\ \A r \in Runs : First(r) \in Conns
  BY FlowTypes DEF TypeOK, LinkTypeOK, PeerTypeOK

\* What is added at the end of a queue takes nothing from it.
LEMMA KeptIfSent ==
    ASSUME NEW S, NEW q \in Seq(S), NEW p \in Seq(S), NEW m
    PROVE  Has(q, m) => Has(q \o p, m)
  BY HasConcat

LEMMA QuitKept ==
    ASSUME TypeOK, NEW c \in Conns, NEW d \in Conns, NEW msgs \in Seq(PeerMsgs),
           toPeer' = toPeer \/ toPeer' = [toPeer EXCEPT ![d] = @ \o msgs],
           Has(toPeer[c], "quit")
    PROVE  Has(toPeer'[c], "quit")
  <1>1. \A q \in Seq(PeerMsgs) : Has(q, "quit") => Has(q \o msgs, "quit")
    BY KeptIfSent
  <1>2. toPeer'[c] = toPeer[c] \/ toPeer'[c] = toPeer[c] \o msgs
    BY EndTypes
  <1> QED
    BY <1>1, <1>2, EndTypes

LEMMA StoppedKept ==
    ASSUME TypeOK, NEW c \in Conns, NEW d, NEW msgs \in Seq(ServerMsgs),
           toServer' = toServer \/ toServer' = [toServer EXCEPT ![d] = @ \o msgs],
           Has(toServer[c], "stopped")
    PROVE  Has(toServer'[c], "stopped")
  <1>1. \A q \in Seq(ServerMsgs) : Has(q, "stopped") => Has(q \o msgs, "stopped")
    BY KeptIfSent
  <1>2. toServer'[c] = toServer[c] \/ toServer'[c] = toServer[c] \o msgs
    BY EndTypes
  <1> QED
    BY <1>1, <1>2, EndTypes

LEMMA EndUser ==
    ASSUME EndInv, User \/ LocalExit, NEW r \in Runs
    PROVE  EndFlow(r)'
  <1>1. TypeOK /\ EndFlow(r) /\ First(r) \in Conns
    BY EndTypes DEF EndInv, LogInv, ServiceInv, IdentInv, KeysInv
  <1>2. UNCHANGED <<waiting, stopReq, thread, proc, events, link, toServer, open>>
    BY DEF User, LocalExit, UserStarts, UserStops, LocalProcessExits, Dismiss, DismissMessage,
        DismissExit, DismissFinished, linkVars, serverVars, peerVars, workerVars
  <1>3. Has(toPeer[First(r)], "quit") => Has(toPeer'[First(r)], "quit")
    <2>1. StopsServed
      BY <1>1, UserSendsStops
    <2>2. <<"stop">> \in Seq(PeerMsgs)
      BY DEF PeerMsgs
    <2>3. CASE UNCHANGED toPeer
      BY <2>3
    <2>4. ASSUME NEW d \in Conns, toPeer' = [toPeer EXCEPT ![d] = @ \o <<"stop">>]
          PROVE  Has(toPeer[First(r)], "quit") => Has(toPeer'[First(r)], "quit")
      BY <1>1, <2>2, <2>4, QuitKept
    <2> QED
      BY <2>1, <2>3, <2>4 DEF StopsServed
  <1>4. EndUnderWay(r) => EndUnderWay(r)'
    BY <1>2, <1>3 DEF EndUnderWay, First
  <1> QED
    BY <1>1, <1>2, <1>4, EndMoves

LEMMA EndConnect ==
    ASSUME EndInv, NEW p \in Runs, Connect(p), NEW r \in Runs
    PROVE  EndFlow(r)'
  <1> USE IdentTypes, FlowTypes DEF EndInv, LogInv, ServiceInv, IdentInv, KeysInv
  <1>1. /\ link' = [link EXCEPT ![<<p, conn[p] + 1>>] = "up"]
        /\ open' = open \cup {<<p, conn[p] + 1>>}
        /\ UNCHANGED <<toServer, toPeer, waiting, stopReq, thread, proc, events>>
    BY DEF Connect, PeerConnect, ClientConnected, workerVars
  <1>2. EndFlow(r) /\ First(r)' = First(r)
    BY DEF First
  <1>3. CASE First(r) # <<p, conn[p] + 1>>
    <2>1. link'[First(r)] = link[First(r)]
      BY <1>1, <1>3
    <2>2. EndUnderWay(r) => EndUnderWay(r)'
      BY <1>1, <1>2 DEF EndUnderWay
    <2> QED
      BY <1>1, <1>2, <2>1, <2>2, EndMoves
  <1>4. CASE First(r) = <<p, conn[p] + 1>>
    <2>1. r = p /\ conn[r] = 0
      BY <1>4, MaxConnsAssumption DEF First
    <2>2. link[First(r)] = "unused"
      BY <2>1 DEF Identified, ConnectionsMade
    <2>3. thread[r] = "none"
      <3>1. LogFlow(r)
        OBVIOUS
      <3> QED
        BY <2>2, <3>1 DEF LogFlow
    <2>4. link'[First(r)] = "up" /\ First(r) \in open'
      BY <1>1, <1>4
    <2> QED
      BY <1>1, <1>2, <2>3, <2>4 DEF EndFlow, StopServed, ThreadBusy
  <1> QED
    BY <1>3, <1>4

LEMMA EndBreaks ==
    ASSUME EndInv, NEW c \in Conns, LinkBreaks(c), NEW r \in Runs
    PROVE  EndFlow(r)'
  <1> USE IdentTypes, FlowTypes DEF EndInv, LogInv, ServiceInv, IdentInv, KeysInv
  <1>1. PICK n \in 0 .. Len(toServer[c]), m \in 0 .. Len(toPeer[c]) :
            /\ toServer' = [toServer EXCEPT ![c] = Prefix(@, n)]
            /\ toPeer' = [toPeer EXCEPT ![c] = Prefix(@, m)]
    BY DEF LinkBreaks, Break
  <1>2. /\ link' = [link EXCEPT ![c] = "broken"]
        /\ UNCHANGED <<waiting, stopReq, thread, proc, events, open>>
    BY DEF LinkBreaks, Break, guiVars, serverVars, peerVars, workerVars
  <1>3. EndFlow(r) /\ First(r)' = First(r)
    BY DEF First
  <1>4. CASE First(r) # c
    <2>1. /\ link'[First(r)] = link[First(r)] /\ toServer'[First(r)] = toServer[First(r)]
          /\ toPeer'[First(r)] = toPeer[First(r)]
      BY <1>1, <1>2, <1>4
    <2>2. EndUnderWay(r) => EndUnderWay(r)'
      BY <1>2, <1>3, <2>1 DEF EndUnderWay
    <2> QED
      BY <1>2, <1>3, <2>1, <2>2, EndMoves
  <1>5. CASE First(r) = c
    <2>1. link'[First(r)] = "broken"
      BY <1>2, <1>5
    <2> QED
      BY <1>2, <1>3, <2>1 DEF EndFlow, StopServed, ThreadBusy
  <1> QED
    BY <1>4, <1>5

\* The server takes a call that does not report an end.
LEMMA EndTake ==
    ASSUME TypeOK, NEW c \in Conns, toServer[c] # <<>>, Head(toServer[c]) # "stopped", Take(c),
           NEW r \in Runs, EndFlow(r),
           Has(toPeer[First(r)], "quit") => Has(toPeer'[First(r)], "quit"),
           UNCHANGED <<waiting, stopReq, thread, proc, events, link, open>>
    PROVE  EndFlow(r)'
  <1>1. toServer[c] \in Seq(ServerMsgs) /\ First(r) \in Conns /\ First(r)' = First(r)
    BY EndTypes DEF First
  <1>2. /\ toServer'[c] = Tail(toServer[c])
        /\ \A d \in Conns \ {c} : toServer'[d] = toServer[d]
    BY EndTypes DEF Take
  <1>3. Has(toServer[c], "stopped") => Has(Tail(toServer[c]), "stopped")
    BY <1>1, HasTail
  <1>4. Has(toServer[First(r)], "stopped") => Has(toServer'[First(r)], "stopped")
    BY <1>1, <1>2, <1>3
  <1>5. EndUnderWay(r) => EndUnderWay(r)'
    BY <1>1, <1>4 DEF EndUnderWay
  <1> QED
    BY <1>5, EndMoves

\* The report of an end is answered with quit while the link is up.
LEMMA EndStopped ==
    ASSUME EndInv, NEW c \in Conns, ReconstructionStopped(c), UNCHANGED peerVars,
           NEW r \in Runs
    PROVE  EndFlow(r)'
  <1>0. TypeOK /\ EndFlow(r) /\ First(r) \in Conns /\ First(r)' = First(r)
    BY EndTypes DEF EndInv, LogInv, ServiceInv, IdentInv, KeysInv, First
  <1>1. /\ c \in open /\ Take(c) /\ ToPeer(c, <<"quit">>)
        /\ UNCHANGED <<waiting, stopReq, thread, proc, events, link, open>>
    BY DEF ReconstructionStopped, Incoming, guiVars, serverVars, peerVars, workerVars
  <1>2. /\ toServer \in [Conns -> Seq(ServerMsgs)] /\ toPeer \in [Conns -> Seq(PeerMsgs)]
    BY <1>0, EndTypes
  <1>3. CASE First(r) # c
    <2>1. toServer'[First(r)] = toServer[First(r)] /\ toPeer'[First(r)] = toPeer[First(r)]
      BY <1>0, <1>1, <1>2, <1>3 DEF Take, ToPeer
    <2>2. EndUnderWay(r) => EndUnderWay(r)'
      BY <1>0, <1>1, <2>1 DEF EndUnderWay
    <2> QED
      BY <1>0, <1>1, <2>2, EndMoves
  <1>4. CASE First(r) = c
    <2>1. ASSUME link[First(r)] = "up" PROVE EndUnderWay(r)'
      <3>1. toPeer'[c] = toPeer[c] \o <<"quit">>
        BY <1>1, <1>2, <1>4, <2>1 DEF ToPeer
      <3>2. toPeer[c] \in Seq(PeerMsgs) /\ "quit" \in PeerMsgs
        BY <1>2 DEF PeerMsgs
      <3>3. Has(toPeer'[c], "quit")
        BY <3>1, <3>2, SentOne
      <3> QED
        BY <1>0, <1>4, <3>3 DEF EndUnderWay
    <2> QED
      BY <1>0, <1>1, <2>1, EndMoves
  <1> QED
    BY <1>3, <1>4

LEMMA EndServer ==
    ASSUME EndInv, NEW c \in Conns, ServerStep(c), NEW r \in Runs
    PROVE  EndFlow(r)'
  <1>0. TypeOK /\ EndFlow(r) /\ First(r) \in Conns /\ First(r)' = First(r)
    BY EndTypes DEF EndInv, LogInv, ServiceInv, IdentInv, KeysInv, First
  <1>g. UNCHANGED <<waiting, stopReq, thread, proc, events>> /\ UNCHANGED peerVars
    BY DEF ServerStep, peerVars, workerVars
  <1>1. CASE ReceiveIdentificationKey(c)
    <2>1. /\ toServer[c] # <<>> /\ Head(toServer[c]) = "key" /\ Take(c)
          /\ HandleRemoteClient(key[c[1]], clientKey') /\ UNCHANGED <<link, open>>
      BY <1>1 DEF ReceiveIdentificationKey, Incoming
    <2>2. <<"options", "start">> \in Seq(PeerMsgs) /\ <<"start">> \in Seq(PeerMsgs)
      BY DEF PeerMsgs
    <2>3. ASSUME NEW d \in Conns, NEW msgs \in Seq(PeerMsgs), ToPeer(d, msgs)
          PROVE  Has(toPeer[First(r)], "quit") => Has(toPeer'[First(r)], "quit")
      <3>1. toPeer' = toPeer \/ toPeer' = [toPeer EXCEPT ![d] = @ \o msgs]
        BY <2>3 DEF ToPeer
      <3> QED
        BY <1>0, <3>1, QuitKept
    <2>4. Has(toPeer[First(r)], "quit") => Has(toPeer'[First(r)], "quit")
      BY <2>1, <2>2, <2>3 DEF HandleRemoteClient, ClientsOf
    <2> QED
      BY <1>0, <1>g, <2>1, <2>4, EndTake
  <1>2. CASE ReconstructionStarted(c) \/ DisplayMessage(c) \/ ReceiveLogLine(c)
    <2>1. /\ toServer[c] # <<>> /\ Head(toServer[c]) # "stopped" /\ Take(c)
          /\ UNCHANGED <<link, toPeer, open>>
      BY <1>2 DEF ReconstructionStarted, DisplayMessage, ReceiveLogLine, Incoming, guiVars,
          serverVars
    <2> QED
      BY <1>0, <1>g, <2>1, EndTake
  <1>3. CASE OnClientDisconnected(c)
    <2>1. /\ link[c] # "up" /\ open' = open \ {c} /\ UNCHANGED <<link, toServer, toPeer>>
      BY <1>3 DEF OnClientDisconnected, linkVars
    <2>2. EndUnderWay(r) => EndUnderWay(r)'
      BY <1>0, <1>g, <2>1 DEF EndUnderWay
    <2> QED
      BY <1>0, <1>g, <2>1, <2>2, EndMoves
  <1> QED
    BY <1>g, <1>1, <1>2, <1>3, EndStopped DEF ServerStep, ServerReceive

\* A process that ends leaves no link up.
LEMMA EndExit ==
    ASSUME EndInv, TypeOK', Sockets', NEW p \in Runs, Exit(p),
           UNCHANGED <<thread, guiVars>>, NEW r \in Runs
    PROVE  EndFlow(r)'
  <1> USE IdentTypes, FlowTypes DEF EndInv, LogInv, ServiceInv, IdentInv, KeysInv
  <1>0. EndFlow(r) /\ First(r) \in Conns /\ First(r)' = First(r)
    BY DEF First
  <1>1. /\ events' = [events EXCEPT ![p] = <<>>] /\ proc' = [proc EXCEPT ![p] = "exited"]
        /\ waiting' = [waiting EXCEPT ![p] = FALSE]
        /\ socket' = [socket EXCEPT ![p] = "unconnected"]
        /\ UNCHANGED <<thread, stopReq, open>>
    BY DEF Exit, guiVars, serverVars
  <1>2. CASE r # p
    <2>1. First(r) # Conn(p)
      BY <1>2 DEF First, Conn
    <2>2. /\ link'[First(r)] = link[First(r)] /\ toServer'[First(r)] = toServer[First(r)]
          /\ toPeer'[First(r)] = toPeer[First(r)]
      BY <1>0, <2>1 DEF Exit, Close, linkVars
    <2>3. /\ events'[r] = events[r] /\ proc'[r] = proc[r] /\ waiting'[r] = waiting[r]
      BY <1>1, <1>2 DEF TypeOK, PeerTypeOK
    <2>4. EndUnderWay(r) => EndUnderWay(r)'
      BY <1>0, <2>2, <2>3 DEF EndUnderWay
    <2> QED
      BY <1>0, <1>1, <2>2, <2>3, <2>4, EndMoves
  <1>3. CASE r = p
    <2>1. proc'[r] = "exited" /\ socket'[r] = "unconnected"
      BY <1>1, <1>3
    <2>2. First(r)[1] = r
      BY DEF First
    <2>3. link'[First(r)] # "up"
      BY <1>0, <2>1, <2>2 DEF Sockets
    <2> QED
      BY <1>0, <2>1, <2>3 DEF EndFlow, StopServed
  <1> QED
    BY <1>2, <1>3

\* The peer takes a call of the server.
LEMMA EndReceive ==
    ASSUME EndInv, ServiceInv', NEW p \in Runs, UNCHANGED guiVars,
           ReceiveOptions(p) \/ StartReconstruction(p) \/ StopReconstruction(p),
           NEW r \in Runs
    PROVE  EndFlow(r)'
  <1> USE IdentTypes, FlowTypes DEF EndInv, LogInv, ServiceInv, IdentInv, KeysInv
  <1> DEFINE q == toPeer[Conn(p)]
  <1>0. EndFlow(r) /\ First(r) \in Conns /\ First(r)' = First(r)
    BY DEF First
  <1>1. /\ q # <<>> /\ toPeer' = [toPeer EXCEPT ![Conn(p)] = Tail(@)] /\ Head(q) # "quit"
        /\ socket[p] = "connected" /\ proc[p] = "alive"
        /\ UNCHANGED <<link, toServer, events, proc, open>>
    BY DEF ReceiveOptions, StartReconstruction, StopReconstruction, Receive, Consume, Looping,
        workerVars, guiVars, serverVars
  <1>2. Conn(p) \in Conns /\ Conn(p)[1] = p /\ q \in Seq(PeerMsgs)
    BY <1>1, MaxConnsAssumption DEF Identified, Connecting, Conn, Conns
  <1>3. Has(toPeer[First(r)], "quit") => Has(toPeer'[First(r)], "quit")
    <2>1. Has(q, "quit") => Has(Tail(q), "quit")
      BY <1>1, <1>2, HasTail
    <2> QED
      BY <1>0, <1>1, <1>2, <2>1
  <1>4. CASE UNCHANGED <<waiting, stopReq, thread>>
    <2>1. EndUnderWay(r) => EndUnderWay(r)'
      BY <1>0, <1>1, <1>3, <1>4 DEF EndUnderWay
    <2> QED
      BY <1>0, <1>1, <1>4, <2>1, EndMoves
  <1>5. CASE ReceiveOptions(p)
    BY <1>4, <1>5 DEF ReceiveOptions, workerVars
  <1>6. CASE StartReconstruction(p)
    <2>1. thread' = [thread EXCEPT ![p] = "created"] /\ UNCHANGED <<waiting, stopReq>>
      BY <1>6 DEF StartReconstruction
    <2>2. CASE r # p
      <3>1. thread'[r] = thread[r]
        BY <2>1, <2>2 DEF TypeOK, PeerTypeOK
      <3>2. EndUnderWay(r) => EndUnderWay(r)'
        BY <1>0, <1>1, <1>3, <2>1 DEF EndUnderWay
      <3> QED
        BY <1>0, <1>1, <2>1, <3>1, <3>2, EndMoves
    <2>3. CASE r = p
      <3>1. Has(q, "start")
        BY <1>1, <1>2, <1>6, HasTail DEF StartReconstruction, Receive
      <3>2. thread[p] = "none"
        BY <1>2, <3>1 DEF CallInv, Addressed, PeerQueueOK
      <3>3. ~stopReq[r]
        BY <1>0, <1>1, <2>3, <3>2 DEF EndFlow, StopServed, ThreadBusy
      <3>4. thread'[r] = "created"
        BY <2>1, <2>3 DEF TypeOK, PeerTypeOK
      <3> QED
        BY <1>0, <1>1, <2>1, <2>3, <3>3, <3>4 DEF EndFlow, StopServed
    <2> QED
      BY <2>2, <2>3
  <1>7. CASE StopReconstruction(p)
    <2>1. /\ stopReq' = [stopReq EXCEPT ![p] = TRUE]
          /\ waiting' = [waiting EXCEPT ![p] = TRUE] /\ UNCHANGED thread
      BY <1>7 DEF StopReconstruction
    <2>2. CASE r # p
      <3>1. waiting'[r] = waiting[r] /\ stopReq'[r] = stopReq[r]
        BY <2>1, <2>2 DEF TypeOK, PeerTypeOK
      <3>2. EndUnderWay(r) => EndUnderWay(r)'
        BY <1>0, <1>1, <1>3, <3>1 DEF EndUnderWay
      <3> QED
        BY <1>0, <1>1, <2>1, <3>1, <3>2, EndMoves
    <2>3. CASE r = p
      <3>1. waiting'[r]
        BY <2>1, <2>3 DEF TypeOK, PeerTypeOK
      <3>2. thread'[r] # "none"
        BY <3>1 DEF CallInv, EndReported
      <3>3. thread'[r] \in {"none", "created", "running", "finished"}
        BY <2>1, EndTypes
      <3> QED
        BY <1>0, <1>1, <2>1, <3>1, <3>2, <3>3 DEF EndFlow, StopServed, ThreadBusy, EndUnderWay
    <2> QED
      BY <2>2, <2>3
  <1> QED
    BY <1>5, <1>6, <1>7

\* The worker queues a signal, its end among them.
LEMMA EndWorker ==
    ASSUME EndInv, NEW p \in Runs, UNCHANGED guiVars,
           \/ WorkerBegins(p) \/ WorkerEnds(p)
           \/ \E sig \in {"log", "message"} : WorkerEmits(p, sig),
           NEW r \in Runs
    PROVE  EndFlow(r)'
  <1>0. /\ TypeOK /\ EndFlow(r) /\ First(r) \in Conns /\ First(r)' = First(r)
        /\ events \in [Runs -> Seq(WorkerSignals)]
        /\ thread \in [Runs -> {"none", "created", "running", "finished"}]
    BY EndTypes DEF EndInv, LogInv, ServiceInv, IdentInv, KeysInv, First
  <1>1. UNCHANGED <<link, toServer, toPeer, waiting, stopReq, proc, open>>
    BY DEF WorkerBegins, WorkerEnds, WorkerEmits, linkVars, guiVars, serverVars
  <1>2. PICK sig \in WorkerSignals :
            /\ events' = [events EXCEPT ![p] = Append(@, sig)]
            /\ thread[p] \in {"created", "running"} /\ proc[p] = "alive"
            /\ \A s \in Runs \ {p} : thread'[s] = thread[s]
            /\ thread'[p] = IF sig = "finished" THEN "finished" ELSE "running"
    <2>1. CASE WorkerBegins(p)
      BY <1>0, <2>1 DEF WorkerBegins, WorkerSignals
    <2>2. CASE WorkerEnds(p)
      BY <1>0, <2>2 DEF WorkerEnds, WorkerSignals
    <2>3. ASSUME NEW m \in {"log", "message"}, WorkerEmits(p, m)
          PROVE  /\ events' = [events EXCEPT ![p] = Append(@, m)]
                 /\ thread[p] = "running" /\ proc[p] = "alive" /\ UNCHANGED thread
                 /\ m \in WorkerSignals /\ m # "finished"
      BY <2>3 DEF WorkerEmits, WorkerSignals
    <2> QED
      BY <2>1, <2>2, <2>3
  <1>3. CASE r # p
    <2>1. thread'[r] = thread[r] /\ events'[r] = events[r]
      BY <1>0, <1>2, <1>3
    <2>2. EndUnderWay(r) => EndUnderWay(r)'
      BY <1>0, <1>1, <2>1 DEF EndUnderWay
    <2> QED
      BY <1>0, <1>1, <2>1, <2>2, EndMoves
  <1>4. CASE r = p
    <2>1. thread'[r] = "finished" => EndUnderWay(r)'
      <3>1. sig = "finished" => Has(Append(events[r], sig), "finished")
        <4>1. events[r] \in Seq(WorkerSignals)
          BY <1>0
        <4>2. /\ Len(Append(events[r], sig)) = Len(events[r]) + 1 /\ Len(events[r]) \in Nat
              /\ Append(events[r], sig)[Len(events[r]) + 1] = sig
          BY <4>1, AppendProperties, LenProperties
        <4> QED
          BY <4>2 DEF Has
      <3> QED
        BY <1>0, <1>2, <1>4, <3>1 DEF EndUnderWay
    <2>2. StopServed(r)'
      <3>1. stopReq[r] => waiting[r]
        BY <1>0, <1>2, <1>4 DEF EndFlow, StopServed
      <3>2. thread'[r] \in {"running", "finished"}
        BY <1>2, <1>4
      <3> QED
        BY <1>1, <3>1, <3>2 DEF StopServed, ThreadBusy
    <2> QED
      BY <1>0, <1>1, <1>2, <1>4, <2>1, <2>2 DEF EndFlow
  <1> QED
    BY <1>3, <1>4

\* The peer's event loop reports the end when it gets to it.
LEMMA EndDeliver ==
    ASSUME EndInv, NEW p \in Runs, UNCHANGED guiVars, DeliverSignal(p), NEW r \in Runs
    PROVE  EndFlow(r)'
  <1>0. /\ LogInv /\ TypeOK /\ EndFlow(r) /\ First(r) \in Conns /\ First(r)' = First(r)
        /\ events \in [Runs -> Seq(WorkerSignals)] /\ toServer \in [Conns -> Seq(ServerMsgs)]
    BY EndTypes DEF EndInv, LogInv, ServiceInv, IdentInv, KeysInv, First
  <1> DEFINE h == Head(events[p])
             m == Wire(h)
  <1>1. /\ events[p] # <<>> /\ Emit(p, <<m>>) /\ events' = [events EXCEPT ![p] = Tail(@)]
        /\ UNCHANGED <<link, toPeer, waiting, stopReq, thread, proc, open>>
    BY DEF DeliverSignal, guiVars, serverVars
  <1>2. m \in ServerMsgs /\ (h = "finished" => m = "stopped")
    <2>1. h \in WorkerSignals
      BY <1>0, <1>1, TailType
    <2> QED
      BY <2>1 DEF Wire, WorkerSignals, ServerMsgs
  <1> HIDE DEF m
  <1>3. Has(toServer[First(r)], "stopped") => Has(toServer'[First(r)], "stopped")
    <2>1. <<m>> \in Seq(ServerMsgs)
      BY <1>2
    <2>2. toServer' = toServer \/ toServer' = [toServer EXCEPT ![Conn(p)] = @ \o <<m>>]
      BY <1>1 DEF Emit, ToServer
    <2> QED
      BY <1>0, <2>1, <2>2, StoppedKept
  <1>4. CASE r # p
    <2>1. events'[r] = events[r]
      BY <1>0, <1>1, <1>4
    <2>2. EndUnderWay(r) => EndUnderWay(r)'
      BY <1>0, <1>1, <1>3, <2>1 DEF EndUnderWay
    <2> QED
      BY <1>0, <1>1, <2>2, EndMoves
  <1>5. CASE r = p
    <2>1. ASSUME link[First(r)] = "up", Has(events[r], "finished") PROVE EndUnderWay(r)'
      <3>1. events[r] \in Seq(WorkerSignals) /\ events[r] # <<>> /\ events'[r] = Tail(events[r])
        BY <1>0, <1>1, <1>5
      <3>2. CASE h # "finished"
        <4>1. Has(Tail(events[r]), "finished")
          BY <1>5, <2>1, <3>1, <3>2, HasTail
        <4> QED
          BY <3>1, <4>1 DEF EndUnderWay
      <3>3. CASE h = "finished"
        <4>1. thread[r] # "none"
          BY <2>1 DEF EndInv, LogInv, ServiceInv, CallInv, EndReported
        <4>2. Conn(r) = First(r) /\ socket[r] = "connected"
          BY <1>0, <2>1, <4>1, UpIsConnected
        <4>3. toServer'[First(r)] = toServer[First(r)] \o <<"stopped">>
          BY <1>0, <1>1, <1>2, <1>5, <2>1, <3>3, <4>2 DEF Emit, ToServer
        <4>4. toServer[First(r)] \in Seq(ServerMsgs) /\ "stopped" \in ServerMsgs
          BY <1>0 DEF ServerMsgs
        <4>5. Has(toServer'[First(r)], "stopped")
          BY <4>3, <4>4, SentOne
        <4> QED
          BY <1>0, <4>5 DEF EndUnderWay
      <3> QED
        BY <3>2, <3>3
    <2>2. link[First(r)] = "up" /\ EndUnderWay(r) => EndUnderWay(r)'
      BY <1>0, <1>1, <1>3, <2>1 DEF EndUnderWay
    <2> QED
      BY <1>0, <1>1, <2>2, EndMoves
  <1> QED
    BY <1>4, <1>5

\* stopReconstruction reports the end it has waited for.
LEMMA EndStopReturns ==
    ASSUME EndInv, NEW p \in Runs, UNCHANGED guiVars, StopReturns(p), NEW r \in Runs
    PROVE  EndFlow(r)'
  <1>0. /\ LogInv /\ TypeOK /\ EndFlow(r) /\ First(r) \in Conns /\ First(r)' = First(r)
        /\ events \in [Runs -> Seq(WorkerSignals)] /\ toServer \in [Conns -> Seq(ServerMsgs)]
        /\ thread \in [Runs -> {"none", "created", "running", "finished"}]
        /\ waiting \in [Runs -> BOOLEAN]
    BY EndTypes DEF EndInv, LogInv, ServiceInv, IdentInv, KeysInv, First
  <1>1. /\ waiting[p] /\ ~ThreadBusy(p) /\ waiting' = [waiting EXCEPT ![p] = FALSE]
        /\ events' = [events EXCEPT ![p] = <<>>] /\ Emit(p, <<"stopped">> \o WireAll(events[p]))
        /\ UNCHANGED <<link, toPeer, stopReq, thread, proc, open>>
    BY DEF StopReturns, guiVars, serverVars
  <1>2. CASE r # p
    <2>1. First(r) # Conn(p)
      BY <1>2 DEF First, Conn
    <2>2. /\ toServer'[First(r)] = toServer[First(r)] /\ events'[r] = events[r]
          /\ waiting'[r] = waiting[r]
      BY <1>0, <1>1, <1>2, <2>1 DEF Emit, ToServer
    <2>3. EndUnderWay(r) => EndUnderWay(r)'
      BY <1>0, <1>1, <2>2 DEF EndUnderWay
    <2> QED
      BY <1>0, <1>1, <2>2, <2>3, EndMoves
  <1>3. CASE r = p
    <2>1. thread[r] = "finished"
      <3>1. thread[r] # "none"
        BY <1>1, <1>3 DEF EndInv, LogInv, ServiceInv, CallInv, EndReported
      <3> QED
        BY <1>0, <1>1, <1>3, <3>1 DEF ThreadBusy
    <2>2. ASSUME link[First(r)] = "up" PROVE EndUnderWay(r)'
      <3>1. Conn(r) = First(r) /\ socket[r] = "connected"
        BY <1>0, <2>1, <2>2, UpIsConnected
      <3> DEFINE t == toServer[First(r)]
                 w == WireAll(events[r])
      <3>2. toServer'[First(r)] = t \o (<<"stopped">> \o w)
        BY <1>0, <1>1, <1>3, <2>2, <3>1 DEF Emit, ToServer
      <3>3. t \in Seq(ServerMsgs) /\ w \in Seq(ServerMsgs) /\ <<"stopped">> \in Seq(ServerMsgs)
        <4>1. w \in Seq(ServerMsgs)
          BY <1>0, WireType
        <4>2. "stopped" \in ServerMsgs
          BY DEF ServerMsgs
        <4> QED
          BY <1>0, <4>1, <4>2
      <3> HIDE DEF t, w
      <3>4. Has(<<"stopped">>, "stopped")
        BY DEF Has
      <3>5. <<"stopped">> \o w \in Seq(ServerMsgs) /\ Has(<<"stopped">> \o w, "stopped")
        BY <3>3, <3>4, HasConcat, ConcatProperties
      <3>6. Has(t \o (<<"stopped">> \o w), "stopped")
        BY <3>3, <3>5, HasConcat
      <3> QED
        BY <1>0, <3>2, <3>6 DEF EndUnderWay
    <2> QED
      BY <1>0, <1>1, <2>1, <2>2 DEF EndFlow, StopServed
  <1> QED
    BY <1>2, <1>3

LEMMA EndConnection ==
    ASSUME EndInv, NEW p \in Runs, UNCHANGED guiVars,
           ConnectionEstablished(p) \/ ConnectionRecovered(p) \/ ConnectionLost(p),
           NEW r \in Runs
    PROVE  EndFlow(r)'
  <1>0. TypeOK /\ EndFlow(r) /\ First(r) \in Conns /\ First(r)' = First(r)
    BY EndTypes DEF EndInv, LogInv, ServiceInv, IdentInv, KeysInv, First
  <1>1. UNCHANGED <<link, toPeer, waiting, stopReq, thread, proc, events, open>>
    BY DEF ConnectionEstablished, ConnectionRecovered, ConnectionLost, linkVars, workerVars,
        guiVars, serverVars
  <1>2. Has(toServer[First(r)], "stopped") => Has(toServer'[First(r)], "stopped")
    <2>1. <<"key">> \in Seq(ServerMsgs)
      BY DEF ServerMsgs
    <2>2. toServer' = toServer \/ toServer' = [toServer EXCEPT ![Conn(p)] = @ \o <<"key">>]
      BY DEF ConnectionEstablished, ConnectionRecovered, ConnectionLost, linkVars, ToServer
    <2> QED
      BY <1>0, <2>1, <2>2, StoppedKept
  <1>3. EndUnderWay(r) => EndUnderWay(r)'
    BY <1>0, <1>1, <1>2 DEF EndUnderWay
  <1> QED
    BY <1>0, <1>1, <1>3, EndMoves

LEMMA EndPeer ==
    ASSUME EndInv, LogInv', NEW p \in Runs, Peer(p), NEW r \in Runs
    PROVE  EndFlow(r)'
  <1>1. PeerStep(p) /\ UNCHANGED guiVars /\ TypeOK' /\ Sockets' /\ ServiceInv'
    BY DEF Peer, LogInv, ServiceInv, IdentInv, KeysInv, LinksInv
  <1>2. CASE CheckTimeOut(p) \/ PeerDies(p)
    BY <1>1, <1>2, EndExit DEF CheckTimeOut, PeerDies
  <1>3. CASE Quit(p)
    <2>1. UNCHANGED thread
      BY <1>3, QuitIdle DEF EndInv, LogInv
    <2> QED
      BY <1>1, <1>3, <2>1, EndExit DEF Quit
  <1>4. CASE ReceiveOptions(p) \/ StartReconstruction(p) \/ StopReconstruction(p)
    BY <1>1, <1>4, EndReceive
  <1>5. CASE \/ WorkerBegins(p) \/ WorkerEnds(p)
             \/ \E sig \in {"log", "message"} : WorkerEmits(p, sig)
    BY <1>1, <1>5, EndWorker
  <1>6. CASE ConnectionEstablished(p) \/ ConnectionRecovered(p) \/ ConnectionLost(p)
    BY <1>1, <1>6, EndConnection
  <1>7. CASE StopReturns(p) \/ DeliverSignal(p)
    BY <1>1, <1>7, EndStopReturns, EndDeliver
  <1> QED
    BY <1>1, <1>2, <1>3, <1>4, <1>5, <1>6, <1>7 DEF PeerStep

LEMMA EndLaunch ==
    ASSUME EndInv, NEW p \in Runs, Launch(p), NEW r \in Runs
    PROVE  EndFlow(r)'
  <1>0. /\ EndFlow(r) /\ First(r)' = First(r) /\ proc \in [Runs -> {"none", "alive", "exited"}]
    BY EndTypes DEF EndInv, LogInv, ServiceInv, IdentInv, KeysInv, First
  <1>1. /\ proc[p] = "none" /\ proc' = [proc EXCEPT ![p] = "alive"]
        /\ UNCHANGED <<link, toServer, toPeer, waiting, stopReq, thread, events, open>>
    BY DEF Launch, PeerStart, linkVars, workerVars, guiVars, serverVars
  <1>2. EndUnderWay(r) => EndUnderWay(r)'
    BY <1>0, <1>1 DEF EndUnderWay
  <1>3. CASE r # p
    BY <1>0, <1>1, <1>2, <1>3, EndMoves
  <1>4. CASE r = p
    <2>1. proc'[r] = "alive" /\ thread[r] = "none" /\ ~stopReq[r]
      BY <1>0, <1>1, <1>4 DEF EndFlow, StopServed, ThreadBusy
    <2> QED
      BY <1>0, <1>1, <1>4, <2>1 DEF EndFlow, StopServed
  <1> QED
    BY <1>3, <1>4

LEMMA EndStep ==
    ASSUME FreshKeys, EndInv, [Next]_vars
    PROVE  EndInv'
  <1>1. LogInv'
    BY LogStep DEF EndInv
  <1> SUFFICES ASSUME NEW r \in Runs PROVE EndFlow(r)'
    BY <1>1 DEF EndInv
  <1>2. EndFlow(r)
    BY DEF EndInv
  <1>3. CASE UNCHANGED vars
    <2>1. UNCHANGED <<link, toServer, toPeer, waiting, stopReq, thread, proc, events, open>>
      BY <1>3 DEF vars, linkVars, guiVars, serverVars, peerVars, workerVars
    <2>2. EndUnderWay(r) => EndUnderWay(r)'
      BY <2>1 DEF EndUnderWay, First
    <2> QED
      BY <1>2, <2>1, <2>2, EndMoves
  <1>4. CASE User \/ LocalExit
    BY <1>4, EndUser
  <1>5. ASSUME NEW p \in Runs, Launch(p) \/ Connect(p) \/ Peer(p) PROVE EndFlow(r)'
    BY <1>1, <1>5, EndLaunch, EndConnect, EndPeer
  <1>6. ASSUME NEW c \in Conns, ServerStep(c) \/ LinkBreaks(c) PROVE EndFlow(r)'
    BY <1>6, EndServer, EndBreaks
  <1> QED
    BY <1>3, <1>4, <1>5, <1>6 DEF Next

LEMMA EndInit == Init => EndInv
  <1> SUFFICES ASSUME Init, NEW r \in Runs PROVE EndFlow(r)
    BY LogInit DEF EndInv
  <1>1. First(r) \in Conns
    BY MaxConnsAssumption DEF First, Conns
  <1>2. link[First(r)] = "unused" /\ thread[r] = "none" /\ stopReq[r] = FALSE
    BY <1>1 DEF Init, LinkInit, PeerInit
  <1> QED
    BY <1>2 DEF EndFlow, StopServed

\* A stop that was handled has a worker left to end, or it has ended; and a peer
\* whose worker has ended waits for nobody: its end is still to be reported,
\* reported or answered, unless the peer has left or the network failed.
EndsInSight ==
    \A r \in Runs :
        /\ StopServed(r)
        /\ thread[r] = "finished" => proc[r] = "exited" \/ LinkLost(r) \/ EndUnderWay(r)

\* What StopTerminates and FinishedPeerQuits need of the protocol, however
\* stops, ends, lost links and message boxes interleave: no state is reached
\* in which a peer that should leave has nothing more to come
\* (RPCPeer::stopReconstruction, threadFinished and quit,
\* RPCServer::onReconstructionStopped).
THEOREM EndsAreUnderWay == ASSUME FreshKeys PROVE Spec => []EndsInSight
  <1>1. EndInv /\ [Next]_vars => EndInv'
    BY EndStep
  <1>2. EndInv => EndsInSight
    <2> SUFFICES ASSUME EndInv, NEW r \in Runs, thread[r] = "finished"
                 PROVE  proc[r] = "exited" \/ LinkLost(r) \/ EndUnderWay(r)
      BY DEF EndInv, EndFlow, EndsInSight
    <2>1. EndFlow(r) /\ LogFlow(r) /\ TypeOK
      BY DEF EndInv, LogInv, ServiceInv, IdentInv, KeysInv
    <2>2. First(r) \in Conns /\ First(r)[1] = r
      BY <2>1, FlowTypes
    <2>3. link[First(r)] \in {"unused", "up", "broken", "closed"}
      BY <2>1, <2>2, IdentTypes
    <2>4. link[First(r)] = "broken" => LinkLost(r)
      BY <2>2 DEF LinkLost
    <2> QED
      BY <2>1, <2>3, <2>4 DEF EndFlow, LogFlow
  <1> QED
    BY EndInit, <1>1, <1>2, PTL DEF Spec

\* The server still has the end of every listed run before it: its first
\* connection has not been given up, or the box that announces it is there.
ListedAreRemembered ==
    \A r \in Runs : key[r] \in Listed(keysRunning) =>
        \/ First(r) \in open
        \/ [kind |-> "finished", client |-> First(r)] \in Elements(dialogs)

\* What DeadRunForgotten needs of the protocol: no run stays listed with
\* nobody left to take it off the list
\* (RPCServer::onClientDisconnected and cleanRemoteClient).
THEOREM ListedRunsAreRemembered == ASSUME FreshKeys PROVE Spec => []ListedAreRemembered
  <1>1. EndInv /\ [Next]_vars => EndInv'
    BY EndStep
  <1>2. EndInv /\ RunningKeyHasClient => ListedAreRemembered
    <2> SUFFICES ASSUME EndInv, RunningKeyHasClient, NEW r \in Runs,
                        key[r] \in Listed(keysRunning)
                 PROVE  \/ First(r) \in open
                        \/ [kind |-> "finished", client |-> First(r)] \in Elements(dialogs)
      BY DEF ListedAreRemembered
    <2>1. PICK c \in Conns :
              /\ clientKey[c] = key[r]
              /\ c \in open \/ [kind |-> "finished", client |-> c] \in Elements(dialogs)
      BY DEF RunningKeyHasClient, ClientsOf
    <2>2. key[r] # NoKey
      BY DEF Listed
    <2>3. c[1] \in Runs /\ key[c[1]] = key[r] /\ c[2] = 1
      BY <2>1, <2>2 DEF EndInv, LogInv, ServiceInv, IdentInv, Identified, ClientsKnown, Conns
    <2>4. c[1] = r
      BY <2>2, <2>3 DEF EndInv, LogInv, ServiceInv, IdentInv, KeysInv, KeysInjective
    <2>5. c = First(r)
      BY <2>3, <2>4 DEF Conns, First
    <2> QED
      BY <2>1, <2>5
  <1> QED
    BY EndInit, <1>1, <1>2, RunningKeysHaveClients, PTL DEF Spec
=============================================================================
