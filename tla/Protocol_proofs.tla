-------------------------- MODULE Protocol_proofs --------------------------
(***************************************************************************)
(* Proofs about the calls between HawkGUI and its peers in RemoteRun, for  *)
(* any number of runs, keys and connections and any failures, as long as   *)
(* qrand() gives every run a key of its own: the order of the calls, and   *)
(* the abstract life of a run (RunLifecycle), which RemoteRun implements.  *)
(***************************************************************************)
EXTENDS RemoteRun_proofs

----------------------------------------------------------------------------
(* Keys.  A key is waiting or listed, not both, and belongs to one run.    *)

KeysInv == TypeOK /\ KeysUnique /\ KeysGiven /\ KeysInjective

LEMMA KeysStep ==
    ASSUME FreshKeys, KeysInv, [Next]_vars
    PROVE  KeysInv'
  <1> USE DEF KeysInv
  <1>0. TypeOK'
    BY NextType
  <1>t. /\ keysToStart \subseteq Keys /\ NoKey \notin Keys
        /\ keysRunning \in Seq(Keys \cup {NoKey})
        /\ key \in [Runs -> Keys \cup {NoKey}]
    BY KeysAssumption DEF TypeOK, GuiTypeOK
  <1>1. CASE UNCHANGED <<keysToStart, keysRunning, key>>
    BY <1>0, <1>1 DEF KeysUnique, KeysGiven, KeysInjective
  <1>2. ASSUME NEW r \in Runs, StartRPCProcess(r), UNCHANGED keysRunning
        PROVE  KeysInv'
    <2>1. PICK k \in FreeKeys : /\ keysToStart' = keysToStart \cup {k}
                                /\ key' = [key EXCEPT ![r] = k]
      BY <1>2 DEF StartRPCProcess
    <2>2. key[r] = NoKey
      BY <1>2 DEF StartRPCProcess
    <2>3. k \in Keys /\ k \notin keysToStart /\ k \notin {key[s] : s \in Runs}
      BY <2>1 DEF FreeKeys
    <2>4. k # NoKey /\ k \notin Listed(keysRunning)
      BY <2>3, <1>t DEF KeysGiven
    <2>5. /\ key'[r] = k /\ \A s \in Runs \ {r} : key'[s] = key[s]
      BY <2>1, <1>t
    <2>6. KeysUnique'
      BY <1>2, <2>1, <2>4 DEF KeysUnique
    <2>7. KeysInjective'
      BY <2>3, <2>5 DEF KeysInjective
    <2>8. \A s \in Runs : key[s] # NoKey => key'[s] = key[s]
      BY <2>2, <2>5
    <2>9. NoKey \notin keysToStart \cup Listed(keysRunning)
      BY <1>t DEF Listed
    <2>10. KeysGiven'
      BY <1>2, <2>1, <2>5, <2>8, <2>9 DEF KeysGiven
    <2> QED
      BY <1>0, <2>6, <2>7, <2>10
  <1>3. ASSUME NEW c \in Conns, ReceiveIdentificationKey(c)
        PROVE  KeysInv'
    <2> DEFINE k == key[c[1]]
    <2>1. UNCHANGED key /\ HandleRemoteClient(k, clientKey')
      BY <1>3 DEF ReceiveIdentificationKey
    <2>2. CASE k \in keysToStart
      <3>1. keysToStart' = keysToStart \ {k} /\ keysRunning' = Append(keysRunning, k)
        BY <2>1, <2>2 DEF HandleRemoteClient
      <3>2. k \in Keys /\ k # NoKey /\ k \notin Listed(keysRunning)
        BY <2>2, <1>t DEF KeysUnique
      <3>3. Listed(keysRunning') = Listed(keysRunning) \cup {k}
        BY <3>1, <3>2, <1>t, ListedAppend
      <3>4. /\ Len(keysRunning) \in Nat
            /\ Len(keysRunning') = Len(keysRunning) + 1
            /\ \A i \in 1 .. Len(keysRunning) : keysRunning'[i] = keysRunning[i]
            /\ keysRunning'[Len(keysRunning) + 1] = k
        BY <3>1, <3>2, <1>t, AppendProperties, LenProperties
      <3>5. \A i \in 1 .. Len(keysRunning) : keysRunning[i] # k
        BY <3>2 DEF Listed, Elements
      <3>6. KeysUnique'
        BY <3>1, <3>3, <3>4, <3>5 DEF KeysUnique
      <3>7. KeysGiven'
        BY <2>1, <2>2, <3>1, <3>3 DEF KeysGiven
      <3> QED
        BY <1>0, <2>1, <3>6, <3>7 DEF KeysInjective
    <2> QED
      BY <1>1, <2>1, <2>2 DEF HandleRemoteClient
  <1>4. CASE DismissFinished
    <2> DEFINE k == clientKey[Top.client]
    <2>1. keysRunning' = RemoveAll(keysRunning, k) /\ UNCHANGED <<keysToStart, key>>
      BY <1>4 DEF DismissFinished
    <2>2. Listed(keysRunning') = Listed(keysRunning) \ {k}
      BY <2>1, <1>t, ListedRemoveAll
    <2>3. /\ Len(keysRunning') = Len(keysRunning)
          /\ \A i \in 1 .. Len(keysRunning) :
                 keysRunning'[i] = IF keysRunning[i] = k THEN NoKey ELSE keysRunning[i]
      BY <2>1, <1>t DEF RemoveAll
    <2>4. KeysUnique'
      BY <2>1, <2>2, <2>3 DEF KeysUnique
    <2> QED
      BY <1>0, <2>1, <2>2, <2>4 DEF KeysGiven, KeysInjective
  <1>5. CASE User
    BY <1>1, <1>2, <1>4, <1>5
    DEF User, UserStarts, StartEmbeddedProcess, UserStops, Dismiss, DismissMessage,
        DismissExit, runVars
  <1>6. ASSUME NEW c \in Conns, ServerStep(c) PROVE KeysInv'
    BY <1>1, <1>3, <1>6
    DEF ServerStep, ServerReceive, ReconstructionStarted, ReconstructionStopped,
        ReceiveLogLine, DisplayMessage, OnClientDisconnected, guiVars, runVars
  <1> QED
    BY <1>1, <1>5, <1>6
    DEF Next, LocalExit, LocalProcessExits, Launch, Connect, ClientConnected, Peer,
        LinkBreaks, vars, guiVars, runVars

LEMMA KeysInit == Init => KeysInv
  <1> SUFFICES ASSUME Init PROVE KeysUnique /\ KeysGiven /\ KeysInjective
    BY InitType DEF KeysInv
  <1> QED
    BY DEF Init, GuiInit, KeysUnique, KeysGiven, KeysInjective, Listed, Elements

\* The comment of startRPCProcess, "Make sure the generated key is unique", is
\* true of any number of runs when qrand() does not repeat itself: no key is
\* waiting and listed, or listed twice (ProcessControl::startRPCProcess,
\* handleRemoteClient, cleanRemoteClient).
THEOREM KeysStayUnique == ASSUME FreshKeys PROVE Spec => []KeysUnique
  <1>1. KeysInv /\ [Next]_vars => KeysInv'
    BY KeysStep
  <1>2. KeysInv => KeysUnique
    BY DEF KeysInv
  <1> QED
    BY KeysInit, <1>1, <1>2, PTL DEF Spec

----------------------------------------------------------------------------
(* What the channels hold after a write, a read or the loss of their end.  *)

LEMMA HasPrefix ==
    ASSUME NEW S, NEW q \in Seq(S), NEW n \in 0 .. Len(q), NEW m
    PROVE  /\ Has(Prefix(q, n), m) => Has(q, m)
           /\ Once(q, m) => Once(Prefix(q, n), m)
  <1>1. /\ Len(Prefix(q, n)) = n /\ 1 .. n \subseteq 1 .. Len(q)
        /\ \A i \in 1 .. n : Prefix(q, n)[i] = q[i]
    <2>1. Len(q) \in Nat
      OBVIOUS
    <2> QED
      BY <2>1, PrefixType
  <1> HIDE DEF Prefix
  <1> QED
    BY <1>1 DEF Has, Once

LEMMA HasTail ==
    ASSUME NEW S, NEW q \in Seq(S), q # <<>>, NEW m
    PROVE  /\ Has(Tail(q), m) => Has(q, m)
           /\ Has(q, m) /\ Head(q) # m => Has(Tail(q), m)
           /\ Once(q, m) => Once(Tail(q), m)
           /\ Once(q, m) /\ Head(q) = m => ~Has(Tail(q), m)
           /\ Has(q, Head(q))
  <1>1. /\ Len(q) \in Nat \ {0} /\ Len(Tail(q)) = Len(q) - 1
        /\ \A i \in 1 .. Len(q) - 1 : Tail(q)[i] = q[i + 1]
        /\ Head(q) = q[1]
    BY HeadTailProperties, LenProperties, EmptySeq
  <1>2. Has(Tail(q), m) => Has(q, m)
    BY <1>1 DEF Has
  <1>3. ASSUME Has(q, m), Head(q) # m PROVE Has(Tail(q), m)
    <2>1. PICK i \in 1 .. Len(q) : q[i] = m
      BY <1>3 DEF Has
    <2>2. i # 1 /\ i - 1 \in 1 .. Len(q) - 1
      BY <1>1, <1>3, <2>1
    <2>3. Tail(q)[i - 1] = m
      BY <1>1, <2>1, <2>2
    <2> QED
      BY <1>1, <2>2, <2>3 DEF Has
  <1>4. Once(q, m) => Once(Tail(q), m)
    BY <1>1 DEF Once
  <1>5. ASSUME Once(q, m), Head(q) = m, Has(Tail(q), m) PROVE FALSE
    <2>1. PICK i \in 1 .. Len(q) - 1 : Tail(q)[i] = m
      BY <1>1, <1>5 DEF Has
    <2>2. i + 1 \in 1 .. Len(q) /\ q[i + 1] = m /\ q[1] = m /\ 1 \in 1 .. Len(q)
      BY <1>1, <1>5, <2>1
    <2>3. i + 1 = 1
      BY <1>5, <2>2 DEF Once
    <2> QED
      BY <1>1, <2>1, <2>3
  <1>6. Has(q, Head(q))
    BY <1>1 DEF Has
  <1> QED
    BY <1>2, <1>3, <1>4, <1>5, <1>6

LEMMA HasConcat ==
    ASSUME NEW S, NEW q \in Seq(S), NEW p \in Seq(S), NEW m
    PROVE  /\ Has(q \o p, m) <=> Has(q, m) \/ Has(p, m)
           /\ Once(q, m) /\ ~Has(p, m) => Once(q \o p, m)
           /\ ~Has(q, m) /\ Once(p, m) => Once(q \o p, m)
  <1>1. /\ Len(q) \in Nat /\ Len(p) \in Nat /\ Len(q \o p) = Len(q) + Len(p)
        /\ \A i \in 1 .. Len(q) : (q \o p)[i] = q[i]
        /\ \A i \in 1 .. Len(p) : (q \o p)[Len(q) + i] = p[i]
    BY ConcatProperties, LenProperties
  <1>2. \A i \in 1 .. Len(q \o p) : i \in 1 .. Len(q)
            \/ (i - Len(q) \in 1 .. Len(p) /\ (q \o p)[i] = p[i - Len(q)])
    <2> TAKE i \in 1 .. Len(q \o p)
    <2>1. CASE i <= Len(q)
      BY <1>1, <2>1
    <2>2. CASE i > Len(q)
      <3>1. i - Len(q) \in 1 .. Len(p) /\ Len(q) + (i - Len(q)) = i
        BY <1>1, <2>2
      <3> QED
        BY <1>1, <3>1
    <2> QED
      BY <1>1, <2>1, <2>2
  <1>3. Has(q \o p, m) => Has(q, m) \/ Has(p, m)
    BY <1>1, <1>2 DEF Has
  <1>4. Has(q, m) => Has(q \o p, m)
    BY <1>1 DEF Has
  <1>5. ASSUME Has(p, m) PROVE Has(q \o p, m)
    <2>1. PICK i \in 1 .. Len(p) : p[i] = m
      BY <1>5 DEF Has
    <2>2. Len(q) + i \in 1 .. Len(q \o p) /\ (q \o p)[Len(q) + i] = m
      BY <1>1, <2>1
    <2> QED
      BY <2>2 DEF Has
  <1>6. Once(q, m) /\ ~Has(p, m) => Once(q \o p, m)
    BY <1>1, <1>2 DEF Has, Once
  <1>7. ASSUME ~Has(q, m), Once(p, m) PROVE Once(q \o p, m)
    <2> SUFFICES ASSUME NEW i \in 1 .. Len(q \o p), NEW j \in 1 .. Len(q \o p),
                        (q \o p)[i] = m, (q \o p)[j] = m
                 PROVE  i = j
      BY DEF Once
    <2>1. i - Len(q) \in 1 .. Len(p) /\ p[i - Len(q)] = m
      BY <1>1, <1>2, <1>7 DEF Has
    <2>2. j - Len(q) \in 1 .. Len(p) /\ p[j - Len(q)] = m
      BY <1>1, <1>2, <1>7 DEF Has
    <2>3. i - Len(q) = j - Len(q)
      BY <1>7, <2>1, <2>2 DEF Once
    <2> QED
      BY <1>1, <2>3
  <1> QED
    BY <1>3, <1>4, <1>5, <1>6, <1>7

----------------------------------------------------------------------------
(* Identification.  A client is known by the key of its peer once the peer *)
(* has sent it, which it does once, on its first connection.               *)

Connected == \A r \in Runs : socket[r] = "connected" => timer[r] = "off"

\* Nothing is sent over a connection, or known of it, before it is made.
ConnectionsMade ==
    \A c \in Conns :
        /\ link[c] = "unused" => toServer[c] = <<>>
        /\ c[2] > conn[c[1]] => link[c] = "unused" /\ c \notin open /\ clientKey[c] = NoKey

Identified == ClientsKnown /\ KeySentOnce /\ Connecting /\ Connected /\ ConnectionsMade
IdentInv == KeysInv /\ Identified

\* No call m is added to what is under way to the server.
NoNew(m) ==
    \A c \in Conns :
        /\ Has(toServer'[c], m) => Has(toServer[c], m)
        /\ Once(toServer[c], m) => Once(toServer'[c], m)
        /\ link[c] = "unused" /\ toServer[c] = <<>> => toServer'[c] = <<>>

LEMMA IdentTypes ==
    ASSUME TypeOK
    PROVE  /\ toServer \in [Conns -> Seq(ServerMsgs)]
           /\ toPeer \in [Conns -> Seq(PeerMsgs)]
           /\ link \in [Conns -> {"unused", "up", "broken", "closed"}]
           /\ proc \in [Runs -> {"none", "alive", "exited"}]
           /\ socket \in [Runs -> {"unconnected", "connecting", "connected"}]
           /\ timer \in [Runs -> {"off", "timeout", "retry"}]
           /\ conn \in [Runs -> 0 .. MaxConns]
           /\ events \in [Runs -> Seq(WorkerSignals)]
           /\ thread \in [Runs -> {"none", "created", "running", "finished"}]
           /\ waiting \in [Runs -> BOOLEAN]
           /\ clientKey \in [Conns -> Keys \cup {NoKey}]
           /\ key \in [Runs -> Keys \cup {NoKey}]
           /\ keysToStart \subseteq Keys
           /\ NoKey \notin Keys
           /\ \A c \in Conns : c[1] \in Runs /\ c[2] \in 1 .. MaxConns /\ c = <<c[1], c[2]>>
  BY KeysAssumption DEF TypeOK, LinkTypeOK, GuiTypeOK, PeerTypeOK, Conns

LEMMA WireAllNoKey ==
    ASSUME NEW q \in Seq(WorkerSignals)
    PROVE  /\ WireAll(q) \in Seq(ServerMsgs) /\ Len(WireAll(q)) = Len(q)
           /\ \A i \in 1 .. Len(q) : WireAll(q)[i] = Wire(q[i]) /\ WireAll(q)[i] # "key"
  <1>1. \A sig \in WorkerSignals : Wire(sig) \in ServerMsgs \ {"key"}
    BY DEF Wire, WorkerSignals, ServerMsgs
  <1>2. Len(q) \in Nat /\ \A i \in 1 .. Len(q) : q[i] \in WorkerSignals
    BY LenProperties, ElementOfSeq
  <1> QED
    BY <1>1, <1>2 DEF WireAll

LEMMA EmitNoNew ==
    ASSUME TypeOK, NEW r \in Runs, NEW m, NEW msgs \in Seq(ServerMsgs), ~Has(msgs, m),
           Emit(r, msgs)
    PROVE  NoNew(m)
  <1> USE IdentTypes
  <1>1. \A c \in Conns :
            \/ toServer'[c] = toServer[c]
            \/ link[c] = "up" /\ toServer'[c] = toServer[c] \o msgs
    <2>1. CASE UNCHANGED toServer
      BY <2>1
    <2>2. CASE link[Conn(r)] = "up"
               /\ toServer' = [toServer EXCEPT ![Conn(r)] = @ \o msgs]
      BY <2>2
    <2> QED
      BY <2>1, <2>2 DEF Emit, ToServer, linkVars
  <1> SUFFICES ASSUME NEW c \in Conns, link[c] = "up", toServer'[c] = toServer[c] \o msgs
               PROVE  /\ Has(toServer'[c], m) => Has(toServer[c], m)
                      /\ Once(toServer[c], m) => Once(toServer'[c], m)
    BY <1>1 DEF NoNew
  <1> QED
    BY HasConcat

LEMMA TakeNoNew ==
    ASSUME TypeOK, NEW c \in Conns, NEW m, toServer[c] # <<>>, Take(c)
    PROVE  NoNew(m)
  <1> USE IdentTypes
  <1>1. /\ toServer'[c] = Tail(toServer[c])
        /\ \A d \in Conns \ {c} : toServer'[d] = toServer[d]
    BY DEF Take
  <1>2. /\ Has(toServer'[c], m) => Has(toServer[c], m)
        /\ Once(toServer[c], m) => Once(toServer'[c], m)
    BY <1>1, HasTail
  <1> QED
    BY <1>1, <1>2 DEF NoNew

LEMMA LossNoNew ==
    ASSUME TypeOK, NEW c, NEW n, NEW m, c \in Conns => n \in 0 .. Len(toServer[c]),
           toServer' = [toServer EXCEPT ![c] = Prefix(@, n)]
    PROVE  NoNew(m)
  <1> USE IdentTypes
  <1>1. \A d \in Conns \ {c} : toServer'[d] = toServer[d]
    OBVIOUS
  <1>2. ASSUME c \in Conns
        PROVE  /\ Has(toServer'[c], m) => Has(toServer[c], m)
               /\ Once(toServer[c], m) => Once(toServer'[c], m)
               /\ toServer[c] = <<>> => toServer'[c] = <<>>
    <2>1. toServer'[c] = Prefix(toServer[c], n)
      BY <1>2
    <2>2. ASSUME toServer[c] = <<>> PROVE toServer'[c] = <<>>
      <3>1. n = 0
        BY <1>2, <2>2
      <3>2. Len(toServer'[c]) = 0 /\ toServer'[c] \in Seq(ServerMsgs)
        BY <1>2, <2>1, <3>1, PrefixType
      <3> QED
        BY <3>2, EmptySeq
    <2> QED
      BY <1>2, <2>1, <2>2, HasPrefix
  <1> QED
    BY <1>1, <1>2 DEF NoNew

LEMMA ExitNoNew ==
    ASSUME TypeOK, NEW r \in Runs, NEW m, Exit(r)
    PROVE  /\ NoNew(m)
           /\ \A c \in Conns : link'[c] = "unused" <=> link[c] = "unused"
  <1> USE IdentTypes
  <1>1. CASE socket[r] = "unconnected"
    BY <1>1 DEF Exit, NoNew, linkVars
  <1>2. CASE socket[r] # "unconnected"
    <2>1. PICK n \in 0 .. Len(toServer[Conn(r)]) :
              /\ link' = [link EXCEPT ![Conn(r)] = IF @ = "up" THEN "closed" ELSE @]
              /\ toServer' = [toServer EXCEPT ![Conn(r)] = Prefix(@, n)]
      BY <1>2 DEF Exit, Close
    <2> QED
      BY <2>1, LossNoNew
  <1> QED
    BY <1>1, <1>2

LEMMA IdentFrame ==
    ASSUME IdentInv, NoNew("key"),
           UNCHANGED <<key, keysToStart, proc, socket, timer, conn, link, open, clientKey>>
    PROVE  Identified'
  <1> USE DEF IdentInv, Identified
  <1>1. ClientsKnown' /\ Connecting' /\ Connected'
    BY DEF ClientsKnown, Connecting, Connected
  <1>2. KeySentOnce'
    BY DEF KeySentOnce, NoNew
  <1>3. ConnectionsMade'
    BY DEF ConnectionsMade, NoNew
  <1> QED
    BY <1>1, <1>2, <1>3

\* What a process that ends leaves behind.
LEMMA IdentExit ==
    ASSUME IdentInv, NEW r \in Runs, proc[r] = "alive", Exit(r), UNCHANGED guiVars
    PROVE  Identified'
  <1> USE IdentTypes DEF IdentInv, KeysInv, Identified
  <1>1. /\ proc' = [proc EXCEPT ![r] = "exited"]
        /\ socket' = [socket EXCEPT ![r] = "unconnected"]
        /\ timer' = [timer EXCEPT ![r] = "off"]
        /\ UNCHANGED <<conn, key, keysToStart, open, clientKey>>
    BY DEF Exit, guiVars, runVars, serverVars
  <1>2. /\ NoNew("key") /\ \A c \in Conns : link'[c] = "unused" <=> link[c] = "unused"
    BY ExitNoNew
  <1>3. ClientsKnown'
    BY <1>1 DEF ClientsKnown
  <1>4. KeySentOnce'
    BY <1>1, <1>2 DEF KeySentOnce, NoNew
  <1>5. Connecting' /\ Connected'
    BY <1>1 DEF Connecting, Connected
  <1>6. ConnectionsMade'
    BY <1>1, <1>2 DEF ConnectionsMade, NoNew
  <1> QED
    BY <1>3, <1>4, <1>5, <1>6

LEMMA IdentPeer ==
    ASSUME IdentInv, NEW r \in Runs, Peer(r)
    PROVE  Identified'
  <1> USE IdentTypes DEF IdentInv, KeysInv, Identified
  <1>g. UNCHANGED <<key, keysToStart, open, clientKey>>
    BY DEF Peer, guiVars, runVars, serverVars
  <1>1. CASE ConnectionEstablished(r)
    <2>1. /\ proc[r] = "alive" /\ socket[r] = "connecting" /\ timer[r] = "timeout"
          /\ socket' = [socket EXCEPT ![r] = "connected"]
          /\ timer' = [timer EXCEPT ![r] = "off"]
          /\ ToServer(Conn(r), <<"key">>)
          /\ UNCHANGED <<link, proc, conn>>
      BY <1>1 DEF ConnectionEstablished, Looping
    <2>2. conn[r] = 1 /\ key[r] # NoKey /\ key[r] \in keysToStart
      BY <2>1 DEF Connecting
    <2>3. ClientsKnown'
      BY <1>g DEF ClientsKnown
    <2>4. \A c \in Conns :
              \/ toServer'[c] = toServer[c]
              \/ c = <<r, 1>> /\ link[c] = "up" /\ toServer'[c] = toServer[c] \o <<"key">>
      BY <2>1, <2>2 DEF ToServer, Conn
    <2>5. ASSUME NEW c \in Conns, Has(toServer'[c], "key")
          PROVE  /\ c[2] = 1 /\ timer'[c[1]] # "timeout" /\ Once(toServer'[c], "key")
                 /\ key[c[1]] \in keysToStart
      <3>1. CASE toServer'[c] = toServer[c]
        BY <2>1, <2>5, <3>1 DEF KeySentOnce
      <3>2. CASE c = <<r, 1>> /\ toServer'[c] = toServer[c] \o <<"key">>
        <4>1. ~Has(toServer[c], "key")
          BY <2>1, <3>2 DEF KeySentOnce
        <4>2. <<"key">> \in Seq(ServerMsgs) /\ Once(<<"key">>, "key")
          BY DEF ServerMsgs, Once
        <4>3. toServer[c] \in Seq(ServerMsgs)
          OBVIOUS
        <4>4. Once(toServer'[c], "key")
          <5>1. Once(toServer[c] \o <<"key">>, "key")
            BY <4>1, <4>2, <4>3, HasConcat
          <5> QED
            BY <3>2, <5>1
        <4>5. c[1] = r /\ c[2] = 1
          BY <3>2
        <4> QED
          BY <2>1, <2>2, <4>4, <4>5
      <3> QED
        BY <2>4, <3>1, <3>2
    <2>6. KeySentOnce'
      BY <1>g, <2>5 DEF KeySentOnce
    <2>7. Connecting' /\ Connected'
      BY <1>g, <2>1, <2>2 DEF Connecting, Connected
    <2>8. ConnectionsMade'
      BY <1>g, <2>1, <2>4 DEF ConnectionsMade
    <2> QED
      BY <2>3, <2>6, <2>7, <2>8
  <1>2. CASE ConnectionRecovered(r) \/ ConnectionLost(r)
    <2>1. /\ proc[r] = "alive" /\ socket[r] # "unconnected" /\ timer[r] # "timeout"
          /\ \/ /\ socket' = [socket EXCEPT ![r] = "connected"]
                /\ timer' = [timer EXCEPT ![r] = "off"]
             \/ /\ socket' = [socket EXCEPT ![r] = "unconnected"]
                /\ timer' = [timer EXCEPT ![r] = "retry"]
          /\ UNCHANGED <<linkVars, proc, conn>>
      BY <1>2 DEF ConnectionRecovered, ConnectionLost, Looping, Connected
    <2>2. ClientsKnown' /\ ConnectionsMade'
      BY <1>g, <2>1 DEF ClientsKnown, ConnectionsMade, linkVars
    <2>3. KeySentOnce'
      BY <1>g, <2>1 DEF KeySentOnce, linkVars
    <2>4. conn[r] # 0 /\ key[r] # NoKey /\ proc'[r] = "alive"
      BY <2>1 DEF Connecting
    <2>5. \A s \in Runs \ {r} : /\ socket'[s] = socket[s] /\ timer'[s] = timer[s]
      BY <2>1
    <2>6. /\ timer'[r] # "timeout"
          /\ socket'[r] = "connected" => timer'[r] = "off"
      BY <2>1
    <2>7. Connected'
      BY <2>5, <2>6 DEF Connected
    <2>8. timer[r] = "retry" \/ timer[r] = "off"
      BY <2>1
    <2>9. Connecting'
      <3> SUFFICES ASSUME NEW s \in Runs
                   PROVE  /\ proc'[s] = "none" => timer'[s] = "off" /\ conn'[s] = 0
                          /\ proc'[s] # "alive" => socket'[s] = "unconnected"
                          /\ timer'[s] = "timeout" =>
                                 conn'[s] = IF socket'[s] = "unconnected" THEN 0 ELSE 1
                          /\ timer'[s] = "retry" => conn'[s] # 0
                          /\ socket'[s] # "unconnected" => conn'[s] # 0
                          /\ key'[s] = NoKey => proc'[s] = "none"
                          /\ key'[s] # NoKey /\ (proc'[s] = "none" \/ timer'[s] = "timeout") =>
                                 key'[s] \in keysToStart'
        BY DEF Connecting
      <3>1. CASE s = r
        BY <1>g, <2>1, <2>4, <2>6, <3>1
      <3>2. CASE s # r
        BY <1>g, <2>1, <2>5, <3>2 DEF Connecting
      <3> QED
        BY <3>1, <3>2
    <2> QED
      BY <2>2, <2>3, <2>7, <2>9
  <1>3. CASE CheckTimeOut(r) \/ PeerDies(r) \/ Quit(r)
    BY <1>3, IdentExit DEF Peer, CheckTimeOut, PeerDies, Quit, Looping, Receive
  <1>4. CASE ReceiveOptions(r) \/ StartReconstruction(r) \/ StopReconstruction(r)
             \/ WorkerBegins(r) \/ WorkerEnds(r)
             \/ \E sig \in {"log", "message"} : WorkerEmits(r, sig)
    <2>1. UNCHANGED <<toServer, link, proc, socket, timer, conn>>
      BY <1>4
      DEF ReceiveOptions, StartReconstruction, StopReconstruction, WorkerBegins,
          WorkerEnds, WorkerEmits, linkVars, workerVars
    <2>2. NoNew("key")
      BY <2>1 DEF NoNew
    <2> QED
      BY <1>g, <2>1, <2>2, IdentFrame
  <1>5. CASE StopReturns(r) \/ DeliverSignal(r)
    <2>1. UNCHANGED <<link, proc, socket, timer, conn>>
      BY <1>5 DEF StopReturns, DeliverSignal
    <2>2. PICK msgs : Emit(r, msgs) /\ msgs \in Seq(ServerMsgs) /\ ~Has(msgs, "key")
      <3>1. CASE StopReturns(r)
        <4>1. events[r] \in Seq(WorkerSignals)
          OBVIOUS
        <4>2. WireAll(events[r]) \in Seq(ServerMsgs)
              /\ Len(WireAll(events[r])) = Len(events[r])
              /\ \A i \in 1 .. Len(events[r]) : WireAll(events[r])[i] # "key"
          BY <4>1, WireAllNoKey
        <4>3. <<"stopped">> \in Seq(ServerMsgs) /\ ~Has(<<"stopped">>, "key")
          BY DEF ServerMsgs, Has
        <4>4. ~Has(WireAll(events[r]), "key")
          BY <4>2 DEF Has
        <4>5. <<"stopped">> \o WireAll(events[r]) \in Seq(ServerMsgs)
          BY <4>2, <4>3, ConcatProperties
        <4> QED
          BY <3>1, <4>2, <4>3, <4>4, <4>5, HasConcat DEF StopReturns
      <3>2. CASE DeliverSignal(r)
        <4>1. Head(events[r]) \in WorkerSignals
          BY <3>2, TailType DEF DeliverSignal
        <4>2. Wire(Head(events[r])) \in ServerMsgs \ {"key"}
          BY <4>1 DEF Wire, WorkerSignals, ServerMsgs
        <4>3. <<Wire(Head(events[r]))>> \in Seq(ServerMsgs)
              /\ ~Has(<<Wire(Head(events[r]))>>, "key")
          BY <4>2 DEF Has
        <4> QED
          BY <3>2, <4>3 DEF DeliverSignal
      <3> QED
        BY <1>5, <3>1, <3>2
    <2>3. NoNew("key")
      BY <2>2, EmitNoNew
    <2> QED
      BY <1>g, <2>1, <2>3, IdentFrame
  <1> QED
    BY <1>1, <1>2, <1>3, <1>4, <1>5 DEF Peer, PeerStep
\* Steps of the GUI that send no key and give none to a run.
LEMMA IdentGui ==
    ASSUME IdentInv, open' \subseteq open,
           \A c \in Conns : clientKey'[c] \in {clientKey[c], NoKey},
           UNCHANGED <<toServer, link, key, keysToStart, proc, socket, timer, conn>>
    PROVE  Identified'
  <1> USE DEF IdentInv, Identified
  <1>1. ClientsKnown' /\ KeySentOnce'
    BY DEF ClientsKnown, KeySentOnce
  <1>2. Connecting' /\ Connected'
    BY DEF Connecting, Connected
  <1>3. ConnectionsMade'
    BY DEF ConnectionsMade
  <1> QED
    BY <1>1, <1>2, <1>3

LEMMA IdentUser ==
    ASSUME FreshKeys, IdentInv, User \/ LocalExit
    PROVE  Identified'
  <1> USE IdentTypes DEF IdentInv, KeysInv
  <1>g. UNCHANGED <<toServer, link, proc, socket, timer, conn, open>>
    BY DEF User, LocalExit, UserStarts, UserStops, LocalProcessExits, Dismiss, DismissMessage,
        DismissExit, DismissFinished, linkVars, peerVars, serverVars
  <1>1. ASSUME NEW r \in Runs, StartRPCProcess(r), UNCHANGED clientKey
        PROVE  Identified'
    <2>1. PICK k \in FreeKeys : /\ keysToStart' = keysToStart \cup {k}
                                /\ key' = [key EXCEPT ![r] = k]
      BY <1>1 DEF StartRPCProcess
    <2>2. key[r] = NoKey
      BY <1>1 DEF StartRPCProcess
    <2>3. k # NoKey /\ \A s \in Runs : key[s] # k
      BY <2>1 DEF FreeKeys
    <2>4. key'[r] = k /\ \A s \in Runs \ {r} : key'[s] = key[s]
      BY <2>1
    <2>5. ClientsKnown'
      BY <1>1, <2>1, <2>2, <2>3, <2>4 DEF Identified, ClientsKnown
    <2>6. KeySentOnce'
      BY <1>g, <2>1, <2>2, <2>4 DEF Identified, KeySentOnce
    <2>7. Connecting' /\ Connected'
      BY <1>g, <2>1, <2>2, <2>3, <2>4 DEF Identified, Connecting, Connected
    <2>8. ConnectionsMade'
      BY <1>1, <1>g DEF Identified, ConnectionsMade
    <2> QED
      BY <2>5, <2>6, <2>7, <2>8 DEF Identified
  <1>2. CASE UNCHANGED <<key, keysToStart>> /\ \A c \in Conns : clientKey'[c] \in {clientKey[c], NoKey}
    BY <1>g, <1>2, IdentGui
  <1>3. CASE UserStarts
    BY <1>1, <1>2, <1>3 DEF UserStarts, StartEmbeddedProcess, serverVars
  <1>4. CASE UserStops \/ DismissMessage \/ DismissExit \/ LocalExit
    BY <1>2, <1>4
    DEF UserStops, DismissMessage, DismissExit, LocalExit, LocalProcessExits, runVars, serverVars
  <1>5. CASE DismissFinished
    <2>1. clientKey' = [clientKey EXCEPT ![Top.client] = NoKey] /\ UNCHANGED <<key, keysToStart>>
      BY <1>5 DEF DismissFinished
    <2> QED
      BY <1>2, <2>1
  <1> QED
    BY <1>3, <1>4, <1>5 DEF User, Dismiss

LEMMA IdentServer ==
    ASSUME IdentInv, NEW c \in Conns, ServerStep(c)
    PROVE  Identified'
  <1> USE IdentTypes DEF IdentInv, KeysInv
  <1>g. UNCHANGED <<proc, socket, timer, conn, link, key>>
    BY DEF ServerStep, ServerReceive, ReceiveIdentificationKey, ReconstructionStarted,
        ReconstructionStopped, ReceiveLogLine, DisplayMessage, OnClientDisconnected,
        peerVars, guiVars, runVars, linkVars
  <1>1. CASE ReceiveIdentificationKey(c)
    <2> DEFINE k == key[c[1]]
    <2>1. /\ toServer[c] \in Seq(ServerMsgs) /\ toServer[c] # <<>>
          /\ Head(toServer[c]) = "key" /\ Take(c)
          /\ clientKey' = [clientKey EXCEPT ![c] = k]
          /\ HandleRemoteClient(k, clientKey') /\ UNCHANGED open
      BY <1>1 DEF ReceiveIdentificationKey, Incoming
    <2>2. Has(toServer[c], "key")
      BY <2>1, HasTail
    <2>3. /\ c[2] = 1 /\ timer[c[1]] # "timeout" /\ Once(toServer[c], "key")
          /\ k \in keysToStart
      BY <2>2 DEF Identified, KeySentOnce
    <2>4. keysToStart' = keysToStart \ {k} /\ k # NoKey
      BY <2>1, <2>3 DEF HandleRemoteClient
    <2>5. /\ toServer'[c] = Tail(toServer[c])
          /\ \A d \in Conns \ {c} : toServer'[d] = toServer[d]
      BY <2>1 DEF Take
    <2>6. ~Has(toServer'[c], "key")
      BY <2>1, <2>3, <2>5, HasTail
    <2>7. link[c] # "unused" /\ ~(c[2] > conn[c[1]])
      BY <2>1 DEF Identified, ConnectionsMade
    <2>8. proc[c[1]] # "none"
      BY <2>3, <2>7 DEF Identified, Connecting
    <2>9. ClientsKnown'
      BY <1>g, <2>1, <2>3, <2>4 DEF Identified, ClientsKnown
    <2>10. \A d \in Conns \ {c} : d[2] = 1 => d[1] # c[1]
      BY <2>3
    <2>11. \A r \in Runs \ {c[1]} : key[r] \in keysToStart => key[r] \in keysToStart'
      BY <2>4 DEF KeysInjective
    <2>12. KeySentOnce'
      BY <1>g, <2>5, <2>6, <2>10, <2>11 DEF Identified, KeySentOnce
    <2>13. Connecting' /\ Connected'
      BY <1>g, <2>3, <2>8, <2>11 DEF Identified, Connecting, Connected
    <2>14. ConnectionsMade'
      BY <1>g, <2>1, <2>5, <2>7 DEF Identified, ConnectionsMade
    <2> QED
      BY <2>9, <2>12, <2>13, <2>14 DEF Identified
  <1>2. CASE ReconstructionStarted(c) \/ ReconstructionStopped(c)
             \/ ReceiveLogLine(c) \/ DisplayMessage(c)
    <2>1. /\ toServer[c] # <<>> /\ Take(c)
          /\ UNCHANGED <<keysToStart, open, clientKey>>
      BY <1>2
      DEF ReconstructionStarted, ReconstructionStopped, ReceiveLogLine, DisplayMessage,
          Incoming, guiVars, runVars, serverVars
    <2>2. NoNew("key")
      BY <2>1, TakeNoNew
    <2> QED
      BY <1>g, <2>1, <2>2, IdentFrame
  <1>3. CASE OnClientDisconnected(c)
    <2>1. /\ open' = open \ {c} /\ UNCHANGED <<toServer, keysToStart>>
          /\ clientKey' \in {clientKey, [clientKey EXCEPT ![c] = NoKey]}
      BY <1>3 DEF OnClientDisconnected, linkVars, runVars
    <2>2. \A d \in Conns : clientKey'[d] \in {clientKey[d], NoKey}
      BY <2>1
    <2> QED
      BY <1>g, <2>1, <2>2, IdentGui
  <1> QED
    BY <1>1, <1>2, <1>3 DEF ServerStep, ServerReceive

LEMMA IdentLink ==
    ASSUME IdentInv, NEW r \in Runs, NEW c \in Conns,
           Launch(r) \/ Connect(r) \/ LinkBreaks(c)
    PROVE  Identified'
  <1> USE IdentTypes DEF IdentInv, KeysInv
  <1>1. CASE Launch(r)
    <2>1. /\ key[r] # NoKey /\ proc[r] = "none"
          /\ proc' = [proc EXCEPT ![r] = "alive"]
          /\ timer' = [timer EXCEPT ![r] = "timeout"]
          /\ UNCHANGED <<toServer, link, socket, conn, key, keysToStart, open, clientKey>>
      BY <1>1 DEF Launch, PeerStart, linkVars, guiVars, runVars, serverVars
    <2>2. conn[r] = 0 /\ socket[r] = "unconnected" /\ key[r] \in keysToStart
      BY <2>1 DEF Identified, Connecting
    <2>3. \A d \in Conns : d[1] = r => toServer[d] = <<>>
      BY <2>2 DEF Identified, ConnectionsMade
    <2>4. KeySentOnce'
      BY <2>1, <2>3 DEF Identified, KeySentOnce, Has
    <2>5. ClientsKnown' /\ ConnectionsMade'
      BY <2>1 DEF Identified, ClientsKnown, ConnectionsMade
    <2>6. Connecting' /\ Connected'
      BY <2>1, <2>2 DEF Identified, Connecting, Connected
    <2> QED
      BY <2>4, <2>5, <2>6 DEF Identified
  <1>2. CASE Connect(r)
    <2>1. /\ proc[r] = "alive" /\ socket[r] = "unconnected" /\ timer[r] # "off"
          /\ conn' = [conn EXCEPT ![r] = @ + 1]
          /\ socket' = [socket EXCEPT ![r] = "connecting"]
          /\ link' = [link EXCEPT ![<<r, conn[r] + 1>>] = "up"]
          /\ open' = open \cup {<<r, conn[r] + 1>>}
          /\ UNCHANGED <<toServer, proc, timer, key, keysToStart, clientKey>>
      BY <1>2 DEF Connect, PeerConnect, Looping, ClientConnected, runVars
    <2>2. ClientsKnown' /\ KeySentOnce'
      BY <2>1 DEF Identified, ClientsKnown, KeySentOnce
    <2>3. conn[r] \in Nat /\ conn'[r] = conn[r] + 1
      BY <2>1, MaxConnsAssumption
    <2>4. timer[r] = "timeout" => conn[r] = 0
      BY <2>1 DEF Identified, Connecting
    <2>5. Connecting'
      BY <2>1, <2>3, <2>4 DEF Identified, Connecting
    <2>6. Connected'
      BY <2>1 DEF Identified, Connected
    <2>7. ASSUME NEW d \in Conns
          PROVE  /\ link'[d] = "unused" => toServer'[d] = <<>>
                 /\ d[2] > conn'[d[1]] =>
                        link'[d] = "unused" /\ d \notin open' /\ clientKey'[d] = NoKey
      <3>1. CASE d = <<r, conn[r] + 1>>
        BY <2>1, <2>3, <3>1
      <3>2. CASE d # <<r, conn[r] + 1>>
        <4>1. link'[d] = link[d] /\ (d \in open' <=> d \in open)
          BY <2>1, <3>2
        <4>2. d[2] > conn'[d[1]] => d[2] > conn[d[1]]
          BY <2>1, <2>3, MaxConnsAssumption
        <4> QED
          BY <2>1, <4>1, <4>2 DEF Identified, ConnectionsMade
      <3> QED
        BY <3>1, <3>2
    <2>8. ConnectionsMade'
      BY <2>7 DEF ConnectionsMade
    <2> QED
      BY <2>2, <2>5, <2>6, <2>8 DEF Identified
  <1>3. CASE LinkBreaks(c)
    <2>1. /\ link[c] = "up" /\ link' = [link EXCEPT ![c] = "broken"]
          /\ UNCHANGED <<proc, socket, timer, conn, key, keysToStart, open, clientKey>>
      BY <1>3 DEF LinkBreaks, Break, guiVars, runVars, serverVars, peerVars
    <2>2. NoNew("key")
      BY <1>3, LossNoNew DEF LinkBreaks, Break
    <2>3. ClientsKnown' /\ KeySentOnce'
      BY <2>1, <2>2 DEF Identified, ClientsKnown, KeySentOnce, NoNew
    <2>4. Connecting' /\ Connected'
      BY <2>1 DEF Identified, Connecting, Connected
    <2>5. ConnectionsMade'
      BY <2>1, <2>2 DEF Identified, ConnectionsMade, NoNew
    <2> QED
      BY <2>3, <2>4, <2>5 DEF Identified
  <1> QED
    BY <1>1, <1>2, <1>3

LEMMA IdentStep ==
    ASSUME FreshKeys, IdentInv, [Next]_vars
    PROVE  IdentInv'
  <1>1. KeysInv'
    BY KeysStep DEF IdentInv
  <1>2. CASE UNCHANGED vars
    <2>1. NoNew("key")
      BY <1>2 DEF NoNew, vars, linkVars
    <2> QED
      BY <1>1, <1>2, <2>1, IdentFrame
      DEF IdentInv, vars, linkVars, guiVars, runVars, serverVars, peerVars
  <1>3. CASE Next
    <2>1. CASE User \/ LocalExit
      BY <1>1, <2>1, IdentUser DEF IdentInv
    <2>2. ASSUME NEW r \in Runs, Launch(r) \/ Connect(r) PROVE IdentInv'
      <3>1. <<r, 1>> \in Conns
        BY MaxConnsAssumption DEF Conns
      <3> QED
        BY <1>1, <2>2, <3>1, IdentLink DEF IdentInv
    <2>3. ASSUME NEW r \in Runs, Peer(r) PROVE IdentInv'
      BY <1>1, <2>3, IdentPeer DEF IdentInv
    <2>4. ASSUME NEW c \in Conns, ServerStep(c) PROVE IdentInv'
      BY <1>1, <2>4, IdentServer DEF IdentInv
    <2>5. ASSUME NEW c \in Conns, LinkBreaks(c) PROVE IdentInv'
      <3>1. c[1] \in Runs
        BY DEF Conns
      <3> QED
        BY <1>1, <2>5, <3>1, IdentLink DEF IdentInv
    <2> QED
      BY <1>3, <2>1, <2>2, <2>3, <2>4, <2>5 DEF Next
  <1> QED
    BY <1>2, <1>3

LEMMA IdentInit == Init => IdentInv
  <1> SUFFICES ASSUME Init PROVE Identified
    BY KeysInit DEF IdentInv
  <1> USE DEF Init, LinkInit, GuiInit, PeerInit
  <1>0. \A c \in Conns : c[1] \in Runs
    BY DEF Conns
  <1>1. ClientsKnown /\ ConnectionsMade
    BY <1>0 DEF ClientsKnown, ConnectionsMade
  <1>2. KeySentOnce
    BY DEF KeySentOnce, Has
  <1>3. Connecting /\ Connected
    BY DEF Connecting, Connected
  <1> QED
    BY <1>1, <1>2, <1>3 DEF Identified
----------------------------------------------------------------------------
(* The calls under way to a peer, seen from the state of its worker thread. *)

WorkerStates == {"none", "created", "running", "finished"}

LEMMA QueuePrefix ==
    ASSUME NEW q \in Seq(PeerMsgs), NEW t, PeerQueueOK(q, t), NEW n \in 0 .. Len(q)
    PROVE  PeerQueueOK(Prefix(q, n), t) /\ (Quiet(q) => Quiet(Prefix(q, n)))
  <1>1. /\ Len(Prefix(q, n)) = n /\ 1 .. n \subseteq 1 .. Len(q)
        /\ \A i \in 1 .. n : Prefix(q, n)[i] = q[i]
    <2>1. Len(q) \in Nat
      OBVIOUS
    <2> QED
      BY <2>1, PrefixType
  <1>2. \A m : Has(Prefix(q, n), m) => Has(q, m)
    BY HasPrefix
  <1>3. Once(Prefix(q, n), "start")
    BY HasPrefix DEF PeerQueueOK
  <1> HIDE DEF Prefix
  <1>4. NeverBehind(Prefix(q, n), "options", "start")
    BY <1>1 DEF PeerQueueOK, NeverBehind
  <1>5. t = "none" => Behind(Prefix(q, n), "start", "stop")
    BY <1>1 DEF PeerQueueOK, Behind
  <1> QED
    BY <1>2, <1>3, <1>4, <1>5 DEF PeerQueueOK, Quiet

\* The peer takes a call: options before its worker exists, start to make it
\* exist, stop once it does.
LEMMA QueueTail ==
    ASSUME NEW q \in Seq(PeerMsgs), q # <<>>, NEW t, PeerQueueOK(q, t)
    PROVE  /\ Quiet(q) => Quiet(Tail(q))
           /\ Head(q) = "options" => t = "none" /\ PeerQueueOK(Tail(q), t)
           /\ Head(q) = "stop" => t # "none" /\ PeerQueueOK(Tail(q), t)
           /\ Head(q) = "start" => t = "none" /\ PeerQueueOK(Tail(q), "created")
  <1>1. /\ Len(q) \in Nat \ {0} /\ Len(Tail(q)) = Len(q) - 1
        /\ \A i \in 1 .. Len(q) - 1 : Tail(q)[i] = q[i + 1]
        /\ Head(q) = q[1]
    BY HeadTailProperties, LenProperties, EmptySeq
  <1>2. \A m : Has(Tail(q), m) => Has(q, m)
    BY HasTail
  <1>3. Once(Tail(q), "start") /\ Has(q, Head(q))
    BY HasTail DEF PeerQueueOK
  <1>4. NeverBehind(Tail(q), "options", "start")
    <2> SUFFICES ASSUME NEW i \in 1 .. Len(q) - 1, NEW j \in 1 .. Len(q) - 1,
                        Tail(q)[i] = "options", Tail(q)[j] = "start"
                 PROVE  i < j
      BY <1>1 DEF NeverBehind
    <2>1. /\ i + 1 \in 1 .. Len(q) /\ j + 1 \in 1 .. Len(q)
          /\ q[i + 1] = "options" /\ q[j + 1] = "start"
      BY <1>1
    <2>2. i + 1 < j + 1
      BY <2>1 DEF PeerQueueOK, NeverBehind
    <2> QED
      BY <1>1, <2>2
  <1>5. ASSUME Head(q) # "start", Behind(q, "start", "stop")
        PROVE  Behind(Tail(q), "start", "stop")
    <2> SUFFICES ASSUME NEW i \in 1 .. Len(q) - 1, Tail(q)[i] = "stop"
                 PROVE  \E j \in 1 .. i - 1 : Tail(q)[j] = "start"
      BY <1>1 DEF Behind
    <2>1. i + 1 \in 1 .. Len(q) /\ q[i + 1] = "stop"
      BY <1>1
    <2>2. PICK j \in 1 .. (i + 1) - 1 : q[j] = "start"
      BY <1>5, <2>1 DEF Behind
    <2>3. j # 1
      BY <1>1, <1>5, <2>2
    <2>4. j - 1 \in 1 .. i - 1 /\ j - 1 \in 1 .. Len(q) - 1 /\ (j - 1) + 1 = j
      BY <1>1, <2>2, <2>3
    <2>5. Tail(q)[j - 1] = "start"
      BY <1>1, <2>2, <2>4
    <2> QED
      BY <2>4, <2>5
  <1>6. Quiet(q) => Quiet(Tail(q))
    BY <1>2 DEF Quiet
  <1>7. ASSUME Head(q) = "options" PROVE t = "none" /\ PeerQueueOK(Tail(q), t)
    <2>1. t = "none"
      BY <1>3, <1>7 DEF PeerQueueOK
    <2> QED
      BY <1>2, <1>3, <1>4, <1>5, <1>7, <2>1 DEF PeerQueueOK
  <1>8. ASSUME Head(q) = "stop" PROVE t # "none" /\ PeerQueueOK(Tail(q), t)
    <2>1. ASSUME t = "none" PROVE FALSE
      <3>1. 1 \in 1 .. Len(q) /\ q[1] = "stop" /\ Behind(q, "start", "stop")
        BY <1>1, <1>8, <2>1 DEF PeerQueueOK
      <3>2. PICK j \in 1 .. 1 - 1 : q[j] = "start"
        BY <3>1 DEF Behind
      <3> QED
        BY <3>2
    <2> QED
      BY <1>2, <1>3, <1>4, <2>1 DEF PeerQueueOK
  <1>9. ASSUME Head(q) = "start" PROVE t = "none" /\ PeerQueueOK(Tail(q), "created")
    <2>1. t = "none"
      BY <1>3, <1>9 DEF PeerQueueOK
    <2>2. ~Has(Tail(q), "start")
      BY <1>9, HasTail DEF PeerQueueOK
    <2>3. ASSUME Has(Tail(q), "options") PROVE FALSE
      <3>1. PICK i \in 1 .. Len(q) - 1 : Tail(q)[i] = "options"
        BY <1>1, <2>3 DEF Has
      <3>2. /\ i + 1 \in 1 .. Len(q) /\ q[i + 1] = "options"
            /\ 1 \in 1 .. Len(q) /\ q[1] = "start"
        BY <1>1, <1>9, <3>1
      <3>3. i + 1 < 1
        BY <3>2 DEF PeerQueueOK, NeverBehind
      <3> QED
        BY <1>1, <3>1, <3>3
    <2>4. ~Has(Tail(q), "quit")
      BY <1>2, <2>1 DEF PeerQueueOK
    <2> QED
      BY <1>3, <1>4, <2>1, <2>2, <2>3, <2>4 DEF PeerQueueOK
  <1> QED
    BY <1>6, <1>7, <1>8, <1>9

\* The worker moves on, or starts while nothing is under way.
LEMMA QueueMove ==
    ASSUME NEW q, NEW t \in WorkerStates, NEW u \in WorkerStates, PeerQueueOK(q, t),
           \/ t # "none" /\ u # "none" /\ (t = "finished" => u = "finished")
           \/ t = "none" /\ Quiet(q)
    PROVE  PeerQueueOK(q, u)
  <1>1. CASE t # "none" /\ u # "none" /\ (t = "finished" => u = "finished")
    BY <1>1 DEF PeerQueueOK
  <1>2. CASE t = "none" /\ Quiet(q)
    <2>1. Behind(q, "start", "stop")
      BY <1>2 DEF PeerQueueOK
    <2> QED
      BY <1>2, <2>1 DEF PeerQueueOK, Quiet
  <1> QED
    BY <1>1, <1>2

LEMMA QueueEmpty ==
    ASSUME NEW q \in Seq(PeerMsgs), PeerQueueOK(q, "none"), Quiet(q)
    PROVE  q = <<>>
  <1>1. \A i \in 1 .. Len(q) : q[i] \in PeerMsgs
    BY ElementOfSeq
  <1>2. \A i \in 1 .. Len(q) : FALSE
    BY <1>1 DEF PeerMsgs, PeerQueueOK, Quiet, Has
  <1>3. Len(q) = 0
    <2>1. Len(q) \in Nat
      OBVIOUS
    <2> QED
      BY <1>2, <2>1
  <1> QED
    BY <1>3, EmptySeq

LEMMA QueueLaunch ==
    ASSUME NEW q \in Seq(PeerMsgs), PeerQueueOK(q, "none"), Quiet(q),
           NEW msgs \in {<<"options", "start">>, <<"start">>}
    PROVE  PeerQueueOK(q \o msgs, "none") /\ Has(q \o msgs, "start")
  <1>1. q \o msgs = msgs
    BY QueueEmpty
  <1>2. /\ ~Has(msgs, "quit") /\ ~Has(msgs, "stop") /\ Has(msgs, "start")
        /\ Once(msgs, "start")
    <2>1. CASE msgs = <<"start">>
      BY <2>1 DEF Has, Once
    <2>2. CASE msgs = <<"options", "start">>
      <3>1. /\ Len(msgs) = 2 /\ msgs[1] = "options" /\ msgs[2] = "start"
            /\ 2 \in 1 .. 2 /\ \A i \in 1 .. 2 : i = 1 \/ i = 2
        BY <2>2
      <3> QED
        BY <3>1 DEF Has, Once
    <2> QED
      BY <2>1, <2>2
  <1>3. NeverBehind(msgs, "options", "start") /\ Behind(msgs, "start", "stop")
    BY DEF NeverBehind, Behind
  <1> QED
    BY <1>1, <1>2, <1>3 DEF PeerQueueOK

LEMMA QueueAppend ==
    ASSUME NEW q \in Seq(PeerMsgs), NEW t, PeerQueueOK(q, t), NEW m,
           \/ m = "stop" /\ (t = "none" => Has(q, "start"))
           \/ m = "quit" /\ t = "finished"
    PROVE  /\ PeerQueueOK(q \o <<m>>, t)
           /\ m = "quit" /\ Quiet(q) => Quiet(q \o <<m>>)
           /\ Has(q, "start") => Has(q \o <<m>>, "start")
  <1>1. <<m>> \in Seq(PeerMsgs)
    BY DEF PeerMsgs
  <1>2. \A n : Has(<<m>>, n) <=> n = m
    BY DEF Has
  <1>3. \A n : Has(q \o <<m>>, n) <=> Has(q, n) \/ n = m
    BY <1>1, <1>2, HasConcat
  <1>4. Once(q \o <<m>>, "start")
    BY <1>1, <1>2, HasConcat DEF PeerQueueOK
  <1>5. /\ Len(q) \in Nat /\ Len(q \o <<m>>) = Len(q) + 1
        /\ \A i \in 1 .. Len(q) : (q \o <<m>>)[i] = q[i]
        /\ (q \o <<m>>)[Len(q) + 1] = m
    <2>1. Len(<<m>>) = 1 /\ <<m>>[1] = m
      OBVIOUS
    <2> QED
      BY <1>1, <2>1, ConcatProperties, LenProperties
  <1>6. NeverBehind(q \o <<m>>, "options", "start")
    BY <1>5 DEF PeerQueueOK, NeverBehind
  <1>7. ASSUME t = "none" PROVE Behind(q \o <<m>>, "start", "stop")
    <2>1. PICK k \in 1 .. Len(q) : q[k] = "start"
      BY <1>7 DEF Has
    <2>2. Behind(q, "start", "stop")
      BY <1>7 DEF PeerQueueOK
    <2> QED
      BY <1>5, <2>1, <2>2 DEF Behind
  <1>8. PeerQueueOK(q \o <<m>>, t)
    BY <1>3, <1>4, <1>6, <1>7 DEF PeerQueueOK
  <1> QED
    BY <1>3, <1>8 DEF Quiet
----------------------------------------------------------------------------
(* Starting, stopping and dismissing a peer.                               *)

\* The server has listed the run, and c is the client it knows it by.
ServedRun(r) == key[r] # NoKey /\ key[r] \notin keysToStart
Served(c) == c[2] = 1 /\ ServedRun(c[1])

CallInv == Addressed /\ EndReported
ServiceInv == IdentInv /\ CallInv

\* What the conjuncts of Addressed ask of a step.
LEMMA AddressedFrame ==
    ASSUME TypeOK, Addressed,
           \A r \in Runs : ServedRun(r) => ServedRun(r)',
           \A r \in Runs : thread'[r] = thread[r] \/ ServedRun(r)',
           \A c \in Conns : PeerQueueOK(toPeer'[c], thread'[c[1]]),
           \A c \in Conns : Quiet(toPeer[c]) => Quiet(toPeer'[c]) \/ Served(c)',
           \A c \in Conns :
               clientKey'[c] \in Listed(keysRunning') /\ link'[c] = "up"
               /\ thread'[c[1]] = "none" => Has(toPeer'[c], "start")
    PROVE  Addressed'
  <1> USE IdentTypes
  <1>1. \A c \in Conns : c[1] \in Runs /\ (c[2] > 1 <=> c[2] # 1)
    BY MaxConnsAssumption
  <1>2. ASSUME NEW c \in Conns,
               c[2] > 1 \/ key'[c[1]] = NoKey \/ key'[c[1]] \in keysToStart'
        PROVE  Quiet(toPeer'[c])
    <2>1. ~Served(c)'
      BY <1>1, <1>2 DEF Served, ServedRun
    <2>2. ~Served(c)
      BY <1>1, <2>1 DEF Served
    <2>3. c[2] > 1 \/ key[c[1]] = NoKey \/ key[c[1]] \in keysToStart
      BY <1>1, <2>2 DEF Served, ServedRun
    <2> QED
      BY <2>1, <2>3 DEF Addressed
  <1>3. ASSUME NEW c \in Conns, key'[c[1]] = NoKey \/ key'[c[1]] \in keysToStart'
        PROVE  thread'[c[1]] = "none"
    <2>1. ~ServedRun(c[1])' /\ ~ServedRun(c[1])
      BY <1>1, <1>3 DEF ServedRun
    <2> QED
      BY <1>1, <2>1 DEF Addressed, ServedRun
  <1> QED
    BY <1>2, <1>3 DEF Addressed

\* A step that leaves the calls, the workers and the lists of keys alone.
LEMMA AddressedIdle ==
    ASSUME TypeOK, Addressed,
           UNCHANGED <<toPeer, thread, key, keysToStart, keysRunning>>,
           \A c \in Conns : clientKey'[c] \in {clientKey[c], NoKey},
           \A c \in Conns : link'[c] = "up" => link[c] = "up" \/ clientKey[c] = NoKey
    PROVE  Addressed'
  <1> USE DEF Addressed
  <1>1. \A c \in Conns : clientKey'[c] \in Listed(keysRunning) /\ link'[c] = "up" =>
            clientKey[c] \in Listed(keysRunning) /\ link[c] = "up"
    BY DEF Listed
  <1> QED
    BY <1>1

\* What EndReported asks of a step.
LEMMA EndFrame ==
    ASSUME TypeOK, EndReported,
           \A r \in Runs : /\ thread[r] = "finished" => thread'[r] = "finished"
                           /\ thread[r] # "none" => thread'[r] # "none",
           \A c \in Conns : Has(toServer'[c], "stopped") =>
               Has(toServer[c], "stopped") \/ thread[c[1]] = "finished",
           \A r \in Runs : Has(events'[r], "finished") =>
               Has(events[r], "finished") \/ thread'[r] = "finished",
           \A r \in Runs : waiting'[r] => waiting[r] \/ thread[r] # "none"
    PROVE  EndReported'
  BY IdentTypes DEF EndReported

\* stopProcess: nobody, or a client listed as running, is told to stop.
StopsServed ==
    \/ UNCHANGED toPeer
    \/ \E c \in Conns :
          /\ link[c] = "up" /\ clientKey[c] \in Listed(keysRunning)
          /\ toPeer' = [toPeer EXCEPT ![c] = @ \o <<"stop">>]

LEMMA StopFirstServed ==
    ASSUME NEW running, Listed(running) \subseteq Listed(keysRunning),
           StopFirst(running, clientKey)
    PROVE  StopsServed
  <1>1. CASE Listed(running) = {}
    BY <1>1 DEF StopFirst, StopsServed
  <1>2. ASSUME NEW i \in 1 .. Len(running), IsFirst(running, i),
               StopByKey(running[i], clientKey)
        PROVE  StopsServed
    <2>1. running[i] \in Listed(keysRunning)
      BY <1>2 DEF IsFirst, Listed, Elements
    <2>2. CASE ClientsOf(running[i], clientKey) = {}
      BY <1>2, <2>2 DEF StopByKey, StopsServed
    <2>3. ASSUME NEW c \in ClientsOf(running[i], clientKey), ToPeer(c, <<"stop">>)
          PROVE  StopsServed
      BY <2>1, <2>3 DEF ClientsOf, ToPeer, StopsServed
    <2> QED
      BY <1>2, <2>2, <2>3 DEF StopByKey
  <1> QED
    BY <1>1, <1>2 DEF StopFirst

LEMMA ProcessFinishedServed ==
    ASSUME NEW running, Listed(running) \subseteq Listed(keysRunning), NEW lcl,
           ProcessFinished(running, clientKey, lcl)
    PROVE  StopsServed
  BY StopFirstServed DEF ProcessFinished, StopProcess, StopsServed

\* The Run button and the message boxes: a stop only follows a start.
LEMMA CallStop ==
    ASSUME ServiceInv, StopsServed,
           \A r \in Runs : ServedRun(r) => ServedRun(r)',
           \A c \in Conns : clientKey'[c] \in {clientKey[c], NoKey},
           Listed(keysRunning') \subseteq Listed(keysRunning),
           UNCHANGED <<thread, link, toServer, events, waiting>>
    PROVE  CallInv'
  <1> USE IdentTypes DEF ServiceInv, IdentInv, KeysInv, CallInv
  <1>1. EndReported'
    BY DEF EndReported
  <1>2. CASE UNCHANGED toPeer
    <2>1. \A c \in Conns : clientKey'[c] \in Listed(keysRunning') =>
              clientKey[c] \in Listed(keysRunning)
      BY DEF Listed
    <2>2. \A c \in Conns : PeerQueueOK(toPeer'[c], thread'[c[1]])
      BY <1>2 DEF Addressed
    <2>3. \A c \in Conns :
              clientKey'[c] \in Listed(keysRunning') /\ link'[c] = "up"
              /\ thread'[c[1]] = "none" => Has(toPeer'[c], "start")
      BY <1>2, <2>1 DEF Addressed
    <2>4. Addressed'
      BY <1>2, <2>2, <2>3, AddressedFrame
    <2> QED
      BY <1>1, <2>4
  <1>3. ASSUME NEW d \in Conns, link[d] = "up", clientKey[d] \in Listed(keysRunning),
               toPeer' = [toPeer EXCEPT ![d] = @ \o <<"stop">>]
        PROVE  CallInv'
    <2>1. clientKey[d] # NoKey
      BY <1>3 DEF Listed
    <2>2. Served(d)
      BY <2>1 DEF Identified, ClientsKnown, Served, ServedRun
    <2>3. Served(d)'
      BY <2>2 DEF Served
    <2>4. /\ toPeer'[d] = toPeer[d] \o <<"stop">> /\ toPeer[d] \in Seq(PeerMsgs)
          /\ \A c \in Conns \ {d} : toPeer'[c] = toPeer[c]
      BY <1>3
    <2>5. /\ PeerQueueOK(toPeer[d], thread[d[1]])
          /\ thread[d[1]] = "none" => Has(toPeer[d], "start")
      BY <1>3 DEF Addressed
    <2>6. /\ PeerQueueOK(toPeer'[d], thread[d[1]])
          /\ Has(toPeer[d], "start") => Has(toPeer'[d], "start")
      BY <2>4, <2>5, QueueAppend
    <2>7. \A c \in Conns : PeerQueueOK(toPeer'[c], thread'[c[1]])
      BY <2>4, <2>6 DEF Addressed
    <2>8. \A c \in Conns : Quiet(toPeer[c]) => Quiet(toPeer'[c]) \/ Served(c)'
      BY <2>3, <2>4
    <2>9. \A c \in Conns : clientKey'[c] \in Listed(keysRunning') =>
              clientKey[c] \in Listed(keysRunning)
      BY DEF Listed
    <2>10. \A c \in Conns :
               clientKey'[c] \in Listed(keysRunning') /\ link'[c] = "up"
               /\ thread'[c[1]] = "none" => Has(toPeer'[c], "start")
      BY <2>4, <2>5, <2>6, <2>9 DEF Addressed
    <2>11. Addressed'
      BY <2>7, <2>8, <2>10, AddressedFrame
    <2> QED
      BY <1>1, <2>11
  <1> QED
    BY <1>2, <1>3 DEF StopsServed

LEMMA CallUser ==
    ASSUME FreshKeys, ServiceInv, User \/ LocalExit
    PROVE  CallInv'
  <1> USE IdentTypes DEF ServiceInv, IdentInv, KeysInv
  <1>g. UNCHANGED <<thread, link, toServer, events, waiting>>
    BY DEF User, LocalExit, UserStarts, UserStops, LocalProcessExits, Dismiss, DismissMessage,
        DismissExit, DismissFinished, linkVars, peerVars, workerVars
  <1>1. CASE UserStarts
    <2>1. StopsServed /\ UNCHANGED <<clientKey, keysRunning>>
      <3>1. ReplaceProcess
        BY <1>1 DEF UserStarts, StartEmbeddedProcess, StartRPCProcess
      <3> QED
        BY <1>1, <3>1, StopFirstServed DEF ReplaceProcess, UserStarts, serverVars, StopsServed
    <2>2. \A r \in Runs : ServedRun(r) => ServedRun(r)'
      <3>1. CASE StartEmbeddedProcess
        BY <3>1 DEF StartEmbeddedProcess, ServedRun
      <3>2. ASSUME NEW r \in Runs, StartRPCProcess(r)
            PROVE  \A s \in Runs : ServedRun(s) => ServedRun(s)'
        <4>1. PICK k \in FreeKeys : /\ keysToStart' = keysToStart \cup {k}
                                    /\ key' = [key EXCEPT ![r] = k]
          BY <3>2 DEF StartRPCProcess
        <4>2. key[r] = NoKey /\ \A s \in Runs : key[s] # k
          BY <3>2, <4>1 DEF StartRPCProcess, FreeKeys
        <4> QED
          BY <4>1, <4>2 DEF ServedRun
      <3> QED
        BY <1>1, <3>1, <3>2 DEF UserStarts
    <2> QED
      BY <1>g, <2>1, <2>2, CallStop
  <1>2. CASE UserStops \/ DismissMessage \/ DismissExit \/ LocalExit
    <2>1. UNCHANGED <<clientKey, keysRunning, key, keysToStart>>
      BY <1>2
      DEF UserStops, DismissMessage, DismissExit, LocalExit, LocalProcessExits, runVars, serverVars
    <2>2. StopsServed
      BY <1>2, StopFirstServed, ProcessFinishedServed
      DEF UserStops, StopProcess, DismissMessage, DismissExit, LocalExit, LocalProcessExits,
          linkVars, StopsServed
    <2> QED
      BY <1>g, <2>1, <2>2, CallStop DEF ServedRun
  <1>3. CASE DismissFinished
    <2>1. /\ keysRunning' = RemoveAll(keysRunning, clientKey[Top.client])
          /\ ProcessFinished(keysRunning', clientKey, local)
          /\ clientKey' = [clientKey EXCEPT ![Top.client] = NoKey]
          /\ UNCHANGED <<key, keysToStart>>
      BY <1>3 DEF DismissFinished
    <2>2. keysRunning \in Seq(Keys \cup {NoKey})
      BY DEF TypeOK, GuiTypeOK
    <2>3. Listed(keysRunning') \subseteq Listed(keysRunning)
      BY <2>1, <2>2, ListedRemoveAll
    <2>4. StopsServed
      BY <2>1, <2>3, ProcessFinishedServed
    <2> QED
      BY <1>g, <2>1, <2>3, <2>4, CallStop DEF ServedRun
  <1> QED
    BY <1>1, <1>2, <1>3 DEF User, Dismiss
\* A key arrives: its run is listed and its client, which has been sent nothing
\* so far, is sent the options, if they could be written, and the start.
LEMMA CallIdentification ==
    ASSUME ServiceInv, NEW c \in Conns, ReceiveIdentificationKey(c), UNCHANGED peerVars
    PROVE  CallInv'
  <1> USE IdentTypes DEF ServiceInv, IdentInv, KeysInv, CallInv
  <1> DEFINE k == key[c[1]]
  <1>1. /\ c \in open /\ toServer[c] \in Seq(ServerMsgs) /\ toServer[c] # <<>>
        /\ Head(toServer[c]) = "key" /\ Take(c)
        /\ clientKey' = [clientKey EXCEPT ![c] = k]
        /\ HandleRemoteClient(k, clientKey')
        /\ UNCHANGED <<link, key, thread, events, waiting>>
    BY DEF ReceiveIdentificationKey, Incoming, peerVars, workerVars
  <1>2. /\ c[2] = 1 /\ k \in keysToStart /\ k # NoKey
    <2>1. Has(toServer[c], "key")
      BY <1>1, HasTail
    <2> QED
      BY <2>1 DEF Identified, KeySentOnce
  <1>3. /\ keysToStart' = keysToStart \ {k}
        /\ Listed(keysRunning') = Listed(keysRunning) \cup {k}
    <2>1. keysRunning \in Seq(Keys \cup {NoKey}) /\ k \in Keys
      BY <1>2 DEF TypeOK, GuiTypeOK
    <2>2. keysToStart' = keysToStart \ {k} /\ keysRunning' = Append(keysRunning, k)
      BY <1>1, <1>2 DEF HandleRemoteClient
    <2> QED
      BY <2>1, <2>2, ListedAppend
  <1>4. PICK msgs \in {<<"options", "start">>, <<"start">>} : ToPeer(c, msgs)
    <2>1. PICK d \in ClientsOf(k, clientKey') :
              ToPeer(d, <<"options", "start">>) \/ ToPeer(d, <<"start">>)
      BY <1>1, <1>2 DEF HandleRemoteClient
    <2>2. ASSUME d # c PROVE FALSE
      <3>1. d \in Conns /\ clientKey[d] = k
        BY <1>1, <2>1, <2>2 DEF ClientsOf
      <3> QED
        BY <1>2, <3>1 DEF Identified, ClientsKnown
    <2> QED
      BY <2>1, <2>2
  <1>5. /\ PeerQueueOK(toPeer[c], "none") /\ Quiet(toPeer[c]) /\ thread[c[1]] = "none"
        /\ toPeer[c] \in Seq(PeerMsgs)
    BY <1>2 DEF Addressed
  <1>6. PeerQueueOK(toPeer[c] \o msgs, "none") /\ Has(toPeer[c] \o msgs, "start")
    BY <1>5, QueueLaunch
  <1>7. /\ toPeer'[c] = toPeer[c] \/ toPeer'[c] = toPeer[c] \o msgs
        /\ link[c] = "up" => toPeer'[c] = toPeer[c] \o msgs
        /\ \A d \in Conns \ {c} : toPeer'[d] = toPeer[d]
    BY <1>1, <1>4 DEF ToPeer
  <1>8. \A r \in Runs : ServedRun(r) => ServedRun(r)'
    BY <1>1, <1>3 DEF ServedRun
  <1>9. Served(c)'
    BY <1>1, <1>2, <1>3 DEF Served, ServedRun
  <1>10. ASSUME NEW d \in Conns PROVE PeerQueueOK(toPeer'[d], thread'[d[1]])
    <2>1. CASE d = c
      BY <1>1, <1>5, <1>6, <1>7, <2>1
    <2>2. CASE d # c
      BY <1>1, <1>7, <2>2 DEF Addressed
    <2> QED
      BY <2>1, <2>2
  <1>11. \A d \in Conns : Quiet(toPeer[d]) => Quiet(toPeer'[d]) \/ Served(d)'
    BY <1>7, <1>9
  <1>12. ASSUME NEW d \in Conns, clientKey'[d] \in Listed(keysRunning'),
                link'[d] = "up", thread'[d[1]] = "none"
         PROVE  Has(toPeer'[d], "start")
    <2>1. CASE d = c
      BY <1>1, <1>6, <1>7, <1>12, <2>1
    <2>2. CASE d # c
      <3>1. clientKey'[d] = clientKey[d] /\ clientKey[d] # NoKey
        BY <1>1, <1>12, <2>2 DEF Listed
      <3>2. clientKey[d] # k
        BY <1>2, <3>1 DEF Identified, ClientsKnown
      <3>3. clientKey[d] \in Listed(keysRunning)
        BY <1>3, <1>12, <3>1, <3>2
      <3> QED
        BY <1>1, <1>7, <1>12, <2>2, <3>3 DEF Addressed
    <2> QED
      BY <2>1, <2>2
  <1>13. Addressed'
    BY <1>1, <1>8, <1>10, <1>11, <1>12, AddressedFrame
  <1>14. EndReported'
    <2>1. NoNew("stopped")
      BY <1>1, TakeNoNew
    <2> QED
      BY <1>1, <2>1 DEF EndReported, NoNew
  <1> QED
    BY <1>13, <1>14

LEMMA CallServer ==
    ASSUME ServiceInv, NEW c \in Conns, ServerStep(c)
    PROVE  CallInv'
  <1> USE IdentTypes DEF ServiceInv, IdentInv, KeysInv, CallInv
  <1>g. UNCHANGED <<thread, events, waiting>> /\ UNCHANGED peerVars
    BY DEF ServerStep, peerVars, workerVars
  <1>1. CASE ReceiveIdentificationKey(c)
    BY <1>g, <1>1, CallIdentification
  <1>2. CASE ReconstructionStopped(c)
    <2>1. /\ toServer[c] \in Seq(ServerMsgs) /\ toServer[c] # <<>>
          /\ Head(toServer[c]) = "stopped" /\ Take(c)
          /\ ToPeer(c, <<"quit">>)
          /\ UNCHANGED <<link, key, keysToStart, keysRunning, clientKey>>
      BY <1>2 DEF ReconstructionStopped, Incoming, guiVars, runVars, serverVars
    <2>2. thread[c[1]] = "finished"
      <3>1. Has(toServer[c], "stopped")
        BY <2>1, HasTail
      <3> QED
        BY <3>1 DEF EndReported
    <2>3. /\ PeerQueueOK(toPeer[c] \o <<"quit">>, thread[c[1]])
          /\ Quiet(toPeer[c]) => Quiet(toPeer[c] \o <<"quit">>)
      <3>1. PeerQueueOK(toPeer[c], thread[c[1]]) /\ toPeer[c] \in Seq(PeerMsgs)
        BY DEF Addressed
      <3> QED
        BY <2>2, <3>1, QueueAppend
    <2>4. /\ toPeer'[c] = toPeer[c] \/ toPeer'[c] = toPeer[c] \o <<"quit">>
          /\ \A d \in Conns \ {c} : toPeer'[d] = toPeer[d]
      BY <2>1 DEF ToPeer
    <2>5. \A r \in Runs : ServedRun(r) => ServedRun(r)'
      BY <2>1 DEF ServedRun
    <2>6. \A d \in Conns : PeerQueueOK(toPeer'[d], thread'[d[1]])
      BY <1>g, <2>3, <2>4 DEF Addressed
    <2>7. \A d \in Conns : Quiet(toPeer[d]) => Quiet(toPeer'[d]) \/ Served(d)'
      BY <2>3, <2>4
    <2>8. \A d \in Conns :
              clientKey'[d] \in Listed(keysRunning') /\ link'[d] = "up"
              /\ thread'[d[1]] = "none" => Has(toPeer'[d], "start")
      BY <1>g, <2>1, <2>2, <2>4 DEF Addressed
    <2>9. Addressed'
      BY <1>g, <2>5, <2>6, <2>7, <2>8, AddressedFrame
    <2>10. NoNew("stopped")
      BY <2>1, TakeNoNew
    <2> QED
      BY <1>g, <2>9, <2>10 DEF EndReported, NoNew
  <1>3. CASE ReconstructionStarted(c) \/ ReceiveLogLine(c) \/ DisplayMessage(c)
    <2>1. /\ toServer[c] # <<>> /\ Take(c)
          /\ UNCHANGED <<link, toPeer, key, keysToStart, keysRunning, clientKey>>
      BY <1>3
      DEF ReconstructionStarted, ReceiveLogLine, DisplayMessage, Incoming,
          guiVars, runVars, serverVars
    <2>2. Addressed'
      BY <1>g, <2>1, AddressedIdle
    <2>3. NoNew("stopped")
      BY <2>1, TakeNoNew
    <2> QED
      BY <1>g, <2>2, <2>3 DEF EndReported, NoNew
  <1>4. CASE OnClientDisconnected(c)
    <2>1. /\ UNCHANGED <<link, toServer, toPeer, key, keysToStart, keysRunning>>
          /\ clientKey' \in {clientKey, [clientKey EXCEPT ![c] = NoKey]}
      BY <1>4 DEF OnClientDisconnected, linkVars, runVars
    <2>2. \A d \in Conns : clientKey'[d] \in {clientKey[d], NoKey}
      BY <2>1
    <2>3. Addressed'
      BY <1>g, <2>1, <2>2, AddressedIdle
    <2> QED
      BY <1>g, <2>1, <2>3 DEF EndReported
  <1> QED
    BY <1>1, <1>2, <1>3, <1>4 DEF ServerStep, ServerReceive

LEMMA CallLink ==
    ASSUME ServiceInv, NEW r \in Runs, NEW c \in Conns,
           Launch(r) \/ Connect(r) \/ LinkBreaks(c)
    PROVE  CallInv'
  <1> USE IdentTypes DEF ServiceInv, IdentInv, KeysInv, CallInv
  <1>g. UNCHANGED <<thread, events, waiting, key, keysToStart, keysRunning, clientKey>>
    BY DEF Launch, Connect, LinkBreaks, PeerStart, PeerConnect, ClientConnected,
        guiVars, runVars, serverVars, peerVars, workerVars
  <1>1. CASE Launch(r)
    <2>1. UNCHANGED <<link, toServer, toPeer>>
      BY <1>1 DEF Launch, PeerStart, linkVars
    <2>2. Addressed'
      BY <1>g, <2>1, AddressedIdle
    <2> QED
      BY <1>g, <2>1, <2>2 DEF EndReported
  <1>2. CASE Connect(r)
    <2>1. /\ link' = [link EXCEPT ![<<r, conn[r] + 1>>] = "up"]
          /\ UNCHANGED <<toServer, toPeer>>
      BY <1>2 DEF Connect, PeerConnect
    <2>2. ASSUME NEW d \in Conns, d = <<r, conn[r] + 1>> PROVE clientKey[d] = NoKey
      <3>1. d[2] > conn[d[1]]
        BY <2>2, MaxConnsAssumption
      <3> QED
        BY <3>1 DEF Identified, ConnectionsMade
    <2>3. \A d \in Conns : link'[d] = "up" => link[d] = "up" \/ clientKey[d] = NoKey
      BY <2>1, <2>2
    <2>4. Addressed'
      BY <1>g, <2>1, <2>3, AddressedIdle
    <2> QED
      BY <1>g, <2>1, <2>4 DEF EndReported
  <1>3. CASE LinkBreaks(c)
    <2>1. PICK n \in 0 .. Len(toServer[c]), m \in 0 .. Len(toPeer[c]) :
              /\ toServer' = [toServer EXCEPT ![c] = Prefix(@, n)]
              /\ toPeer' = [toPeer EXCEPT ![c] = Prefix(@, m)]
      BY <1>3 DEF LinkBreaks, Break
    <2>2. link' = [link EXCEPT ![c] = "broken"]
      BY <1>3 DEF LinkBreaks, Break
    <2>3. /\ toPeer'[c] = Prefix(toPeer[c], m)
          /\ \A d \in Conns \ {c} : toPeer'[d] = toPeer[d]
      BY <2>1
    <2>4. /\ PeerQueueOK(toPeer'[c], thread[c[1]])
          /\ Quiet(toPeer[c]) => Quiet(toPeer'[c])
      <3>1. PeerQueueOK(toPeer[c], thread[c[1]]) /\ toPeer[c] \in Seq(PeerMsgs)
        BY DEF Addressed
      <3> QED
        BY <2>3, <3>1, QueuePrefix
    <2>5. \A d \in Conns : PeerQueueOK(toPeer'[d], thread'[d[1]])
      BY <1>g, <2>3, <2>4 DEF Addressed
    <2>6. \A d \in Conns :
              clientKey'[d] \in Listed(keysRunning') /\ link'[d] = "up"
              /\ thread'[d[1]] = "none" => Has(toPeer'[d], "start")
      BY <1>g, <2>2, <2>3 DEF Addressed
    <2>7. Addressed'
      BY <1>g, <2>3, <2>4, <2>5, <2>6, AddressedFrame DEF ServedRun
    <2>8. NoNew("stopped")
      BY <2>1, LossNoNew
    <2> QED
      BY <1>g, <2>7, <2>8 DEF EndReported, NoNew
  <1> QED
    BY <1>1, <1>2, <1>3
\* A process that ends takes its channels with it.
LEMMA CallExit ==
    ASSUME ServiceInv, NEW r \in Runs, Exit(r), UNCHANGED <<thread, guiVars>>
    PROVE  CallInv'
  <1> USE IdentTypes DEF ServiceInv, IdentInv, KeysInv, CallInv
  <1>1. /\ events' = [events EXCEPT ![r] = <<>>]
        /\ waiting' = [waiting EXCEPT ![r] = FALSE]
        /\ UNCHANGED <<key, keysToStart, keysRunning, clientKey>>
    BY DEF Exit, guiVars, runVars, serverVars
  <1>2. EndReported'
    <2>1. NoNew("stopped")
      BY ExitNoNew
    <2>2. ~Has(<<>>, "finished")
      BY DEF Has
    <2> QED
      BY <1>1, <2>1, <2>2 DEF EndReported, NoNew
  <1>3. CASE socket[r] = "unconnected"
    <2>1. UNCHANGED <<link, toPeer>>
      BY <1>3 DEF Exit, linkVars
    <2> QED
      BY <1>1, <1>2, <2>1, AddressedIdle
  <1>4. CASE socket[r] # "unconnected"
    <2>1. /\ link' = [link EXCEPT ![Conn(r)] = IF @ = "up" THEN "closed" ELSE @]
          /\ toPeer' = [toPeer EXCEPT ![Conn(r)] = <<>>]
      BY <1>4 DEF Exit, Close
    <2>2. \A t : PeerQueueOK(<<>>, t) /\ Quiet(<<>>)
      BY DEF PeerQueueOK, Quiet, Has, Once, NeverBehind, Behind
    <2>3. \A c \in Conns : \/ toPeer'[c] = <<>> /\ link'[c] # "up"
                           \/ toPeer'[c] = toPeer[c] /\ link'[c] = link[c]
      BY <2>1
    <2>4. ASSUME NEW c \in Conns PROVE PeerQueueOK(toPeer'[c], thread'[c[1]])
      <3>1. CASE toPeer'[c] = <<>>
        BY <2>2, <3>1
      <3>2. CASE toPeer'[c] = toPeer[c]
        BY <1>1, <3>2 DEF Addressed
      <3> QED
        BY <2>3, <3>1, <3>2
    <2>5. \A c \in Conns : Quiet(toPeer[c]) => Quiet(toPeer'[c])
      BY <2>2, <2>3
    <2>6. \A c \in Conns :
              clientKey'[c] \in Listed(keysRunning') /\ link'[c] = "up"
              /\ thread'[c[1]] = "none" => Has(toPeer'[c], "start")
      BY <1>1, <2>3 DEF Addressed
    <2>7. Addressed'
      BY <1>1, <2>4, <2>5, <2>6, AddressedFrame DEF ServedRun
    <2> QED
      BY <1>2, <2>7
  <1> QED
    BY <1>3, <1>4

\* The peer takes the next call of its server.
LEMMA CallReceive ==
    ASSUME ServiceInv, NEW r \in Runs,
           ReceiveOptions(r) \/ StartReconstruction(r) \/ StopReconstruction(r),
           UNCHANGED guiVars
    PROVE  CallInv'
  <1> USE IdentTypes DEF ServiceInv, IdentInv, KeysInv, CallInv
  <1> DEFINE d == Conn(r)
             q == toPeer[d]
  <1>1. /\ q # <<>> /\ toPeer' = [toPeer EXCEPT ![d] = Tail(@)]
        /\ ~waiting[r] /\ socket[r] = "connected"
        /\ UNCHANGED <<link, toServer, events>>
        /\ UNCHANGED <<key, keysToStart, keysRunning, clientKey>>
    BY DEF ReceiveOptions, StartReconstruction, StopReconstruction, Receive, Consume, Looping,
        guiVars, runVars, serverVars, workerVars
  <1>2. d \in Conns /\ d[1] = r
    <2>1. conn[r] # 0
      BY <1>1 DEF Identified, Connecting
    <2> QED
      BY <2>1, MaxConnsAssumption DEF Conn, Conns
  <1>3. /\ q \in Seq(PeerMsgs) /\ PeerQueueOK(q, thread[r])
        /\ toPeer'[d] = Tail(q) /\ \A c \in Conns \ {d} : toPeer'[c] = toPeer[c]
    BY <1>1, <1>2 DEF Addressed
  <1>4. \A s \in Runs : ServedRun(s) => ServedRun(s)'
    BY <1>1 DEF ServedRun
  <1>5. \A c \in Conns : Quiet(toPeer[c]) => Quiet(toPeer'[c])
    <2>1. Quiet(q) => Quiet(Tail(q))
      BY <1>1, <1>3, QueueTail
    <2> QED
      BY <1>3, <2>1
  <1>6. CASE ReceiveOptions(r)
    <2>1. Head(q) = "options" /\ UNCHANGED <<thread, waiting>>
      BY <1>6 DEF ReceiveOptions, Receive, workerVars
    <2>2. /\ thread[r] = "none" /\ PeerQueueOK(Tail(q), thread[r])
          /\ Has(q, "start") => Has(Tail(q), "start")
      <3>1. thread[r] = "none" /\ PeerQueueOK(Tail(q), thread[r])
        BY <1>1, <1>3, <2>1, QueueTail
      <3>2. Has(q, "start") => Has(Tail(q), "start")
        BY <1>1, <1>3, <2>1, HasTail
      <3> QED
        BY <3>1, <3>2
    <2>3. \A c \in Conns : PeerQueueOK(toPeer'[c], thread'[c[1]])
      BY <1>2, <1>3, <2>1, <2>2 DEF Addressed
    <2>4. \A c \in Conns :
              clientKey'[c] \in Listed(keysRunning') /\ link'[c] = "up"
              /\ thread'[c[1]] = "none" => Has(toPeer'[c], "start")
      BY <1>1, <1>3, <2>1, <2>2 DEF Addressed
    <2>5. Addressed'
      BY <1>4, <1>5, <2>1, <2>3, <2>4, AddressedFrame
    <2> QED
      BY <1>1, <2>1, <2>5 DEF EndReported
  <1>7. CASE StartReconstruction(r)
    <2>1. /\ Head(q) = "start" /\ thread' = [thread EXCEPT ![r] = "created"]
          /\ UNCHANGED waiting
      BY <1>7 DEF StartReconstruction, Receive
    <2>2. thread[r] = "none" /\ PeerQueueOK(Tail(q), "created")
      BY <1>1, <1>3, <2>1, QueueTail
    <2>3. Served(d)
      <3>1. ~Quiet(q)
        BY <1>1, <1>3, <2>1, HasTail DEF Quiet
      <3>2. ~(d[2] > 1) /\ ServedRun(r)
        BY <1>2, <3>1 DEF Addressed, ServedRun
      <3> QED
        BY <1>2, <3>2, MaxConnsAssumption DEF Served
    <2>4. ASSUME NEW c \in Conns PROVE PeerQueueOK(toPeer'[c], thread'[c[1]])
      <3>1. CASE c = d
        BY <1>2, <1>3, <2>1, <2>2, <3>1
      <3>2. CASE c # d /\ c[1] = r
        <4>1. c[2] > 1
          <5>1. d[2] = 1 /\ d = <<d[1], d[2]>> /\ c = <<c[1], c[2]>> /\ c[2] \in 1 .. MaxConns
            BY <1>2, <2>3 DEF Served
          <5>2. c[2] # 1
            BY <1>2, <3>2, <5>1
          <5> QED
            BY <5>1, <5>2, MaxConnsAssumption
        <4>2. Quiet(toPeer[c]) /\ PeerQueueOK(toPeer[c], "none")
          BY <2>2, <3>2, <4>1 DEF Addressed
        <4>3. PeerQueueOK(toPeer[c], "created")
          BY <4>2, QueueMove DEF WorkerStates
        <4> QED
          BY <1>3, <2>1, <3>2, <4>3
      <3>3. CASE c[1] # r
        BY <1>2, <1>3, <2>1, <3>3 DEF Addressed
      <3> QED
        BY <3>1, <3>2, <3>3
    <2>5. \A s \in Runs : thread'[s] = thread[s] \/ ServedRun(s)'
      BY <1>1, <1>2, <2>1, <2>3 DEF Served, ServedRun
    <2>6. \A c \in Conns :
              clientKey'[c] \in Listed(keysRunning') /\ link'[c] = "up"
              /\ thread'[c[1]] = "none" => Has(toPeer'[c], "start")
      BY <1>1, <1>2, <1>3, <2>1 DEF Addressed
    <2>7. Addressed'
      BY <1>4, <1>5, <2>4, <2>5, <2>6, AddressedFrame
    <2>8. EndReported'
      BY <1>1, <2>1, <2>2 DEF EndReported
    <2> QED
      BY <2>7, <2>8
  <1>8. CASE StopReconstruction(r)
    <2>1. /\ Head(q) = "stop" /\ UNCHANGED thread
          /\ waiting' = [waiting EXCEPT ![r] = TRUE]
      BY <1>8 DEF StopReconstruction, Receive
    <2>2. thread[r] # "none" /\ PeerQueueOK(Tail(q), thread[r])
      BY <1>1, <1>3, <2>1, QueueTail
    <2>3. \A c \in Conns : PeerQueueOK(toPeer'[c], thread'[c[1]])
      BY <1>2, <1>3, <2>1, <2>2 DEF Addressed
    <2>4. \A c \in Conns :
              clientKey'[c] \in Listed(keysRunning') /\ link'[c] = "up"
              /\ thread'[c[1]] = "none" => Has(toPeer'[c], "start")
      BY <1>1, <1>2, <1>3, <2>1, <2>2 DEF Addressed
    <2>5. Addressed'
      BY <1>4, <1>5, <2>1, <2>3, <2>4, AddressedFrame
    <2>6. EndReported'
      BY <1>1, <2>1, <2>2 DEF EndReported
    <2> QED
      BY <2>5, <2>6
  <1> QED
    BY <1>6, <1>7, <1>8

\* The worker begins, emits its signals and ends.
LEMMA CallWorker ==
    ASSUME ServiceInv, NEW r \in Runs, UNCHANGED guiVars,
           \/ WorkerBegins(r) \/ WorkerEnds(r)
           \/ \E sig \in {"log", "message"} : WorkerEmits(r, sig)
    PROVE  CallInv'
  <1> USE IdentTypes DEF ServiceInv, IdentInv, KeysInv, CallInv
  <1>1. UNCHANGED <<link, toServer, toPeer, waiting, key, keysToStart, keysRunning, clientKey>>
    BY DEF WorkerBegins, WorkerEnds, WorkerEmits, linkVars, guiVars, runVars, serverVars
  <1>2. PICK sig \in WorkerSignals, u \in {"running", "finished"} :
            /\ events' = [events EXCEPT ![r] = Append(@, sig)]
            /\ thread' = [thread EXCEPT ![r] = u]
            /\ thread[r] \in {"created", "running"}
            /\ sig = "finished" => u = "finished"
    <2>1. CASE WorkerBegins(r)
      BY <2>1 DEF WorkerBegins, WorkerSignals
    <2>2. CASE WorkerEnds(r)
      BY <2>2 DEF WorkerEnds, WorkerSignals
    <2>3. ASSUME NEW m \in {"log", "message"}, WorkerEmits(r, m)
          PROVE  /\ events' = [events EXCEPT ![r] = Append(@, m)]
                 /\ thread' = [thread EXCEPT ![r] = "running"]
                 /\ thread[r] = "running" /\ m \in WorkerSignals /\ m # "finished"
      BY <2>3 DEF WorkerEmits, WorkerSignals
    <2> QED
      BY <2>1, <2>2, <2>3
  <1>3. /\ thread[r] # "none" /\ thread[r] # "finished" /\ thread'[r] = u
        /\ \A s \in Runs \ {r} : thread'[s] = thread[s]
    BY <1>2
  <1>4. EndReported'
    <2>1. \A s \in Runs : Has(events'[s], "finished") =>
              Has(events[s], "finished") \/ thread'[s] = "finished"
      <3>1. events[r] \in Seq(WorkerSignals) /\ events'[r] = Append(events[r], sig)
        BY <1>2
      <3>2. /\ Len(events[r]) \in Nat /\ Len(events'[r]) = Len(events[r]) + 1
            /\ \A i \in 1 .. Len(events[r]) : events'[r][i] = events[r][i]
            /\ events'[r][Len(events[r]) + 1] = sig
        BY <3>1, AppendProperties, LenProperties
      <3>3. ASSUME Has(events'[r], "finished"), sig # "finished"
            PROVE  Has(events[r], "finished")
        <4>1. PICK i \in 1 .. Len(events'[r]) : events'[r][i] = "finished"
          BY <3>3 DEF Has
        <4>2. i \in 1 .. Len(events[r])
          BY <3>2, <3>3, <4>1
        <4> QED
          BY <3>2, <4>1, <4>2 DEF Has
      <3> QED
        BY <1>2, <1>3, <3>3
    <2> QED
      BY <1>1, <1>3, <2>1, EndFrame
  <1>5. ASSUME NEW c \in Conns PROVE PeerQueueOK(toPeer'[c], thread'[c[1]])
    <2>1. PeerQueueOK(toPeer[c], thread[c[1]])
      BY DEF Addressed
    <2>2. CASE c[1] = r
      <3>1. PeerQueueOK(toPeer[c], thread[r]) /\ thread[r] \in WorkerStates
            /\ u \in WorkerStates /\ u # "none"
        BY <2>1, <2>2 DEF WorkerStates
      <3>2. PeerQueueOK(toPeer[c], u)
        BY <1>3, <3>1, QueueMove
      <3> QED
        BY <1>1, <1>3, <2>2, <3>2
    <2>3. CASE c[1] # r
      BY <1>1, <1>3, <2>1, <2>3
    <2> QED
      BY <2>2, <2>3
  <1>6. ServedRun(r)
    <2>1. <<r, 1>> \in Conns
      BY MaxConnsAssumption DEF Conns
    <2> QED
      BY <1>3, <2>1 DEF Addressed, ServedRun
  <1>7. \A c \in Conns :
            clientKey'[c] \in Listed(keysRunning') /\ link'[c] = "up"
            /\ thread'[c[1]] = "none" => Has(toPeer'[c], "start")
    BY <1>1, <1>3 DEF Addressed
  <1>8. Addressed'
    BY <1>1, <1>3, <1>5, <1>6, <1>7, AddressedFrame DEF ServedRun
  <1> QED
    BY <1>4, <1>8

LEMMA KeyOnly ==
    ASSUME NEW q \in Seq(ServerMsgs)
    PROVE  Has(q \o <<"key">>, "stopped") => Has(q, "stopped")
  <1>1. <<"key">> \in Seq(ServerMsgs) /\ ~Has(<<"key">>, "stopped")
    BY DEF ServerMsgs, Has
  <1> QED
    BY <1>1, HasConcat

\* The main thread of the peer writes to its socket.
LEMMA CallEmit ==
    ASSUME ServiceInv, NEW r \in Runs, UNCHANGED guiVars,
           \/ ConnectionEstablished(r) \/ ConnectionRecovered(r) \/ ConnectionLost(r)
           \/ StopReturns(r) \/ DeliverSignal(r)
    PROVE  CallInv'
  <1> USE IdentTypes DEF ServiceInv, IdentInv, KeysInv, CallInv
  <1>1. UNCHANGED <<link, toPeer, thread, key, keysToStart, keysRunning, clientKey>>
    BY DEF ConnectionEstablished, ConnectionRecovered, ConnectionLost, StopReturns,
        DeliverSignal, linkVars, workerVars, guiVars, runVars, serverVars
  <1>2. Addressed'
    BY <1>1, AddressedIdle
  <1>3. CASE ConnectionEstablished(r)
    <2>1. ToServer(Conn(r), <<"key">>) /\ UNCHANGED <<events, waiting>>
      BY <1>3 DEF ConnectionEstablished, workerVars
    <2>2. \A c \in Conns : \/ toServer'[c] = toServer[c]
                           \/ toServer'[c] = toServer[c] \o <<"key">>
      BY <2>1 DEF ToServer
    <2>3. ASSUME NEW c \in Conns, toServer'[c] = toServer[c] \o <<"key">>,
                 Has(toServer'[c], "stopped")
          PROVE  Has(toServer[c], "stopped")
      BY <2>3, KeyOnly
    <2>4. \A c \in Conns : Has(toServer'[c], "stopped") => Has(toServer[c], "stopped")
      BY <2>2, <2>3
    <2>5. EndReported'
      BY <1>1, <2>1, <2>4 DEF EndReported
    <2> QED
      BY <1>2, <2>5
  <1>4. CASE ConnectionRecovered(r) \/ ConnectionLost(r)
    <2>1. UNCHANGED <<toServer, events, waiting>>
      BY <1>4 DEF ConnectionRecovered, ConnectionLost, linkVars, workerVars
    <2> QED
      BY <1>1, <1>2, <2>1 DEF EndReported
  <1>5. CASE StopReturns(r)
    <2>1. thread[r] = "finished"
      BY <1>5 DEF StopReturns, ThreadBusy, EndReported
    <2>2. \A c \in Conns : c[1] # r => toServer'[c] = toServer[c]
      BY <1>5 DEF StopReturns, Emit, ToServer, Conn
    <2>3. /\ events' = [events EXCEPT ![r] = <<>>]
          /\ waiting' = [waiting EXCEPT ![r] = FALSE]
      BY <1>5 DEF StopReturns
    <2>4. EndReported'
      BY <1>1, <2>1, <2>2, <2>3 DEF EndReported
    <2> QED
      BY <1>2, <2>4
  <1>6. CASE DeliverSignal(r)
    <2>1. /\ events[r] # <<>> /\ Emit(r, <<Wire(Head(events[r]))>>)
          /\ events' = [events EXCEPT ![r] = Tail(@)] /\ UNCHANGED waiting
      BY <1>6 DEF DeliverSignal
    <2>2. \A c \in Conns : c[1] # r => toServer'[c] = toServer[c]
      BY <2>1 DEF Emit, ToServer, Conn
    <2>3. \A s \in Runs : Has(events'[s], "finished") => Has(events[s], "finished")
      <3>1. Has(Tail(events[r]), "finished") => Has(events[r], "finished")
        BY <2>1, HasTail
      <3> QED
        BY <2>1, <3>1
    <2>4. CASE Head(events[r]) = "finished"
      <3>1. thread[r] = "finished"
        <4>1. Has(events[r], "finished")
          BY <2>1, <2>4, HasTail
        <4> QED
          BY <4>1 DEF EndReported
      <3>2. EndReported'
        BY <1>1, <2>1, <2>2, <2>3, <3>1 DEF EndReported
      <3> QED
        BY <1>2, <3>2
    <2>5. CASE Head(events[r]) # "finished"
      <3>1. Head(events[r]) \in WorkerSignals
        BY <2>1, TailType
      <3>2. Wire(Head(events[r])) \in ServerMsgs \ {"stopped"}
        BY <2>5, <3>1 DEF Wire, WorkerSignals, ServerMsgs
      <3>3. <<Wire(Head(events[r]))>> \in Seq(ServerMsgs)
            /\ ~Has(<<Wire(Head(events[r]))>>, "stopped")
        BY <3>2 DEF Has
      <3>4. NoNew("stopped")
        BY <2>1, <3>3, EmitNoNew
      <3>5. EndReported'
        BY <1>1, <2>1, <2>3, <3>4 DEF EndReported, NoNew
      <3> QED
        BY <1>2, <3>5
    <2> QED
      BY <2>4, <2>5
  <1> QED
    BY <1>3, <1>4, <1>5, <1>6

\* quit only reaches a peer whose worker has ended: none is terminated.
LEMMA QuitIdle ==
    ASSUME ServiceInv, NEW r \in Runs, Quit(r)
    PROVE  UNCHANGED thread
  <1>1. /\ toPeer[Conn(r)] # <<>> /\ Head(toPeer[Conn(r)]) = "quit"
        /\ socket[r] = "connected"
    BY DEF Quit, Receive
  <1>2. Conn(r) \in Conns /\ Conn(r)[1] = r
    BY <1>1, IdentTypes, MaxConnsAssumption
    DEF ServiceInv, IdentInv, KeysInv, Identified, Connecting, Conn, Conns
  <1>3. toPeer[Conn(r)] \in Seq(PeerMsgs) /\ thread \in [Runs -> WorkerStates]
    BY <1>2, IdentTypes DEF ServiceInv, IdentInv, KeysInv, WorkerStates
  <1>4. Has(toPeer[Conn(r)], "quit")
    BY <1>1, <1>3, HasTail
  <1>5. thread[r] = "finished"
    BY <1>2, <1>4 DEF ServiceInv, CallInv, Addressed, PeerQueueOK
  <1> QED
    BY <1>3, <1>5 DEF Quit, ThreadBusy

LEMMA CallPeer ==
    ASSUME ServiceInv, NEW r \in Runs, Peer(r)
    PROVE  CallInv'
  <1>1. PeerStep(r) /\ UNCHANGED guiVars
    BY DEF Peer
  <1>2. CASE CheckTimeOut(r) \/ PeerDies(r)
    BY <1>1, <1>2, CallExit DEF CheckTimeOut, PeerDies
  <1>3. CASE Quit(r)
    BY <1>1, <1>3, QuitIdle, CallExit DEF Quit
  <1>4. CASE ReceiveOptions(r) \/ StartReconstruction(r) \/ StopReconstruction(r)
    BY <1>1, <1>4, CallReceive
  <1>5. CASE \/ WorkerBegins(r) \/ WorkerEnds(r)
             \/ \E sig \in {"log", "message"} : WorkerEmits(r, sig)
    BY <1>1, <1>5, CallWorker
  <1>6. CASE \/ ConnectionEstablished(r) \/ ConnectionRecovered(r) \/ ConnectionLost(r)
             \/ StopReturns(r) \/ DeliverSignal(r)
    BY <1>1, <1>6, CallEmit
  <1> QED
    BY <1>1, <1>2, <1>3, <1>4, <1>5, <1>6 DEF PeerStep

LEMMA ServiceStep ==
    ASSUME FreshKeys, ServiceInv, [Next]_vars
    PROVE  ServiceInv'
  <1>1. IdentInv'
    BY IdentStep DEF ServiceInv
  <1>2. CASE UNCHANGED vars
    BY <1>1, <1>2
    DEF ServiceInv, CallInv, Addressed, EndReported, vars, linkVars, guiVars, runVars, serverVars,
        peerVars, workerVars
  <1>3. CASE User \/ LocalExit
    BY <1>1, <1>3, CallUser DEF ServiceInv
  <1>4. ASSUME NEW r \in Runs, Launch(r) \/ Connect(r) PROVE ServiceInv'
    <2>1. <<r, 1>> \in Conns
      BY MaxConnsAssumption DEF Conns
    <2> QED
      BY <1>1, <1>4, <2>1, CallLink DEF ServiceInv
  <1>5. ASSUME NEW r \in Runs, Peer(r) PROVE ServiceInv'
    BY <1>1, <1>5, CallPeer DEF ServiceInv
  <1>6. ASSUME NEW c \in Conns, ServerStep(c) PROVE ServiceInv'
    BY <1>1, <1>6, CallServer DEF ServiceInv
  <1>7. ASSUME NEW c \in Conns, LinkBreaks(c) PROVE ServiceInv'
    <2>1. c[1] \in Runs
      BY DEF Conns
    <2> QED
      BY <1>1, <1>7, <2>1, CallLink DEF ServiceInv
  <1> QED
    BY <1>2, <1>3, <1>4, <1>5, <1>6, <1>7 DEF Next

LEMMA ServiceInit == Init => ServiceInv
  <1> SUFFICES ASSUME Init PROVE Addressed /\ EndReported
    BY IdentInit DEF ServiceInv, CallInv
  <1> USE DEF Init, LinkInit, GuiInit, PeerInit
  <1>0. \A c \in Conns : c[1] \in Runs
    BY DEF Conns
  <1>1. \A t : PeerQueueOK(<<>>, t) /\ Quiet(<<>>)
    BY DEF PeerQueueOK, Quiet, Has, Once, NeverBehind, Behind
  <1>2. Addressed
    BY <1>0, <1>1 DEF Addressed, Listed, Elements
  <1>3. EndReported
    BY DEF EndReported, Has
  <1> QED
    BY <1>2, <1>3

\* Whatever breaks, ends or recovers, and whenever the user presses Run, Stop
\* or OK, every peer is started at most once and before it has a worker, so
\* that m_thread is never overwritten (ProcessControl::handleRemoteClient,
\* RPCServer::callStartReconstruction, RPCPeer::startReconstruction).
THEOREM StartsOnce == ASSUME FreshKeys PROVE Spec => []StartedOnce
  <1>1. ServiceInv /\ [Next]_vars => ServiceInv'
    BY ServiceStep
  <1>2. ServiceInv => StartedOnce
    BY DEF ServiceInv, CallInv, Addressed, PeerQueueOK, StartedOnce, Once
  <1> QED
    BY ServiceInit, <1>1, <1>2, PTL DEF Spec

\* global_options is never written while a worker may read it
\* (RPCServer::sendOptions, RPCPeer::receiveOptions).
THEOREM OptionsComeFirst == ASSUME FreshKeys PROVE Spec => []OptionsBeforeWorker
  <1>1. ServiceInv /\ [Next]_vars => ServiceInv'
    BY ServiceStep
  <1>2. ServiceInv => OptionsBeforeWorker
    BY DEF ServiceInv, CallInv, Addressed, PeerQueueOK, OptionsBeforeWorker
  <1> QED
    BY ServiceInit, <1>1, <1>2, PTL DEF Spec

\* No peer handles a stop before it has a worker to wait for, however soon
\* after the launch the user stops it (ProcessControl::stopProcess,
\* RPCPeer::stopReconstruction, which waits on m_thread).
THEOREM StopsFollowStarts == ASSUME FreshKeys PROVE Spec => []StopAfterStart
  <1>1. ServiceInv /\ [Next]_vars => ServiceInv'
    BY ServiceStep
  <1>2. ServiceInv => StopAfterStart
    BY DEF ServiceInv, CallInv, Addressed, PeerQueueOK, StopAfterStart, Behind
  <1> QED
    BY ServiceInit, <1>1, <1>2, PTL DEF Spec

\* A peer is only dismissed once its worker has ended, so quit never calls
\* terminate on a running one (RPCServer::onReconstructionStopped, RPCPeer::quit).
THEOREM QuitsAfterWork == ASSUME FreshKeys PROVE Spec => []QuitAfterWorker
  <1>1. ServiceInv /\ [Next]_vars => ServiceInv'
    BY ServiceStep
  <1>2. ServiceInv => QuitAfterWorker
    BY DEF ServiceInv, CallInv, Addressed, PeerQueueOK, QuitAfterWorker
  <1> QED
    BY ServiceInit, <1>1, <1>2, PTL DEF Spec
\* A peer that came back is sent nothing but quit, and the server does not know
\* it by any key (RPCPeer::connectionEstablished sends the key once).
THEOREM RecoveredPeersAnonymous == ASSUME FreshKeys PROVE Spec => []RecoveredPeerAnonymous
  <1>1. ServiceInv /\ [Next]_vars => ServiceInv'
    BY ServiceStep
  <1>2. ServiceInv => RecoveredPeerAnonymous
    <2> SUFFICES ASSUME ServiceInv, NEW c \in Conns, c[2] > 1
                 PROVE  /\ clientKey[c] = NoKey
                        /\ \A i \in 1 .. Len(toPeer[c]) : toPeer[c][i] = "quit"
      BY DEF RecoveredPeerAnonymous
    <2>1. clientKey[c] = NoKey
      BY DEF ServiceInv, IdentInv, Identified, ClientsKnown
    <2>2. Quiet(toPeer[c]) /\ toPeer[c] \in Seq(PeerMsgs)
      BY IdentTypes DEF ServiceInv, CallInv, Addressed, IdentInv, KeysInv
    <2>3. \A i \in 1 .. Len(toPeer[c]) : toPeer[c][i] \in PeerMsgs
      BY <2>2, ElementOfSeq
    <2>4. \A i \in 1 .. Len(toPeer[c]) : toPeer[c][i] = "quit"
      BY <2>2, <2>3 DEF PeerMsgs, Quiet, Has
    <2> QED
      BY <2>1, <2>4
  <1> QED
    BY ServiceInit, <1>1, <1>2, PTL DEF Spec

----------------------------------------------------------------------------
(* RemoteRun implements RunLifecycle.                                      *)

\* A step of the listing of one run, of the work of one run, or of neither.
LEMMA ListingMoves ==
    ASSUME NEW r \in Runs,
           <<StageOf(r), StageOf(r)'>> \in {<<"idle", "starting">>, <<"starting", "running">>,
                                           <<"running", "finished">>},
           \A s \in Runs \ {r} : StageOf(s)' = StageOf(s),
           \A s \in Runs : WorkOf(s)' = WorkOf(s)
    PROVE  Lifecycle!LifecycleNext
  <1>1. Lifecycle!ListingStep(r)
    BY DEF Lifecycle!ListingStep, Lifecycle!Moves
  <1> QED
    BY <1>1 DEF Lifecycle!LifecycleNext

LEMMA WorkMoves ==
    ASSUME NEW r \in Runs,
           <<WorkOf(r), WorkOf(r)'>> \in {<<"none", "working">>, <<"working", "done">>},
           WorkOf(r) = "none" => StageOf(r) \in {"running", "finished"},
           \A s \in Runs \ {r} : WorkOf(s)' = WorkOf(s),
           \A s \in Runs : StageOf(s)' = StageOf(s)
    PROVE  Lifecycle!LifecycleNext
  <1>1. Lifecycle!WorkStep(r)
    BY DEF Lifecycle!WorkStep, Lifecycle!Moves
  <1> QED
    BY <1>1 DEF Lifecycle!LifecycleNext

LEMMA NothingMoves ==
    ASSUME \A s \in Runs : StageOf(s)' = StageOf(s) /\ WorkOf(s)' = WorkOf(s)
    PROVE  UNCHANGED Lifecycle!lifecycleVars
  BY DEF Lifecycle!lifecycleVars
----------------------------------------------------------------------------
(* The steps of RemoteRun.                                                 *)

Implements == [Lifecycle!LifecycleNext]_(Lifecycle!lifecycleVars)

\* A step that gives no run a key and takes none off a list.
ListsKept ==
    /\ UNCHANGED <<key, keysToStart>>
    /\ Listed(keysRunning') = Listed(keysRunning)

LEMMA StageKept ==
    ASSUME ListsKept
    PROVE  \A s \in Runs : StageOf(s)' = StageOf(s)
  BY DEF ListsKept, StageOf

LEMMA WorkKept ==
    ASSUME UNCHANGED thread
    PROVE  \A s \in Runs : WorkOf(s)' = WorkOf(s)
  BY DEF WorkOf, ThreadBusy

LEMMA IdleStep ==
    ASSUME ListsKept, UNCHANGED thread
    PROVE  Implements
  BY StageKept, WorkKept, NothingMoves DEF Implements

\* startRPCProcess gives an idle run a key that no run has had.
LEMMA LaunchImplements ==
    ASSUME FreshKeys, ServiceInv, NEW r \in Runs, StartRPCProcess(r),
           UNCHANGED <<keysRunning, thread>>
    PROVE  Implements
  <1> USE IdentTypes DEF ServiceInv, IdentInv, KeysInv
  <1>1. PICK k \in FreeKeys : /\ keysToStart' = keysToStart \cup {k}
                              /\ key' = [key EXCEPT ![r] = k]
    BY DEF StartRPCProcess
  <1>2. key[r] = NoKey /\ k # NoKey /\ \A s \in Runs : key[s] # k
    BY <1>1 DEF StartRPCProcess, FreeKeys
  <1>3. StageOf(r) = "idle" /\ StageOf(r)' = "starting"
    <2>1. key[r] \notin keysToStart /\ key[r] \notin Listed(keysRunning)
      BY <1>2 DEF Listed
    <2>2. StageOf(r) = "idle"
      BY <1>2, <2>1 DEF StageOf
    <2>3. key'[r] = k /\ k \in keysToStart'
      BY <1>1
    <2>4. k \notin Listed(keysRunning')
      BY <1>2 DEF KeysGiven
    <2>5. StageOf(r)' = "starting"
      BY <1>2, <2>3, <2>4 DEF StageOf
    <2> QED
      BY <2>2, <2>5
  <1>4. ASSUME NEW s \in Runs \ {r} PROVE StageOf(s)' = StageOf(s)
    <2>1. key'[s] = key[s] /\ (key[s] \in keysToStart' <=> key[s] \in keysToStart)
      BY <1>1, <1>2
    <2> QED
      BY <2>1 DEF StageOf
  <1> QED
    BY <1>3, <1>4, WorkKept, ListingMoves DEF Implements

\* handleRemoteClient lists the run that was waiting.
LEMMA IdentificationImplements ==
    ASSUME ServiceInv, NEW c \in Conns, ReceiveIdentificationKey(c), UNCHANGED thread
    PROVE  Implements
  <1> USE IdentTypes DEF ServiceInv, IdentInv, KeysInv
  <1> DEFINE r == c[1]
             k == key[r]
  <1>1. /\ toServer[c] \in Seq(ServerMsgs) /\ toServer[c] # <<>>
        /\ Head(toServer[c]) = "key"
        /\ HandleRemoteClient(k, clientKey') /\ UNCHANGED key
    BY DEF ReceiveIdentificationKey, Incoming
  <1>2. k \in keysToStart /\ k # NoKey /\ k \in Keys
    <2>1. Has(toServer[c], "key")
      BY <1>1, HasTail
    <2> QED
      BY <2>1 DEF Identified, KeySentOnce
  <1>3. /\ keysToStart' = keysToStart \ {k}
        /\ Listed(keysRunning') = Listed(keysRunning) \cup {k}
    <2>1. keysRunning \in Seq(Keys \cup {NoKey})
      BY DEF TypeOK, GuiTypeOK
    <2> QED
      BY <1>1, <1>2, <2>1, ListedAppend DEF HandleRemoteClient
  <1>4. StageOf(r) = "starting" /\ StageOf(r)' = "running"
    <2>1. StageOf(r) = "starting"
      BY <1>2 DEF StageOf, KeysUnique
    <2>2. key'[r] = k /\ k \notin keysToStart' /\ k \in Listed(keysRunning')
      BY <1>1, <1>3
    <2>3. StageOf(r)' = "running"
      BY <1>2, <2>2 DEF StageOf
    <2> QED
      BY <2>1, <2>3
  <1>5. ASSUME NEW s \in Runs \ {r} PROVE StageOf(s)' = StageOf(s)
    <2>1. key[s] # k
      BY <1>2 DEF KeysInjective
    <2> QED
      BY <1>1, <1>3, <2>1 DEF StageOf
  <1> QED
    BY <1>4, <1>5, WorkKept, ListingMoves DEF Implements

\* cleanRemoteClient takes one run off the list, or none.
LEMMA DismissImplements ==
    ASSUME ServiceInv, DismissFinished, UNCHANGED thread
    PROVE  Implements
  <1> USE IdentTypes DEF ServiceInv, IdentInv, KeysInv
  <1> DEFINE k == clientKey[Top.client]
  <1>1. keysRunning' = RemoveAll(keysRunning, k) /\ UNCHANGED <<key, keysToStart>>
    BY DEF DismissFinished
  <1>2. Listed(keysRunning') = Listed(keysRunning) \ {k}
    <2>1. keysRunning \in Seq(Keys \cup {NoKey})
      BY DEF TypeOK, GuiTypeOK
    <2> QED
      BY <1>1, <2>1, ListedRemoveAll
  <1>3. CASE k \notin Listed(keysRunning)
    BY <1>1, <1>2, <1>3, IdleStep DEF ListsKept
  <1>4. CASE k \in Listed(keysRunning)
    <2>1. PICK r \in Runs : key[r] = k
      BY <1>4 DEF KeysGiven
    <2>2. k # NoKey /\ k \notin keysToStart
      BY <1>4 DEF Listed, KeysUnique
    <2>3. StageOf(r) = "running" /\ StageOf(r)' = "finished"
      BY <1>1, <1>2, <1>4, <2>1, <2>2 DEF StageOf
    <2>4. ASSUME NEW s \in Runs \ {r} PROVE StageOf(s)' = StageOf(s)
      <3>1. key[s] # k
        BY <2>1, <2>2 DEF KeysInjective
      <3> QED
        BY <1>1, <1>2, <3>1 DEF StageOf
    <2> QED
      BY <2>3, <2>4, WorkKept, ListingMoves DEF Implements
  <1> QED
    BY <1>3, <1>4

LEMMA ServerImplements ==
    ASSUME ServiceInv, NEW c \in Conns, ServerStep(c)
    PROVE  Implements
  <1>g. UNCHANGED thread
    BY DEF ServerStep, peerVars, workerVars
  <1>1. CASE ReceiveIdentificationKey(c)
    BY <1>g, <1>1, IdentificationImplements
  <1>2. CASE ReconstructionStarted(c) \/ ReconstructionStopped(c) \/ ReceiveLogLine(c)
             \/ DisplayMessage(c) \/ OnClientDisconnected(c)
    <2>1. ListsKept
      BY <1>2
      DEF ReconstructionStarted, ReconstructionStopped, ReceiveLogLine, DisplayMessage,
          OnClientDisconnected, ListsKept, guiVars, runVars
    <2> QED
      BY <1>g, <2>1, IdleStep
  <1> QED
    BY <1>1, <1>2 DEF ServerStep, ServerReceive

LEMMA UserImplements ==
    ASSUME FreshKeys, ServiceInv, User \/ LocalExit
    PROVE  Implements
  <1>g. UNCHANGED thread
    BY DEF User, LocalExit, peerVars, workerVars
  <1>1. CASE UserStarts
    <2>1. CASE StartEmbeddedProcess
      BY <1>g, <1>1, <2>1, IdleStep DEF UserStarts, StartEmbeddedProcess, ListsKept
    <2> QED
      BY <1>g, <1>1, <2>1, LaunchImplements DEF UserStarts
  <1>2. CASE UserStops \/ DismissMessage \/ DismissExit \/ LocalExit
    <2>1. ListsKept
      BY <1>2
      DEF UserStops, DismissMessage, DismissExit, LocalExit, LocalProcessExits, ListsKept, runVars
    <2> QED
      BY <1>g, <2>1, IdleStep
  <1>3. CASE DismissFinished
    BY <1>g, <1>3, DismissImplements
  <1> QED
    BY <1>1, <1>2, <1>3 DEF User, Dismiss

LEMMA PeerImplements ==
    ASSUME ServiceInv, NEW r \in Runs, Peer(r)
    PROVE  Implements
  <1> USE IdentTypes DEF ServiceInv, IdentInv, KeysInv
  <1>g. PeerStep(r) /\ ListsKept
    BY DEF Peer, ListsKept, guiVars, runVars
  <1>s. \A s \in Runs : StageOf(s)' = StageOf(s)
    BY <1>g, StageKept
  <1>1. ASSUME NEW t \in WorkerStates, thread[r] # t,
               thread' = [thread EXCEPT ![r] = t],
               <<thread[r], t>> \in {<<"none", "created">>, <<"created", "running">>,
                                     <<"running", "finished">>},
               thread[r] = "none" => ServedRun(r)
        PROVE  Implements
    <2>1. thread'[r] = t /\ \A s \in Runs \ {r} : thread'[s] = thread[s]
      BY <1>1
    <2>2. \A s \in Runs \ {r} : WorkOf(s)' = WorkOf(s)
      BY <2>1 DEF WorkOf, ThreadBusy
    <2>3. CASE thread[r] = "created"
      <3>1. WorkOf(r)' = WorkOf(r)
        BY <1>1, <2>1, <2>3 DEF WorkOf, ThreadBusy
      <3> QED
        BY <1>s, <2>2, <3>1, NothingMoves DEF Implements
    <2>4. CASE thread[r] # "created"
      <3>1. <<WorkOf(r), WorkOf(r)'>> \in {<<"none", "working">>, <<"working", "done">>}
        BY <1>1, <2>1, <2>4 DEF WorkOf, ThreadBusy
      <3>2. WorkOf(r) = "none" => StageOf(r) \in {"running", "finished"}
        BY <1>1, <2>4 DEF WorkOf, ThreadBusy, StageOf, ServedRun
      <3> QED
        BY <1>s, <2>2, <3>1, <3>2, WorkMoves DEF Implements
    <2> QED
      BY <2>3, <2>4
  <1>2. CASE StartReconstruction(r)
    <2>1. /\ toPeer[Conn(r)] # <<>> /\ Head(toPeer[Conn(r)]) = "start"
          /\ socket[r] = "connected" /\ thread' = [thread EXCEPT ![r] = "created"]
      BY <1>2 DEF StartReconstruction, Receive
    <2>2. Conn(r) \in Conns /\ Conn(r)[1] = r
      BY <2>1, MaxConnsAssumption DEF Identified, Connecting, Conn, Conns
    <2>3. Has(toPeer[Conn(r)], "start")
      BY <2>1, <2>2, HasTail
    <2>4. thread[r] = "none" /\ ServedRun(r)
      BY <2>2, <2>3 DEF CallInv, Addressed, PeerQueueOK, Quiet, ServedRun
    <2> QED
      BY <1>1, <2>1, <2>4 DEF WorkerStates
  <1>3. CASE WorkerBegins(r)
    BY <1>1, <1>3 DEF WorkerBegins, WorkerStates
  <1>4. CASE WorkerEnds(r)
    BY <1>1, <1>4 DEF WorkerEnds, WorkerStates
  <1>5. CASE Quit(r)
    BY <1>g, <1>5, QuitIdle, IdleStep
  <1>6. CASE \/ ConnectionEstablished(r) \/ ConnectionRecovered(r) \/ ConnectionLost(r)
             \/ CheckTimeOut(r) \/ PeerDies(r) \/ ReceiveOptions(r)
             \/ StopReconstruction(r) \/ StopReturns(r) \/ DeliverSignal(r)
             \/ \E sig \in {"log", "message"} : WorkerEmits(r, sig)
    <2>1. UNCHANGED thread
      BY <1>6
      DEF ConnectionEstablished, ConnectionRecovered, ConnectionLost, CheckTimeOut, PeerDies,
          ReceiveOptions, StopReconstruction, StopReturns, DeliverSignal, WorkerEmits, workerVars
    <2> QED
      BY <1>g, <2>1, IdleStep
  <1> QED
    BY <1>g, <1>2, <1>3, <1>4, <1>5, <1>6 DEF PeerStep

LEMMA StepImplements ==
    ASSUME FreshKeys, ServiceInv, [Next]_vars
    PROVE  Implements
  <1>1. CASE UNCHANGED vars
    BY <1>1, IdleStep DEF vars, ListsKept, guiVars, runVars, peerVars, workerVars
  <1>2. CASE \/ \E r \in Runs : Launch(r) \/ Connect(r)
             \/ \E c \in Conns : LinkBreaks(c)
    BY <1>2, IdleStep
    DEF Launch, PeerStart, Connect, PeerConnect, ClientConnected, LinkBreaks, ListsKept,
        guiVars, runVars, peerVars, workerVars
  <1> QED
    BY <1>1, <1>2, UserImplements, PeerImplements, ServerImplements DEF Next

LEMMA InitImplements == Init => Lifecycle!LifecycleInit
  <1> SUFFICES ASSUME Init PROVE \A r \in Runs : StageOf(r) = "idle" /\ WorkOf(r) = "none"
    BY DEF Lifecycle!LifecycleInit
  <1>1. \A r \in Runs : key[r] = NoKey /\ thread[r] = "none"
    BY DEF Init, GuiInit, PeerInit
  <1>2. NoKey \notin keysToStart /\ NoKey \notin Listed(keysRunning)
    BY DEF Init, GuiInit, Listed
  <1> QED
    BY <1>1, <1>2 DEF StageOf, WorkOf, ThreadBusy

\* However runs, failures and message boxes interleave, each run goes through
\* its stages in order and once, and so does its reconstruction, which never
\* precedes the listing of the run (ProcessControl, RPCServer, RPCPeer).
THEOREM RunsImplementLifecycle == ASSUME FreshKeys PROVE Spec => ImplementsLifecycle
  <1>1. ServiceInv /\ [Next]_vars => ServiceInv'
    BY ServiceStep
  <1>2. ServiceInv /\ [Next]_vars => [Lifecycle!LifecycleNext]_(Lifecycle!lifecycleVars)
    BY StepImplements DEF Implements
  <1> QED
    BY ServiceInit, InitImplements, <1>1, <1>2, PTL
    DEF Spec, ImplementsLifecycle, Lifecycle!LifecycleSpec
=============================================================================
