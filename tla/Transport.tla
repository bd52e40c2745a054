----------------------------- MODULE Transport -----------------------------
(***************************************************************************)
(* The RPC transport, byte by byte: QxtRPCService with its serializer over *)
(* TCP connections, at the server (RPCServer) and at the peers (RPCPeer).  *)
(*                                                                         *)
(* A call is written as a frame: four bytes with the length of its body,   *)
(* then the body.  TCP hands over as many bytes as it likes at a time.     *)
(* What has been read is collected in a buffer, one per client at the      *)
(* server and one for all connections at a peer, and taken from it frame   *)
(* by frame.  A slot may spin an event loop (a message box,                *)
(* processEvents), in which everything else happens, the loss of the       *)
(* connection being read included; only the socket whose bytes are being   *)
(* handled is not read again (QAbstractSocket).                            *)
(***************************************************************************)
EXTENDS Integers, Sequences, FiniteSets, SequencesExt

CONSTANTS
    Peers,
    Calls,      \* names of calls
    Size,       \* bytes of the body of a call
    Spinning,   \* calls whose slot spins an event loop
    MaxConns,   \* bound on all connections
    MaxCalls    \* bound on the calls of all channels

ASSUME BoundAssumption == IsFiniteSet(Peers) /\ MaxConns \in Nat
ASSUME SizeAssumption == Size \in [Calls -> Nat \ {0}]
ASSUME SpinningAssumption == Spinning \subseteq Calls

HeaderLen == 4
Conns == Peers \X (1 .. MaxConns)
Channels == {"server", "peer"} \X Conns     \* who receives, over what
Nodes == {"server"} \cup Peers
NoDevice == <<>>

\* No peer is called "server" or like a connection.
ASSUME PeersAssumption == "server" \notin Peers /\ Peers \cap Conns = {}

VARIABLES
    caller,     \* who makes calls in this behaviour (bound)
    link,       \* state of each connection
    sent, got,  \* history of each channel: calls written, calls dispatched
    wire,       \* bytes of each channel not read yet
    clients,    \* of the server: connections it manages
    gone,       \* history: clients announced as disconnected
    device,     \* of each peer
    buffer,     \* buffers of the server, by connection, serverBuffer of each peer
    stack,      \* handlers of each node that are not through, innermost last
    hung        \* nodes that never return from canDeserialize

vars == <<caller, link, sent, got, wire, clients, gone, device, buffer, stack, hung>>
serverVars == <<clients, gone>>

Node(ch) == IF ch[1] = "server" THEN "server" ELSE ch[2][1]
Key(ch) == IF ch[1] = "server" THEN ch[2] ELSE ch[2][1]

\* A byte knows its channel, its call and its place in the frame.
Byte(ch, n, i) == [ch |-> ch, call |-> n, at |-> i]
Frame(ch, n, call) == [i \in 1 .. HeaderLen + Size[call] |-> Byte(ch, n, i)]
IsLast(b) == b.at = HeaderLen + Size[sent[b.ch][b.call]]

Used == {c \in Conns : link[c] # "unused"}
Without(f, key) == [k \in DOMAIN f \ {key} |-> f[k]]

\* The node turns its event loop, or one a slot has started.
Loops(n) ==
    /\ n \notin hung
    /\ stack[n] # <<>> => Last(stack[n]).spinning
Reading(n, ch) == \E k \in DOMAIN stack[n] : stack[n][k].ch = ch

Init ==
    /\ caller \in {"server", "peer"}
    /\ link = [c \in Conns |-> "unused"]
    /\ sent = [ch \in Channels |-> <<>>] /\ got = sent
    /\ wire = [ch \in Channels |-> <<>>]
    /\ clients = {} /\ gone = {}
    /\ device = [p \in Peers |-> NoDevice]
    /\ buffer = [p \in Peers |-> <<>>]
    /\ stack = [n \in Nodes |-> <<>>]
    /\ hung = {}

-----------------------------------------------------------------------------
(* Connections. *)

\* QxtRPCPeer::connect with a new socket.  The buffer stays as it is.  The timer
\* that does so again after a loss takes five seconds: longer than a processEvents.
Connect(p) ==
    /\ p \notin hung /\ stack[p] = <<>> /\ device[p] = NoDevice
    /\ Cardinality(Used) < MaxConns
    /\ LET c == <<p, Cardinality({u \in Used : u[1] = p}) + 1>>
       IN /\ link' = [link EXCEPT ![c] = "up"]
          /\ device' = [device EXCEPT ![p] = c]
    /\ UNCHANGED <<caller, sent, got, wire, serverVars, buffer, stack, hung>>

\* incomingConnection, addConnection, clientConnected.
Accept(c) ==
    /\ Loops("server") /\ c \in Used \ (clients \cup gone)
    /\ clients' = clients \cup {c}
    /\ buffer' = [k \in DOMAIN buffer \cup {c} |-> IF k = c THEN <<>> ELSE buffer[k]]
    /\ UNCHANGED <<caller, link, sent, got, wire, gone, device, stack, hung>>

\* The network fails, in the middle of a frame or not.
Break(c) ==
    /\ link[c] = "up"
    /\ link' = [link EXCEPT ![c] = "broken"]
    /\ \E n \in 0 .. Len(wire[<<"server", c>>]), m \in 0 .. Len(wire[<<"peer", c>>]) :
           wire' = [wire EXCEPT ![<<"server", c>>] = SubSeq(@, 1, n),
                                ![<<"peer", c>>] = SubSeq(@, 1, m)]
    /\ UNCHANGED <<caller, sent, got, serverVars, device, buffer, stack, hung>>

\* A socket is seen to be closed when it has been read to its end, or when a
\* write fails in an event loop one of its own slots spins.
Noticed(ch) ==
    /\ Loops(Node(ch)) /\ link[ch[2]] = "broken"
    /\ wire[ch] = <<>> \/ Reading(Node(ch), ch)

\* Mutant: the buffer is kept.
KeepingDisconnected(c) ==
    /\ c \in clients /\ Noticed(<<"server", c>>)
    /\ clients' = clients \ {c} /\ gone' = gone \cup {c}
    /\ wire' = [wire EXCEPT ![<<"server", c>>] = <<>>]
    /\ UNCHANGED <<caller, link, sent, got, device, buffer, stack, hung>>

\* socketDisconnected, disconnect, clientDisconnected.
ClientDisconnected(c) ==
    /\ c \in clients /\ Noticed(<<"server", c>>)
    /\ clients' = clients \ {c} /\ gone' = gone \cup {c}
    /\ buffer' = Without(buffer, c)
    /\ wire' = [wire EXCEPT ![<<"server", c>>] = <<>>]
    /\ UNCHANGED <<caller, link, sent, got, device, stack, hung>>

\* disconnectServer: the device goes, serverBuffer stays.
DisconnectServer(p) ==
    /\ device[p] # NoDevice /\ Noticed(<<"peer", device[p]>>)
    /\ device' = [device EXCEPT ![p] = NoDevice]
    /\ wire' = [wire EXCEPT ![<<"peer", device[p]>>] = <<>>]
    /\ UNCHANGED <<caller, link, sent, got, serverVars, buffer, stack, hung>>

-----------------------------------------------------------------------------
(* Calls. *)

\* Calls written in all.
Made == FoldSet(LAMBDA ch, n : n + Len(sent[ch]), 0, Channels)

\* serialize and write.
Write(S, call) ==
    /\ Made < MaxCalls
    /\ sent' = [ch \in Channels |-> IF ch \in S THEN Append(sent[ch], call) ELSE sent[ch]]
    /\ wire' = [ch \in Channels |-> IF ch \in S
                    THEN wire[ch] \o Frame(ch, Len(sent[ch]) + 1, call) ELSE wire[ch]]
    /\ UNCHANGED <<caller, link, got, serverVars, device, buffer, stack, hung>>

\* A peer calls its server; what is written to a broken link is lost.
PeerCall(p, call) ==
    /\ caller = "peer" /\ Loops(p)
    /\ device[p] # NoDevice /\ link[device[p]] = "up"
    /\ Write({<<"server", device[p]>>}, call)

\* The server calls the clients given; those that are not connected are skipped.
ServerCall(ids, call) ==
    /\ caller = "server" /\ Loops("server")
    /\ LET S == {<<"peer", c>> : c \in {k \in ids \cap clients : link[k] = "up"}}
       IN S # {} /\ Write(S, call)

-----------------------------------------------------------------------------
(* Reading. *)

\* clientData, serverData: first read what there is.
ReadyRead(ch) ==
    LET n == Node(ch) IN
    /\ Loops(n) /\ ~Reading(n, ch) /\ wire[ch] # <<>>
    /\ IF ch[1] = "server" THEN ch[2] \in clients ELSE device[n] = ch[2]
    /\ \E k \in 1 .. Len(wire[ch]) :
           /\ buffer' = [buffer EXCEPT ![Key(ch)] = @ \o SubSeq(wire[ch], 1, k)]
           /\ wire' = [wire EXCEPT ![ch] = SubSeq(@, k + 1, Len(@))]
    /\ stack' = [stack EXCEPT ![n] = Append(@, [ch |-> ch, spinning |-> FALSE])]
    /\ UNCHANGED <<caller, link, sent, got, serverVars, device, hung>>

\* The length a header stands for: that of its call if its bytes belong
\* together, else anything.
MaxSize == CHOOSE s \in {Size[call] : call \in Calls} : \A call \in Calls : Size[call] <= s
Belong(bytes) == \A i \in DOMAIN bytes : bytes[i] = [bytes[1] EXCEPT !.at = i]
Lengths(buf) ==
    LET header == SubSeq(buf, 1, HeaderLen) IN
    IF Belong(header) THEN {Size[sent[header[1].ch][header[1].call]]} ELSE 0 .. MaxSize

\* What deserialize takes: no more than there is.
Taken(buf, length) == SubSeq(buf, 1, Min({HeaderLen + length, Len(buf)}))
Sound(bytes) == Belong(bytes) /\ IsLast(Last(bytes))

HasHeader(key) == key \in DOMAIN buffer /\ Len(buffer[key]) >= HeaderLen

\* Mutant: the header is taken for a part of the body.
CountingHeader(buf, length) == length <= Len(buf)

\* canDeserialize, of a buffer that holds a header.
CanDeserialize(buf, length) == length <= Len(buf) - HeaderLen

Top(n) == Last(stack[n])
Handling(n) == n \notin hung /\ stack[n] # <<>> /\ ~Top(n).spinning
Spin(n, yes) == stack' = [stack EXCEPT ![n][Len(stack[n])].spinning = yes]
Pop(n) == stack' = [stack EXCEPT ![n] = Front(@)]

\* deserialize and dispatch the next frame.  Bytes that do not belong together
\* make a slot run with wrong arguments, a call nobody knows or a blank command.
Dispatch(n) ==
    LET ch == Top(n).ch
        buf == buffer[Key(ch)]
    IN /\ Handling(n) /\ HasHeader(Key(ch))
       /\ \E length \in Lengths(buf) :
              /\ CanDeserialize(buf, length)
              /\ buffer' = [buffer EXCEPT ![Key(ch)] =
                                SubSeq(@, HeaderLen + length + 1, Len(@))]
              /\ IF length > 0 /\ Sound(Taken(buf, length))
                 THEN LET call == sent[buf[1].ch][buf[1].call]
                      IN /\ got' = [got EXCEPT ![ch] = Append(@, call)]
                         /\ Spin(n, call \in Spinning)
                 ELSE /\ got' \in {got} \cup (IF length > 0
                             THEN {[got EXCEPT ![ch] = Append(@, "garbled")]} ELSE {})
                      /\ Spin(n, FALSE)
       /\ UNCHANGED <<caller, link, sent, wire, serverVars, device, hung>>

\* isProtocolError: only bytes that do not belong together cannot be taken apart.
\* At a server they never come to be (ImplementsCalls).
ProtocolError(p) ==
    LET buf == buffer[p] IN
    /\ Handling(p) /\ HasHeader(p) /\ device[p] # NoDevice
    /\ \E length \in Lengths(buf) \ {0} :
           /\ CanDeserialize(buf, length)
           /\ ~Sound(Taken(buf, length))
           /\ buffer' = [buffer EXCEPT ![p] = SubSeq(@, HeaderLen + length + 1, Len(@))]
    /\ device' = [device EXCEPT ![p] = NoDevice]
    /\ link' = [link EXCEPT ![device[p]] = "broken"]
    /\ wire' = [wire EXCEPT ![<<"peer", device[p]>>] = <<>>]
    /\ Pop(p)
    /\ UNCHANGED <<caller, sent, got, serverVars, hung>>

\* Nothing more to take, or the client is gone.
MayReturn(ch) ==
    HasHeader(Key(ch)) =>
        \E length \in Lengths(buffer[Key(ch)]) : ~CanDeserialize(buffer[Key(ch)], length)

\* Mutant: one frame at a time.
ReturnAfterOne(n) ==
    /\ Handling(n)
    /\ got[Top(n).ch] = <<>> => MayReturn(Top(n).ch)
    /\ Pop(n)
    /\ UNCHANGED <<caller, link, sent, got, wire, serverVars, device, buffer, hung>>

\* The loop of clientData or serverData ends.
Return(n) ==
    /\ Handling(n)
    /\ MayReturn(Top(n).ch)
    /\ Pop(n)
    /\ UNCHANGED <<caller, link, sent, got, wire, serverVars, device, buffer, hung>>

\* canDeserialize reads four bytes of a buffer that holds one or two: if what
\* lies behind makes a negative number, it is less than the length of the body,
\* deserialize leaves the buffer as it is and the loop never ends.
Hang(n) ==
    /\ Handling(n) /\ Key(Top(n).ch) \in DOMAIN buffer
    /\ Len(buffer[Key(Top(n).ch)]) \in {1, 2}
    /\ hung' = hung \cup {n}
    /\ UNCHANGED <<caller, link, sent, got, wire, serverVars, device, buffer, stack>>

\* The event loop of the slot ends: the box is closed.
CloseBox(n) ==
    /\ n \notin hung /\ stack[n] # <<>> /\ Top(n).spinning
    /\ Spin(n, FALSE)
    /\ UNCHANGED <<caller, link, sent, got, wire, serverVars, device, buffer, hung>>

-----------------------------------------------------------------------------
Handle(n) == Dispatch(n) \/ Return(n)

Next ==
    \/ \E p \in Peers : \/ Connect(p) \/ DisconnectServer(p) \/ ProtocolError(p)
                        \/ \E call \in Calls : PeerCall(p, call)
    \/ \E c \in Conns : Accept(c) \/ Break(c) \/ ClientDisconnected(c)
    \/ \E ids \in {clients} \cup {{c} : c \in Conns}, call \in Calls : ServerCall(ids, call)
    \/ \E ch \in Channels : ReadyRead(ch)
    \/ \E n \in Nodes : Handle(n) \/ Hang(n) \/ CloseBox(n)

\* Sockets that can be read are, handlers go on and boxes are closed.
Fairness ==
    /\ \A c \in Conns : SF_vars(Accept(c))
    /\ \A ch \in Channels : SF_vars(ReadyRead(ch))
    /\ \A n \in Nodes : WF_vars(Handle(n)) /\ WF_vars(CloseBox(n))

Spec == Init /\ [][Next]_vars /\ Fairness

-----------------------------------------------------------------------------
TypeOK ==
    /\ caller \in {"server", "peer"}
    /\ link \in [Conns -> {"unused", "up", "broken"}]
    /\ sent \in [Channels -> Seq(Calls)]
    /\ DOMAIN got = Channels
    /\ clients \subseteq Used \ gone /\ gone \subseteq Used
    /\ device \in [Peers -> Conns \cup {NoDevice}]
    /\ DOMAIN buffer = clients \cup Peers
    /\ DOMAIN stack = Nodes /\ hung \subseteq Nodes

\* The channels whose receiver starts with an empty buffer: all that lead to
\* the server, and the first to each peer.
FreshChannels == {ch \in Channels : ch[1] = "server" \/ ch[2][2] = 1}

\* Calls all of whose bytes can still come.
Bytes(ch) ==
    (IF Key(ch) \in DOMAIN buffer THEN buffer[Key(ch)] ELSE <<>>) \o wire[ch]
Whole(ch) ==
    LET bytes == Bytes(ch)
    IN Cardinality({i \in DOMAIN bytes : bytes[i].ch = ch /\ IsLast(bytes[i])})
Pending(ch) ==
    SubSeq(sent[ch], Len(got[ch]) + 1, Min({Len(got[ch]) + Whole(ch), Len(sent[ch])}))

\* However TCP cuts the bytes, whatever the slots do and wherever the link
\* breaks, calls arrive whole, once and in order; those cut off are lost with all
\* that follow (clientData, serverData, canDeserialize, deserialize).
Queue == INSTANCE CallQueue WITH
    Channels <- FreshChannels,
    open <- [ch \in FreshChannels |-> link[ch[2]] = "up"],
    pending <- [ch \in FreshChannels |-> Pending(ch)],
    delivered <- [ch \in FreshChannels |-> got[ch]]
ImplementsCalls == Queue!QueueSpec

\* RPCServer is never called by a client it was told is gone, although the
\* client may go while one of its calls is handled (clientData tests
\* buffers.contains).
NothingFromTheGone ==
    [][\A c \in gone : got'[<<"server", c>>] = got[<<"server", c>>]]_vars

\* A call gets there as long as the link holds: it is not left in the buffer
\* because nothing follows it (clientData, serverData).
CallsGetThrough ==
    \A ch \in FreshChannels :
        []<>(link[ch[2]] # "up" \/ Node(ch) \in hung \/ Pending(ch) = <<>>)

\* "The signal is subsequently re-emitted on the receiving end of the
\* connection": what a peer dispatches was sent to it on this connection
\* (serverData).
PeersGetWhatWasSent ==
    \A c \in Conns : IsPrefix(got[<<"peer", c>>], sent[<<"peer", c>>])
=============================================================================
