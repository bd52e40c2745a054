-------------------------- MODULE Transport_proofs --------------------------
(***************************************************************************)
(* Proofs about Transport, for any number of peers, connections and calls  *)
(* and any size of them.                                                   *)
(***************************************************************************)
EXTENDS Transport, FiniteSetTheorems, SequenceTheorems, TLAPS

ServerType ==
    /\ clients \subseteq Conns /\ gone \subseteq Conns
    /\ clients \cap gone = {}
    /\ DOMAIN buffer = clients \cup Peers

\* A client that is gone has no buffer, so nothing is taken from one.
GoneInv == ServerType /\ DOMAIN got = Channels

LEMMA ChannelOf ==
    ASSUME NEW c \in Conns
    PROVE  <<"server", c>> \in Channels /\ Key(<<"server", c>>) = c /\ c \notin Peers
  BY PeersAssumption DEF Channels, Key, Conns

LEMMA GoneInit == Init => GoneInv
  BY DEF Init, GoneInv, ServerType

\* What a dispatch adds, it adds to the channel being handled.
LEMMA DispatchGot ==
    ASSUME GoneInv, NEW n \in Nodes, Dispatch(n)
    PROVE  /\ DOMAIN got' = Channels
           /\ \A ch \in Channels \ {Top(n).ch} : got'[ch] = got[ch]
           /\ DOMAIN buffer' = DOMAIN buffer
  BY DEF Dispatch, GoneInv

LEMMA GoneStep == GoneInv /\ [Next]_vars => GoneInv'
  <1> SUFFICES ASSUME GoneInv, [Next]_vars
               PROVE  GoneInv'
    OBVIOUS
  <1> USE DEF GoneInv, ServerType
  <1>1. ASSUME NEW p \in Peers, Connect(p) \/ DisconnectServer(p) \/ ProtocolError(p)
        PROVE  GoneInv'
    BY <1>1 DEF Connect, DisconnectServer, ProtocolError, serverVars
  <1>2. ASSUME NEW p \in Peers, NEW call \in Calls, PeerCall(p, call)
        PROVE  GoneInv'
    BY <1>2 DEF PeerCall, Write, serverVars
  <1>3. ASSUME NEW c \in Conns, Accept(c)
        PROVE  GoneInv'
    BY <1>3 DEF Accept, Used
  <1>4. ASSUME NEW c \in Conns, Break(c)
        PROVE  GoneInv'
    BY <1>4 DEF Break, serverVars
  <1>5. ASSUME NEW c \in Conns, ClientDisconnected(c)
        PROVE  GoneInv'
    BY <1>5, ChannelOf DEF ClientDisconnected, Without
  <1>6. ASSUME NEW ids, NEW call \in Calls, ServerCall(ids, call)
        PROVE  GoneInv'
    BY <1>6 DEF ServerCall, Write, serverVars
  <1>7. ASSUME NEW ch \in Channels, ReadyRead(ch)
        PROVE  GoneInv'
    BY <1>7 DEF ReadyRead, serverVars
  <1>8. ASSUME NEW n \in Nodes, Dispatch(n)
        PROVE  GoneInv'
    BY <1>8, DispatchGot DEF Dispatch, serverVars
  <1>9. ASSUME NEW n \in Nodes, Return(n) \/ Hang(n) \/ CloseBox(n)
        PROVE  GoneInv'
    BY <1>9 DEF Return, Hang, CloseBox, serverVars
  <1>10. CASE UNCHANGED vars
    BY <1>10 DEF vars
  <1> QED
    BY <1>1, <1>2, <1>3, <1>4, <1>5, <1>6, <1>7, <1>8, <1>9, <1>10 DEF Next, Handle

LEMMA GotOfTheGone ==
    GoneInv /\ [Next]_vars => \A c \in gone : got'[<<"server", c>>] = got[<<"server", c>>]
  <1> SUFFICES ASSUME GoneInv, [Next]_vars, NEW c \in gone
               PROVE  got'[<<"server", c>>] = got[<<"server", c>>]
    OBVIOUS
  <1>1. c \in Conns /\ c \notin DOMAIN buffer
    BY PeersAssumption DEF GoneInv, ServerType, Conns
  <1>2. ASSUME NEW n \in Nodes, Dispatch(n)
        PROVE  got'[<<"server", c>>] = got[<<"server", c>>]
    <2>1. Key(Top(n).ch) \in DOMAIN buffer
      BY <1>2 DEF Dispatch, HasHeader
    <2>2. Top(n).ch # <<"server", c>>
      BY <2>1, <1>1, ChannelOf
    <2> QED
      BY <1>1, <1>2, <2>2, ChannelOf, DispatchGot
  <1>3. ASSUME UNCHANGED got
        PROVE  got'[<<"server", c>>] = got[<<"server", c>>]
    BY <1>3
  <1>4. (\E n \in Nodes : Dispatch(n)) \/ UNCHANGED got
    BY DEF Next, vars, Handle, Connect, DisconnectServer, ProtocolError, PeerCall, Write,
           Accept, Break, ClientDisconnected, ServerCall, ReadyRead, Return, Hang, CloseBox
  <1> QED
    BY <1>2, <1>3, <1>4

\* RPCServer is never called by a client it was told is gone, however many
\* there are and whatever its slots spin in between (clientData).
THEOREM GoneStayGone == Spec => NothingFromTheGone
  <1>1. GoneInv /\ [Next]_vars =>
            [\A c \in gone : got'[<<"server", c>>] = got[<<"server", c>>]]_vars
    BY GotOfTheGone
  <1> QED
    BY GoneInit, GoneStep, <1>1, PTL DEF Spec, NothingFromTheGone

----------------------------------------------------------------------------
(* Types.                                                                  *)

LEMMA ConnsFinite == IsFiniteSet(Conns)
  <1>1. IsFiniteSet(1 .. MaxConns)
    BY BoundAssumption, FS_Interval
  <1> QED
    BY <1>1, BoundAssumption, FS_Product DEF Conns

\* The number of the next connection of a peer is within the bound.
LEMMA NextConn ==
    ASSUME NEW p \in Peers, Cardinality(Used) < MaxConns
    PROVE  <<p, Cardinality({u \in Used : u[1] = p}) + 1>> \in Conns
  <1> DEFINE Mine == {u \in Used : u[1] = p}
  <1>1. IsFiniteSet(Used)
    BY ConnsFinite, FS_Subset DEF Used
  <1>2. IsFiniteSet(Mine) /\ Cardinality(Mine) <= Cardinality(Used)
    BY <1>1, FS_Subset
  <1>3. Cardinality(Mine) \in Nat /\ Cardinality(Used) \in Nat
    BY <1>1, <1>2, FS_CardinalityType
  <1>4. Cardinality(Mine) + 1 \in 1 .. MaxConns
    BY <1>2, <1>3, BoundAssumption
  <1> HIDE DEF Mine
  <1>5. <<p, Cardinality(Mine) + 1>> \in Conns
    BY <1>4 DEF Conns
  <1> QED
    BY <1>5 DEF Mine

LEMMA TypeInit == Init => TypeOK
  BY DEF Init, TypeOK, Used

LEMMA TypeWrite ==
    ASSUME TypeOK, NEW S, NEW call \in Calls, Write(S, call)
    PROVE  TypeOK'
  <1>1. sent' \in [Channels -> Seq(Calls)]
    BY DEF Write, TypeOK
  <1> QED
    BY <1>1 DEF Write, TypeOK, serverVars, Used

LEMMA TypeStep == TypeOK /\ [Next]_vars => TypeOK'
  <1> SUFFICES ASSUME TypeOK, [Next]_vars
               PROVE  TypeOK'
    OBVIOUS
  <1> USE DEF TypeOK, Used
  <1>1. ASSUME NEW p \in Peers, Connect(p)
        PROVE  TypeOK'
    <2> DEFINE c == <<p, Cardinality({u \in Used : u[1] = p}) + 1>>
    <2>1. c \in Conns
      BY <1>1, NextConn DEF Connect
    <2> HIDE DEF c
    <2>2. link' = [link EXCEPT ![c] = "up"] /\ device' = [device EXCEPT ![p] = c]
      BY <1>1 DEF Connect, c
    <2>3. /\ link' \in [Conns -> {"unused", "up", "broken"}]
          /\ device' \in [Peers -> Conns \cup {NoDevice}]
          /\ Used \subseteq Used'
      BY <2>1, <2>2
    <2>4. UNCHANGED <<caller, sent, got, clients, gone, buffer, stack, hung>>
      BY <1>1 DEF Connect, serverVars
    <2> QED
      BY <2>3, <2>4
  <1>2. ASSUME NEW p \in Peers, DisconnectServer(p)
        PROVE  TypeOK'
    BY <1>2 DEF DisconnectServer, serverVars
  <1>3. ASSUME NEW p \in Peers, ProtocolError(p)
        PROVE  TypeOK'
    <2>1. /\ link' = [link EXCEPT ![device[p]] = "broken"]
          /\ device' = [device EXCEPT ![p] = NoDevice]
          /\ DOMAIN buffer' = DOMAIN buffer /\ DOMAIN stack' = DOMAIN stack
          /\ UNCHANGED <<caller, sent, got, serverVars, hung>>
      BY <1>3 DEF ProtocolError, Pop
    <2>2. link' \in [Conns -> {"unused", "up", "broken"}] /\ Used \subseteq Used'
      BY <2>1
    <2> QED
      BY <2>1, <2>2 DEF serverVars
  <1>4. ASSUME NEW p \in Peers, NEW call \in Calls, PeerCall(p, call)
        PROVE  TypeOK'
    BY <1>4, TypeWrite DEF PeerCall
  <1>5. ASSUME NEW c \in Conns, Accept(c)
        PROVE  TypeOK'
    BY <1>5 DEF Accept
  <1>6. ASSUME NEW c \in Conns, Break(c)
        PROVE  TypeOK'
    <2>1. Used \subseteq Used'
      BY <1>6 DEF Break
    <2> QED
      BY <1>6, <2>1 DEF Break, serverVars
  <1>7. ASSUME NEW c \in Conns, ClientDisconnected(c)
        PROVE  TypeOK'
    <2>1. c \notin Peers
      BY ChannelOf
    <2> QED
      BY <1>7, <2>1 DEF ClientDisconnected, Without
  <1>8. ASSUME NEW ids, NEW call \in Calls, ServerCall(ids, call)
        PROVE  TypeOK'
    BY <1>8, TypeWrite DEF ServerCall
  <1>9. ASSUME NEW ch \in Channels, ReadyRead(ch)
        PROVE  TypeOK'
    BY <1>9 DEF ReadyRead, serverVars
  <1>10. ASSUME NEW n \in Nodes, Dispatch(n)
        PROVE  TypeOK'
    <2>1. DOMAIN stack' = DOMAIN stack
      BY <1>10 DEF Dispatch, Spin
    <2>2. DOMAIN got' = DOMAIN got /\ DOMAIN buffer' = DOMAIN buffer
      BY <1>10 DEF Dispatch
    <2> QED
      BY <1>10, <2>1, <2>2 DEF Dispatch, serverVars
  <1>11. ASSUME NEW n \in Nodes, Return(n) \/ Hang(n) \/ CloseBox(n)
        PROVE  TypeOK'
    BY <1>11 DEF Return, Hang, CloseBox, Spin, Pop, serverVars
  <1>12. CASE UNCHANGED vars
    BY <1>12 DEF vars
  <1> QED
    BY <1>1, <1>2, <1>3, <1>4, <1>5, <1>6, <1>7, <1>8, <1>9, <1>10, <1>11, <1>12
    DEF Next, Handle

\* The variables have their types, and the server has a buffer for each client
\* it manages and for no other.
THEOREM TypeCorrect == Spec => []TypeOK
  BY TypeInit, TypeStep, PTL DEF Spec

----------------------------------------------------------------------------
(* The bytes of a channel: the frames of the calls not dispatched yet, one *)
(* behind the other, as far as they have not been cut off.  start[k] bytes *)
(* lead up to the end of the frame of call k.                              *)

ByteSet == [ch : Channels, call : Nat, at : Nat]

FrameLen(call) == HeaderLen + Size[call]

Starts(S, g, start) ==
    /\ g \in 0 .. Len(S)
    /\ start \in [g .. Len(S) -> Nat] /\ start[g] = 0
    /\ \A k \in g + 1 .. Len(S) : start[k] = start[k - 1] + FrameLen(S[k])
    /\ \A j, k \in g .. Len(S) : j < k => start[j] < start[k]

Layout(ch, S, g, start, B) ==
    /\ Starts(S, g, start)
    /\ Len(B) <= start[Len(S)]
    /\ \A i \in 1 .. Len(B) :
           /\ B[i].ch = ch /\ B[i].call \in g + 1 .. Len(S)
           /\ B[i].at \in 1 .. FrameLen(S[B[i].call])
           /\ i = start[B[i].call - 1] + B[i].at

\* The calls all of whose bytes are there, and their last bytes.
WholeCalls(S, g, start, B) == {k \in g + 1 .. Len(S) : start[k] <= Len(B)}
LastBytes(ch, S, B) ==
    {i \in 1 .. Len(B) : B[i].ch = ch /\ B[i].at = FrameLen(S[B[i].call])}

LEMMA FrameLength ==
    ASSUME NEW call \in Calls
    PROVE  FrameLen(call) \in Nat /\ FrameLen(call) > HeaderLen /\ HeaderLen = 4
  BY SizeAssumption DEF FrameLen, HeaderLen

\* Where the byte at place i is in the frame of its call.
InFrame(ch, S, g, start, b, i) ==
    /\ g \in Nat /\ g < Len(S) /\ g + 1 \in g + 1 .. Len(S)
    /\ b.ch = ch /\ b.call \in g + 1 .. Len(S)
    /\ b.call - 1 \in g .. Len(S) /\ S[b.call] \in Calls
    /\ start[b.call - 1] < i /\ i <= start[b.call]
    /\ start[b.call - 1] \in Nat /\ start[b.call] \in Nat
    /\ b.at = FrameLen(S[b.call]) <=> i = start[b.call]

LEMMA CallOfByte ==
    ASSUME NEW ch, NEW S \in Seq(Calls), NEW g, NEW start, NEW B \in Seq(ByteSet),
           Layout(ch, S, g, start, B)
    PROVE  \A i \in 1 .. Len(B) : InFrame(ch, S, g, start, B[i], i)
  <1> SUFFICES ASSUME NEW i \in 1 .. Len(B)
               PROVE  InFrame(ch, S, g, start, B[i], i)
    OBVIOUS
  <1> DEFINE k == B[i].call
             a == B[i].at
  <1>1. /\ k \in g + 1 .. Len(S) /\ a \in 1 .. FrameLen(S[k]) /\ i = start[k - 1] + a
        /\ B[i].ch = ch
        /\ g \in 0 .. Len(S) /\ start \in [g .. Len(S) -> Nat]
        /\ start[k] = start[k - 1] + FrameLen(S[k])
    BY DEF Layout, Starts
  <1> HIDE DEF k, a
  <1>2. /\ g \in Nat /\ g < Len(S) /\ g + 1 \in g + 1 .. Len(S) /\ k \in 1 .. Len(S)
        /\ k - 1 \in g .. Len(S) /\ k \in g .. Len(S)
    BY <1>1
  <1>3. S[k] \in Calls /\ start[k - 1] \in Nat /\ start[k] \in Nat
    <2>1. S[k] \in Calls
      BY <1>2, ElementOfSeq
    <2>2. start[k - 1] \in Nat /\ start[k] \in Nat
      BY <1>1, <1>2
    <2> QED
      BY <2>1, <2>2
  <1>4. FrameLen(S[k]) \in Nat
    BY <1>3, FrameLength
  <1>5. /\ start[k - 1] < i /\ i <= start[k]
        /\ a = FrameLen(S[k]) <=> i = start[k]
    BY <1>1, <1>3, <1>4
  <1> QED
    BY <1>1, <1>2, <1>3, <1>5 DEF k, a, InFrame

\* The byte at the end of a frame.
LEMMA EndOfFrame ==
    ASSUME NEW ch, NEW S \in Seq(Calls), NEW g, NEW start, NEW B \in Seq(ByteSet),
           Layout(ch, S, g, start, B), NEW k \in WholeCalls(S, g, start, B)
    PROVE  start[k] \in 1 .. Len(B) /\ B[start[k]].call = k
  <1>1. /\ k \in g + 1 .. Len(S) /\ start[k] <= Len(B)
        /\ g \in 0 .. Len(S) /\ start \in [g .. Len(S) -> Nat] /\ start[g] = 0
        /\ \A j, l \in g .. Len(S) : j < l => start[j] < start[l]
    BY DEF WholeCalls, Layout, Starts
  <1>2. k \in g .. Len(S) /\ g \in g .. Len(S) /\ g < k
    BY <1>1
  <1>3. start[k] \in Nat /\ start[g] < start[k]
    BY <1>1, <1>2
  <1>4. start[k] \in 1 .. Len(B)
    BY <1>1, <1>3
  <1>5. PICK i \in 1 .. Len(B) : i = start[k]
    BY <1>4
  <1>a. PICK l : l = B[i].call
    OBVIOUS
  <1>b. /\ l \in g + 1 .. Len(S) /\ start[l - 1] < i /\ i <= start[l]
        /\ start[l - 1] \in Nat /\ start[l] \in Nat
    <2>1. InFrame(ch, S, g, start, B[i], i)
      BY CallOfByte
    <2> QED
      BY <1>a, <2>1 DEF InFrame
  <1>6. /\ l \in g + 1 .. Len(S) /\ start[l - 1] < start[k] /\ start[k] <= start[l]
        /\ start[l - 1] \in Nat /\ start[l] \in Nat
    BY <1>b, <1>5
  <1>7. l - 1 \in g .. Len(S) /\ l \in g .. Len(S) /\ l \in Int /\ k \in Int
    BY <1>1, <1>6
  <1>8. ~(k <= l - 1)
    <2>1. k < l - 1 => start[k] < start[l - 1]
      BY <1>1, <1>2, <1>7
    <2> QED
      BY <2>1, <1>3, <1>6, <1>7
  <1>9. ~(l < k)
    <2>1. l < k => start[l] < start[k]
      BY <1>1, <1>2, <1>7
    <2> QED
      BY <2>1, <1>3, <1>6
  <1> QED
    BY <1>4, <1>5, <1>a, <1>7, <1>8, <1>9

\* There are as many whole calls as there are last bytes.
LEMMA CountWhole ==
    ASSUME NEW ch, NEW S \in Seq(Calls), NEW g, NEW start, NEW B \in Seq(ByteSet),
           Layout(ch, S, g, start, B)
    PROVE  /\ IsFiniteSet(WholeCalls(S, g, start, B))
           /\ Cardinality(LastBytes(ch, S, B)) = Cardinality(WholeCalls(S, g, start, B))
  <1> DEFINE K == WholeCalls(S, g, start, B)
             L == LastBytes(ch, S, B)
             f == [k \in K |-> start[k]]
  <1>1. IsFiniteSet(K)
    <2>1. g \in Nat /\ Len(S) \in Nat
      BY DEF Layout, Starts
    <2>2. IsFiniteSet(g + 1 .. Len(S))
      BY <2>1, FS_Interval
    <2>3. K \in SUBSET (g + 1 .. Len(S))
      BY DEF WholeCalls
    <2> HIDE DEF K
    <2> QED
      BY <2>2, <2>3, FS_Subset
  <1>2. \A k \in K : start[k] \in L
    <2> SUFFICES ASSUME NEW k \in K PROVE start[k] \in L
      OBVIOUS
    <2>1. start[k] \in 1 .. Len(B) /\ B[start[k]].call = k
      BY EndOfFrame
    <2>2. PICK i \in 1 .. Len(B) : i = start[k]
      BY <2>1
    <2>3. B[i].ch = ch /\ (B[i].at = FrameLen(S[B[i].call]) <=> i = start[B[i].call])
      <3>1. InFrame(ch, S, g, start, B[i], i)
        BY CallOfByte
      <3> QED
        BY <3>1 DEF InFrame
    <2> QED
      BY <2>1, <2>2, <2>3 DEF LastBytes
  <1>3. \A i \in L : B[i].call \in K /\ i = start[B[i].call]
    <2> SUFFICES ASSUME NEW i \in L PROVE B[i].call \in K /\ i = start[B[i].call]
      OBVIOUS
    <2>1. PICK j \in 1 .. Len(B) : j = i
      BY DEF LastBytes
    <2>2. B[j].at = FrameLen(S[B[j].call])
      BY <2>1 DEF LastBytes
    <2>3. /\ B[j].call \in g + 1 .. Len(S)
          /\ B[j].at = FrameLen(S[B[j].call]) <=> j = start[B[j].call]
      <3>1. InFrame(ch, S, g, start, B[j], j)
        BY CallOfByte
      <3> QED
        BY <3>1 DEF InFrame
    <2> QED
      BY <2>1, <2>2, <2>3 DEF WholeCalls
  <1>4. \A k \in K : B[start[k]].call = k
    BY EndOfFrame
  <1> HIDE DEF K, L
  <1>5. f \in [K -> L]
    BY <1>2
  <1>6. \A j, k \in K : f[j] = f[k] => j = k
    BY <1>4
  <1>7. \A i \in L : \E k \in K : f[k] = i
    BY <1>3
  <1>8. ExistsBijection(K, L)
    BY <1>5, <1>6, <1>7 DEF ExistsBijection, Bijection, Injection, Surjection, IsInjective
  <1>9. Cardinality(L) = Cardinality(K)
    BY <1>1, <1>8, FS_Bijection
  <1> QED
    BY <1>1, <1>9 DEF K, L

\* When nothing is cut off, all calls are whole.
LEMMA AllWhole ==
    ASSUME NEW ch, NEW S \in Seq(Calls), NEW g, NEW start, NEW B \in Seq(ByteSet),
           Layout(ch, S, g, start, B)
    PROVE  /\ Cardinality(WholeCalls(S, g, start, B)) \in 0 .. Len(S) - g
           /\ Len(B) = start[Len(S)] =>
                  Cardinality(WholeCalls(S, g, start, B)) = Len(S) - g
  <1> DEFINE K == WholeCalls(S, g, start, B)
  <1>1. /\ g \in 0 .. Len(S) /\ start \in [g .. Len(S) -> Nat]
        /\ \A j, k \in g .. Len(S) : j < k => start[j] < start[k]
    BY DEF Layout, Starts
  <1>2. /\ IsFiniteSet(g + 1 .. Len(S)) /\ Cardinality(g + 1 .. Len(S)) = Len(S) - g
    <2>1. g + 1 \in Int /\ Len(S) \in Int
      BY <1>1
    <2>2. /\ IsFiniteSet(g + 1 .. Len(S))
          /\ Cardinality(g + 1 .. Len(S))
                 = IF g + 1 > Len(S) THEN 0 ELSE Len(S) - (g + 1) + 1
      BY <2>1, FS_Interval
    <2> QED
      BY <1>1, <2>2
  <1>3. K \in SUBSET (g + 1 .. Len(S))
    BY DEF WholeCalls
  <1>4. Len(B) = start[Len(S)] => K = g + 1 .. Len(S)
    <2>1. SUFFICES ASSUME Len(B) = start[Len(S)], NEW k \in g + 1 .. Len(S)
                   PROVE  start[k] <= Len(B)
      BY DEF WholeCalls
    <2>2. k \in g .. Len(S) /\ Len(S) \in g .. Len(S)
      BY <1>1
    <2>3. k = Len(S) \/ k < Len(S)
      BY <2>2
    <2>4. start[k] \in Nat /\ start[Len(S)] \in Nat
      BY <1>1, <2>2
    <2> QED
      BY <1>1, <2>1, <2>2, <2>3, <2>4
  <1> HIDE DEF K
  <1>5. IsFiniteSet(K) /\ Cardinality(K) <= Cardinality(g + 1 .. Len(S))
    BY <1>2, <1>3, FS_Subset
  <1>6. Cardinality(K) \in Nat
    BY <1>5, FS_CardinalityType
  <1>7. Cardinality(K) \in 0 .. Len(S) - g
    BY <1>1, <1>2, <1>5, <1>6
  <1> QED
    BY <1>2, <1>4, <1>7 DEF K

\* The first bytes are those of the first frame.
LEMMA FirstFrame ==
    ASSUME NEW ch, NEW S \in Seq(Calls), NEW g, NEW start, NEW B \in Seq(ByteSet),
           Layout(ch, S, g, start, B), B # <<>>
    PROVE  /\ g \in Nat /\ g < Len(S) /\ S[g + 1] \in Calls
           /\ start[g + 1] = FrameLen(S[g + 1])
           /\ \A i \in 1 .. Len(B) :
                  i <= FrameLen(S[g + 1]) => B[i] = Byte(ch, g + 1, i)
  <1>1. /\ g \in 0 .. Len(S) /\ start \in [g .. Len(S) -> Nat] /\ start[g] = 0
        /\ \A k \in g + 1 .. Len(S) : start[k] = start[k - 1] + FrameLen(S[k])
        /\ \A j, k \in g .. Len(S) : j < k => start[j] < start[k]
    BY DEF Layout, Starts
  <1>2. g \in Nat /\ g < Len(S) /\ g + 1 \in g + 1 .. Len(S)
    <2>1. 1 \in 1 .. Len(B)
      OBVIOUS
    <2>2. InFrame(ch, S, g, start, B[1], 1)
      BY <2>1, CallOfByte
    <2> QED
      BY <2>2 DEF InFrame
  <1>3. S[g + 1] \in Calls /\ FrameLen(S[g + 1]) \in Nat
    BY <1>2, FrameLength
  <1>4. start[g + 1] = FrameLen(S[g + 1])
    <2>1. start[g + 1] = start[g + 1 - 1] + FrameLen(S[g + 1]) /\ g + 1 - 1 = g
      BY <1>1, <1>2
    <2> QED
      BY <2>1, <1>1, <1>3
  <1>5. ASSUME NEW i \in 1 .. Len(B), i <= FrameLen(S[g + 1])
        PROVE  B[i] = Byte(ch, g + 1, i)
    <2>1. PICK k : k = B[i].call
      OBVIOUS
    <2>2. /\ B[i].ch = ch /\ k \in g + 1 .. Len(S) /\ k - 1 \in g .. Len(S)
          /\ start[k - 1] < i /\ start[k - 1] \in Nat
      <3>1. InFrame(ch, S, g, start, B[i], i)
        BY CallOfByte
      <3> QED
        BY <2>1, <3>1 DEF InFrame
    <2>3. ~(g + 1 < k)
      <3>1. SUFFICES ASSUME g + 1 < k PROVE FALSE
        OBVIOUS
      <3>2. g + 1 = k - 1 \/ g + 1 < k - 1
        BY <1>2, <2>2, <3>1
      <3>3. g + 1 \in g .. Len(S)
        BY <1>2
      <3>4. start[g + 1] = start[k - 1] \/ start[g + 1] < start[k - 1]
        BY <1>1, <2>2, <3>2, <3>3
      <3> QED
        BY <1>3, <1>4, <1>5, <2>2, <3>4
    <2>4. k = g + 1
      BY <1>2, <2>2, <2>3
    <2>5. i = start[g] + B[i].at /\ B[i].at \in Int
      <3>1. i = start[k - 1] + B[i].at /\ B[i] \in ByteSet
        BY <2>1 DEF Layout
      <3> QED
        BY <2>4, <3>1, <1>2 DEF ByteSet
    <2>6. B[i].at = i
      BY <2>5, <1>1
    <2>7. B[i] \in ByteSet
      OBVIOUS
    <2> QED
      BY <2>1, <2>2, <2>4, <2>6, <2>7 DEF ByteSet, Byte
  <1> QED
    BY <1>2, <1>3, <1>4, <1>5

\* Bytes are cut off at the end.
LEMMA CutLayout ==
    ASSUME NEW ch, NEW S \in Seq(Calls), NEW g, NEW start, NEW B \in Seq(ByteSet),
           Layout(ch, S, g, start, B), NEW n \in 0 .. Len(B)
    PROVE  /\ Layout(ch, S, g, start, SubSeq(B, 1, n))
           /\ WholeCalls(S, g, start, SubSeq(B, 1, n)) \subseteq WholeCalls(S, g, start, B)
  <1> DEFINE C == SubSeq(B, 1, n)
  <1>1. C \in Seq(ByteSet) /\ Len(C) = n /\ \A i \in 1 .. n : C[i] = B[i]
    OBVIOUS
  <1>2. start[Len(S)] \in Nat
    BY DEF Layout, Starts
  <1> HIDE DEF C
  <1>3. Layout(ch, S, g, start, C)
    <2>1. Starts(S, g, start) /\ Len(B) <= start[Len(S)] /\ Len(B) \in Nat
      BY DEF Layout
    <2>2. Len(C) <= start[Len(S)]
      BY <1>1, <1>2, <2>1
    <2>3. ASSUME NEW i \in 1 .. Len(C)
          PROVE  /\ C[i].ch = ch /\ C[i].call \in g + 1 .. Len(S)
                 /\ C[i].at \in 1 .. FrameLen(S[C[i].call])
                 /\ i = start[C[i].call - 1] + C[i].at
      <3>1. i \in 1 .. Len(B) /\ C[i] = B[i]
        BY <1>1, <2>1
      <3> QED
        BY <3>1 DEF Layout
    <2> QED
      BY <2>1, <2>2, <2>3 DEF Layout
  <1>4. ASSUME NEW k \in WholeCalls(S, g, start, C)
        PROVE  k \in WholeCalls(S, g, start, B)
    <2>1. k \in g + 1 .. Len(S) /\ start[k] <= n
      BY <1>1 DEF WholeCalls
    <2>2. start[k] \in Nat
      BY <2>1 DEF Layout, Starts
    <2> QED
      BY <2>1, <2>2 DEF WholeCalls
  <1> QED
    BY <1>3, <1>4 DEF C

LEMMA Concat ==
    ASSUME NEW X, NEW s \in Seq(X), NEW t \in Seq(X)
    PROVE  /\ s \o t \in Seq(X) /\ Len(s \o t) = Len(s) + Len(t)
           /\ \A i \in 1 .. Len(s) : (s \o t)[i] = s[i]
           /\ \A i \in 1 .. Len(s) + Len(t) :
                  i \in 1 .. Len(s) \/ (i - Len(s) \in 1 .. Len(t) /\ (s \o t)[i] = t[i - Len(s)])
  OBVIOUS

LEMMA FrameBytes ==
    ASSUME NEW ch \in Channels, NEW n \in Nat, NEW call \in Calls
    PROVE  /\ Frame(ch, n, call) \in Seq(ByteSet) /\ Len(Frame(ch, n, call)) = FrameLen(call)
           /\ \A i \in 1 .. FrameLen(call) : Frame(ch, n, call)[i] = Byte(ch, n, i)
  <1>1. FrameLen(call) \in Nat
    BY FrameLength
  <1>2. \A i \in 1 .. FrameLen(call) : Byte(ch, n, i) \in ByteSet
    BY <1>1 DEF Byte, ByteSet
  <1> QED
    BY <1>1, <1>2 DEF Frame, FrameLen

\* A call is written behind the others.
LEMMA AppendStarts ==
    ASSUME NEW S \in Seq(Calls), NEW g, NEW start, Starts(S, g, start), NEW call \in Calls
    PROVE  \E next :
               /\ Starts(Append(S, call), g, next)
               /\ \A k \in g .. Len(S) : next[k] = start[k]
               /\ next[Len(S) + 1] = start[Len(S)] + FrameLen(call)
  <1> DEFINE T == Append(S, call)
             next == [k \in g .. Len(T) |->
                         IF k \in g .. Len(S) THEN start[k] ELSE start[Len(S)] + FrameLen(call)]
  <1>1. /\ T \in Seq(Calls) /\ Len(T) = Len(S) + 1 /\ T[Len(S) + 1] = call
        /\ \A k \in 1 .. Len(S) : T[k] = S[k]
    OBVIOUS
  <1>2. /\ g \in 0 .. Len(S) /\ start \in [g .. Len(S) -> Nat] /\ start[g] = 0
        /\ \A k \in g + 1 .. Len(S) : start[k] = start[k - 1] + FrameLen(S[k])
        /\ \A j, k \in g .. Len(S) : j < k => start[j] < start[k]
    BY DEF Starts
  <1>3. FrameLen(call) \in Nat /\ FrameLen(call) > 0
    BY FrameLength DEF HeaderLen
  <1> HIDE DEF T
  <1>4. /\ \A k \in g .. Len(S) : next[k] = start[k]
        /\ next[Len(S) + 1] = start[Len(S)] + FrameLen(call)
    BY <1>1, <1>2
  <1>5. start[Len(S)] \in Nat /\ g \in Nat /\ Len(S) \in Nat /\ Len(S) \in g .. Len(S)
    BY <1>2
  <1>6. next \in [g .. Len(T) -> Nat]
    BY <1>2, <1>3, <1>5
  <1> HIDE DEF next
  <1>7. \A k \in g .. Len(T) : k \in g .. Len(S) \/ k = Len(S) + 1
    BY <1>1, <1>5
  <1>8. ASSUME NEW k \in g + 1 .. Len(T)
        PROVE  next[k] = next[k - 1] + FrameLen(T[k])
    <2>1. CASE k = Len(S) + 1
      <3>1. k - 1 = Len(S)
        BY <2>1, <1>5
      <3> QED
        BY <2>1, <3>1, <1>1, <1>4, <1>5
    <2>2. CASE k # Len(S) + 1
      <3>1. k \in g + 1 .. Len(S) /\ k \in g .. Len(S) /\ k - 1 \in g .. Len(S)
            /\ k \in 1 .. Len(S)
        BY <2>2, <1>1, <1>5
      <3> QED
        BY <3>1, <1>1, <1>2, <1>4
    <2> QED
      BY <2>1, <2>2
  <1>9. ASSUME NEW j \in g .. Len(T), NEW k \in g .. Len(T), j < k
        PROVE  next[j] < next[k]
    <2>1. j \in g .. Len(S)
      BY <1>1, <1>5, <1>9
    <2>2. CASE k \in g .. Len(S)
      BY <2>1, <2>2, <1>2, <1>4, <1>9
    <2>3. CASE k = Len(S) + 1
      <3>1. j = Len(S) \/ j < Len(S)
        BY <2>1
      <3>2. start[j] \in Nat /\ start[j] <= start[Len(S)]
        BY <2>1, <3>1, <1>2, <1>5
      <3>3. next[j] = start[j] /\ next[k] = start[Len(S)] + FrameLen(call)
        BY <2>1, <2>3, <1>4
      <3> QED
        BY <3>2, <3>3, <1>3, <1>5
    <2> QED
      BY <2>2, <2>3, <1>7
  <1>10. next[g] = 0
    BY <1>2, <1>4
  <1>11. Starts(T, g, next)
    BY <1>1, <1>2, <1>6, <1>8, <1>9, <1>10 DEF Starts
  <1> QED
    BY <1>4, <1>11 DEF T

LEMMA AppendLayout ==
    ASSUME NEW ch \in Channels, NEW S \in Seq(Calls), NEW g, NEW start,
           NEW B \in Seq(ByteSet), Layout(ch, S, g, start, B),
           Len(B) = start[Len(S)], NEW call \in Calls
    PROVE  \E next :
               /\ Layout(ch, Append(S, call), g, next, B \o Frame(ch, Len(S) + 1, call))
               /\ Len(B \o Frame(ch, Len(S) + 1, call)) = next[Len(Append(S, call))]
  <1> DEFINE T == Append(S, call)
             F == Frame(ch, Len(S) + 1, call)
             C == B \o F
             l == FrameLen(call)
  <1>0. Starts(S, g, start)
    BY DEF Layout
  <1>1. PICK next : /\ Starts(T, g, next)
                    /\ \A k \in g .. Len(S) : next[k] = start[k]
                    /\ next[Len(S) + 1] = start[Len(S)] + l
    BY <1>0, AppendStarts
  <1>2. /\ T \in Seq(Calls) /\ Len(T) = Len(S) + 1 /\ T[Len(S) + 1] = call
        /\ \A k \in 1 .. Len(S) : T[k] = S[k]
    OBVIOUS
  <1>3. /\ F \in Seq(ByteSet) /\ Len(F) = l /\ \A i \in 1 .. l : F[i] = Byte(ch, Len(S) + 1, i)
    BY FrameBytes
  <1>4. l \in Nat /\ Len(S) \in Nat /\ Len(B) \in Nat
    BY FrameLength
  <1>5. g \in 0 .. Len(S) /\ Len(S) \in g .. Len(S)
    BY <1>0, <1>4 DEF Starts
  <1> HIDE DEF T, F, l
  <1>6. /\ C \in Seq(ByteSet) /\ Len(C) = Len(B) + l
        /\ \A i \in 1 .. Len(B) : C[i] = B[i]
        /\ \A i \in 1 .. Len(C) : i \in 1 .. Len(B) \/ (i - Len(B) \in 1 .. l /\ C[i] = F[i - Len(B)])
    <2>1. F \in Seq(ByteSet)
      BY <1>3
    <2>2. /\ C \in Seq(ByteSet) /\ Len(C) = Len(B) + Len(F)
          /\ \A i \in 1 .. Len(B) : C[i] = B[i]
          /\ \A i \in 1 .. Len(B) + Len(F) :
                 i \in 1 .. Len(B) \/ (i - Len(B) \in 1 .. Len(F) /\ C[i] = F[i - Len(B)])
      BY <2>1, Concat
    <2> QED
      BY <2>2, <1>3
  <1> HIDE DEF C
  <1>7. Len(C) = next[Len(T)]
    BY <1>1, <1>2, <1>6
  <1>8. ASSUME NEW i \in 1 .. Len(C)
        PROVE  /\ C[i].ch = ch /\ C[i].call \in g + 1 .. Len(T)
               /\ C[i].at \in 1 .. FrameLen(T[C[i].call])
               /\ i = next[C[i].call - 1] + C[i].at
    <2>1. CASE i \in 1 .. Len(B)
      <3>1. PICK k : k = B[i].call
        OBVIOUS
      <3>2. /\ B[i].ch = ch /\ k \in g + 1 .. Len(S)
            /\ B[i].at \in 1 .. FrameLen(S[k]) /\ i = start[k - 1] + B[i].at
        BY <2>1, <3>1 DEF Layout
      <3>3. k - 1 \in g .. Len(S) /\ k \in 1 .. Len(S) /\ k \in g + 1 .. Len(T)
        BY <1>2, <1>5, <3>2
      <3>4. next[k - 1] = start[k - 1] /\ T[k] = S[k] /\ C[i] = B[i]
        BY <1>1, <1>2, <1>6, <2>1, <3>3
      <3> QED
        BY <3>1, <3>2, <3>3, <3>4
    <2>2. CASE i - Len(B) \in 1 .. l /\ C[i] = F[i - Len(B)]
      <3>1. C[i] = Byte(ch, Len(S) + 1, i - Len(B))
        BY <1>3, <2>2
      <3>2. C[i].ch = ch /\ C[i].call = Len(S) + 1 /\ C[i].at = i - Len(B)
        BY <3>1 DEF Byte
      <3>3. next[Len(S) + 1 - 1] = Len(B) /\ Len(S) + 1 \in g + 1 .. Len(T)
        <4>1. Len(S) + 1 - 1 = Len(S)
          BY <1>4
        <4> QED
          BY <4>1, <1>1, <1>2, <1>5
      <3> QED
        BY <1>2, <1>4, <2>2, <3>2, <3>3 DEF l
    <2> QED
      BY <1>6, <2>1, <2>2
  <1>9. Layout(ch, T, g, next, C)
    <2>1. Len(C) <= next[Len(T)]
      BY <1>6, <1>4, <1>7
    <2> QED
      BY <1>1, <1>8, <2>1 DEF Layout
  <1> QED
    BY <1>7, <1>9 DEF T, C, F

\* A call is taken from the front.
LEMMA DropStarts ==
    ASSUME NEW S \in Seq(Calls), NEW g, NEW start, Starts(S, g, start), g < Len(S)
    PROVE  \E next :
               /\ Starts(S, g + 1, next)
               /\ \A k \in g + 1 .. Len(S) : next[k] = start[k] - FrameLen(S[g + 1])
               /\ start[g + 1] = FrameLen(S[g + 1])
  <1> DEFINE l == FrameLen(S[g + 1])
             next == [k \in g + 1 .. Len(S) |-> start[k] - l]
  <1>1. /\ g \in 0 .. Len(S) /\ start \in [g .. Len(S) -> Nat] /\ start[g] = 0
        /\ \A k \in g + 1 .. Len(S) : start[k] = start[k - 1] + FrameLen(S[k])
        /\ \A j, k \in g .. Len(S) : j < k => start[j] < start[k]
    BY DEF Starts
  <1>2. g \in Nat /\ Len(S) \in Nat /\ g + 1 \in g + 1 .. Len(S) /\ g + 1 \in g .. Len(S)
    BY <1>1
  <1>3. l \in Nat /\ l > 0
    BY <1>2, FrameLength DEF HeaderLen
  <1>4. start[g + 1] = l
    <2>1. start[g + 1] = start[g + 1 - 1] + l /\ g + 1 - 1 = g
      BY <1>1, <1>2
    <2> QED
      BY <2>1, <1>1, <1>3
  <1> HIDE DEF l
  <1>5. \A k \in g + 1 .. Len(S) : next[k] = start[k] - l
    OBVIOUS
  <1>6. \A k \in g + 1 .. Len(S) : k \in g .. Len(S) /\ start[k] \in Nat /\ l <= start[k]
    <2> SUFFICES ASSUME NEW k \in g + 1 .. Len(S)
                 PROVE  k \in g .. Len(S) /\ start[k] \in Nat /\ l <= start[k]
      OBVIOUS
    <2>1. k \in g .. Len(S) /\ (k = g + 1 \/ g + 1 < k)
      BY <1>2
    <2>2. start[k] \in Nat
      BY <1>1, <2>1
    <2> QED
      BY <1>1, <1>2, <1>3, <1>4, <2>1, <2>2
  <1>7. next \in [g + 1 .. Len(S) -> Nat]
    BY <1>3, <1>6
  <1> HIDE DEF next
  <1>8. next[g + 1] = 0
    BY <1>2, <1>3, <1>4, <1>5
  <1>9. ASSUME NEW k \in g + 1 + 1 .. Len(S)
        PROVE  next[k] = next[k - 1] + FrameLen(S[k])
    <2>1. k \in g + 1 .. Len(S) /\ k - 1 \in g + 1 .. Len(S) /\ k \in 1 .. Len(S)
      BY <1>2
    <2>2. start[k] = start[k - 1] + FrameLen(S[k]) /\ FrameLen(S[k]) \in Nat
      BY <1>1, <2>1, FrameLength
    <2>3. start[k - 1] \in Nat
      BY <1>6, <2>1
    <2>4. next[k] = start[k] - l /\ next[k - 1] = start[k - 1] - l
      BY <1>5, <2>1
    <2> QED
      BY <1>3, <2>2, <2>3, <2>4
  <1>10. ASSUME NEW j \in g + 1 .. Len(S), NEW k \in g + 1 .. Len(S), j < k
         PROVE  next[j] < next[k]
    BY <1>1, <1>3, <1>5, <1>6, <1>10
  <1>11. g + 1 \in 0 .. Len(S)
    BY <1>2
  <1>12. Starts(S, g + 1, next)
    BY <1>7, <1>8, <1>9, <1>10, <1>11 DEF Starts
  <1> QED
    BY <1>4, <1>5, <1>12 DEF l

LEMMA DropLayout ==
    ASSUME NEW ch, NEW S \in Seq(Calls), NEW g, NEW start, NEW B \in Seq(ByteSet),
           Layout(ch, S, g, start, B), g < Len(S), FrameLen(S[g + 1]) <= Len(B)
    PROVE  \E next :
               /\ Layout(ch, S, g + 1, next, SubSeq(B, FrameLen(S[g + 1]) + 1, Len(B)))
               /\ Len(B) = start[Len(S)] =>
                      Len(SubSeq(B, FrameLen(S[g + 1]) + 1, Len(B))) = next[Len(S)]
               /\ Cardinality(WholeCalls(S, g + 1, next,
                                         SubSeq(B, FrameLen(S[g + 1]) + 1, Len(B))))
                      = Cardinality(WholeCalls(S, g, start, B)) - 1
  <1> DEFINE l == FrameLen(S[g + 1])
             C == SubSeq(B, l + 1, Len(B))
  <1>0. Starts(S, g, start)
    BY DEF Layout
  <1>1. /\ g \in 0 .. Len(S) /\ start \in [g .. Len(S) -> Nat]
        /\ \A j, k \in g .. Len(S) : j < k => start[j] < start[k]
    BY <1>0 DEF Starts
  <1>2. PICK next : /\ Starts(S, g + 1, next)
                    /\ \A k \in g + 1 .. Len(S) : next[k] = start[k] - l
                    /\ start[g + 1] = l
    BY <1>0, DropStarts
  <1>3. g \in Nat /\ Len(S) \in Nat /\ g + 1 \in g + 1 .. Len(S) /\ Len(S) \in g + 1 .. Len(S)
        /\ \A k \in g + 1 .. Len(S) : k \in g .. Len(S) /\ start[k] \in Nat
    BY <1>1
  <1>4. l \in Nat /\ l > 0 /\ Len(B) \in Nat
    BY <1>3, FrameLength DEF HeaderLen
  <1>5. /\ C \in Seq(ByteSet) /\ Len(C) = Len(B) - l
        /\ \A i \in 1 .. Len(C) : i + l \in 1 .. Len(B) /\ C[i] = B[i + l]
    BY <1>4 DEF l
  <1> HIDE DEF l, C
  <1>6. Len(B) = start[Len(S)] => Len(C) = next[Len(S)]
    BY <1>2, <1>3, <1>5
  <1>7. Len(C) <= next[Len(S)]
    <2>1. Len(B) <= start[Len(S)]
      BY DEF Layout
    <2> QED
      BY <2>1, <1>2, <1>3, <1>4, <1>5
  <1>8. ASSUME NEW i \in 1 .. Len(C)
        PROVE  /\ C[i].ch = ch /\ C[i].call \in g + 1 + 1 .. Len(S)
               /\ C[i].at \in 1 .. FrameLen(S[C[i].call])
               /\ i = next[C[i].call - 1] + C[i].at
    <2>1. PICK j \in 1 .. Len(B) : j = i + l /\ C[i] = B[j]
      BY <1>5
    <2>2. PICK k : k = B[j].call
      OBVIOUS
    <2>3. /\ B[j].ch = ch /\ k \in g + 1 .. Len(S)
          /\ B[j].at \in 1 .. FrameLen(S[k]) /\ j = start[k - 1] + B[j].at
      BY <2>2 DEF Layout
    <2>4. InFrame(ch, S, g, start, B[j], j)
      BY CallOfByte
    <2>5. j <= start[k] /\ start[k] \in Nat
      BY <2>2, <2>4 DEF InFrame
    <2>6. k # g + 1
      BY <2>1, <2>5, <1>2, <1>4, <1>5
    <2>7. k \in g + 1 + 1 .. Len(S) /\ k - 1 \in g + 1 .. Len(S)
      BY <2>3, <2>6, <1>3
    <2>8. next[k - 1] = start[k - 1] - l /\ start[k - 1] \in Nat
      BY <2>7, <1>2, <1>3
    <2>9. B[j].at \in Int
      <3>1. B[j] \in ByteSet
        OBVIOUS
      <3> QED
        BY <3>1 DEF ByteSet
    <2>10. i = next[k - 1] + B[j].at
      <3>1. i + l = start[k - 1] + B[j].at /\ i \in Int
        BY <2>1, <2>3
      <3>2. PICK a \in Nat, b \in Int, c \in Int : a = start[k - 1] /\ b = B[j].at /\ c = next[k - 1]
        BY <2>8, <2>9, <1>4
      <3>3. i + l = a + b /\ c = a - l
        BY <2>8, <3>1, <3>2
      <3>4. i = c + b
        BY <3>1, <3>3, <1>4
      <3> QED
        BY <3>2, <3>4
    <2>11. C[i].ch = ch /\ C[i].call = k /\ C[i].at = B[j].at
      BY <2>1, <2>2, <2>3
    <2> QED
      BY <2>3, <2>7, <2>10, <2>11
  <1>9. Layout(ch, S, g + 1, next, C)
    BY <1>2, <1>7, <1>8 DEF Layout
  <1>10. Cardinality(WholeCalls(S, g + 1, next, C)) = Cardinality(WholeCalls(S, g, start, B)) - 1
    <2> DEFINE K == WholeCalls(S, g, start, B)
               D == WholeCalls(S, g + 1, next, C)
    <2>1. g + 1 \in K
      <3>1. start[g + 1] <= Len(B)
        BY <1>2 DEF l
      <3> QED
        BY <3>1, <1>3 DEF WholeCalls
    <2>2. IsFiniteSet(K)
      BY CountWhole
    <2>3. \A k \in g + 1 .. Len(S) : next[k] <= Len(C) <=> start[k] <= Len(B)
      BY <1>2, <1>3, <1>4, <1>5
    <2>4. D = K \ {g + 1}
      <3>1. D = {k \in g + 1 + 1 .. Len(S) : next[k] <= Len(C)}
        BY DEF WholeCalls
      <3>2. K = {k \in g + 1 .. Len(S) : start[k] <= Len(B)}
        BY DEF WholeCalls
      <3>3. g + 1 + 1 .. Len(S) = (g + 1 .. Len(S)) \ {g + 1}
        BY <1>3
      <3> HIDE DEF K, D
      <3> QED
        BY <3>1, <3>2, <3>3, <2>3
    <2> HIDE DEF K, D
    <2>5. Cardinality(D) = Cardinality(K) - 1
      BY <2>1, <2>2, <2>4, FS_RemoveElement
    <2> QED
      BY <2>5 DEF K, D
  <1> QED
    BY <1>6, <1>9, <1>10 DEF C, l

----------------------------------------------------------------------------
(* Of a channel it is enough to know that its bytes are laid out so, and   *)
(* how many calls are whole.                                               *)

Flows(ch, S, g, B, up) ==
    \E start : Layout(ch, S, g, start, B) /\ (up => Len(B) = start[Len(S)])

Count(ch, S, B) == Cardinality(LastBytes(ch, S, B))

LEMMA FlowsEmpty ==
    ASSUME NEW ch, NEW up PROVE Flows(ch, <<>>, 0, <<>>, up)
  <1> DEFINE start == [k \in 0 .. 0 |-> 0]
  <1>1. Len(<<>>) = 0 /\ start[0] = 0 /\ start \in [0 .. 0 -> Nat]
    OBVIOUS
  <1>2. Starts(<<>>, 0, start)
    BY <1>1 DEF Starts
  <1> HIDE DEF start
  <1>3. Layout(ch, <<>>, 0, start, <<>>)
    BY <1>1, <1>2 DEF Layout
  <1> QED
    BY <1>1, <1>3 DEF Flows

LEMMA FlowsCount ==
    ASSUME NEW ch, NEW S \in Seq(Calls), NEW g, NEW B \in Seq(ByteSet), NEW up,
           Flows(ch, S, g, B, up)
    PROVE  /\ g \in 0 .. Len(S) /\ Count(ch, S, B) \in 0 .. Len(S) - g
           /\ up => Count(ch, S, B) = Len(S) - g
           /\ IsFiniteSet(LastBytes(ch, S, B))
  <1>1. PICK start : Layout(ch, S, g, start, B) /\ (up => Len(B) = start[Len(S)])
    BY DEF Flows
  <1>2. Count(ch, S, B) = Cardinality(WholeCalls(S, g, start, B))
    BY <1>1, CountWhole DEF Count
  <1>3. g \in 0 .. Len(S)
    BY <1>1 DEF Layout, Starts
  <1>4. /\ Count(ch, S, B) \in 0 .. Len(S) - g
        /\ up => Count(ch, S, B) = Len(S) - g
    BY <1>1, <1>2, AllWhole
  <1>5. IsFiniteSet(LastBytes(ch, S, B))
    <2>1. IsFiniteSet(1 .. Len(B))
      BY FS_Interval
    <2>2. LastBytes(ch, S, B) \in SUBSET (1 .. Len(B))
      BY DEF LastBytes
    <2> QED
      BY <2>1, <2>2, FS_Subset
  <1> QED
    BY <1>3, <1>4, <1>5

LEMMA FlowsCut ==
    ASSUME NEW ch, NEW S \in Seq(Calls), NEW g, NEW B \in Seq(ByteSet), NEW up,
           Flows(ch, S, g, B, up), NEW n \in 0 .. Len(B)
    PROVE  /\ Flows(ch, S, g, SubSeq(B, 1, n), FALSE)
           /\ Count(ch, S, SubSeq(B, 1, n)) \in 0 .. Count(ch, S, B)
  <1> DEFINE C == SubSeq(B, 1, n)
  <1>1. PICK start : Layout(ch, S, g, start, B)
    BY DEF Flows
  <1>2. C \in Seq(ByteSet)
    OBVIOUS
  <1>3. /\ Layout(ch, S, g, start, C)
        /\ WholeCalls(S, g, start, C) \subseteq WholeCalls(S, g, start, B)
    BY <1>1, CutLayout
  <1> HIDE DEF C
  <1>4. /\ IsFiniteSet(WholeCalls(S, g, start, B))
        /\ Count(ch, S, B) = Cardinality(WholeCalls(S, g, start, B))
        /\ Count(ch, S, C) = Cardinality(WholeCalls(S, g, start, C))
    BY <1>1, <1>2, <1>3, CountWhole DEF Count
  <1>5. Count(ch, S, C) <= Count(ch, S, B)
    BY <1>3, <1>4, FS_Subset
  <1>6. Flows(ch, S, g, C, FALSE)
    BY <1>3 DEF Flows
  <1>7. Count(ch, S, C) \in Nat /\ Count(ch, S, B) \in Nat
    <2>1. g \in 0 .. Len(S) /\ Count(ch, S, B) \in 0 .. Len(S) - g
          /\ Count(ch, S, C) \in 0 .. Len(S) - g
      BY <1>2, <1>6, FlowsCount
    <2> QED
      BY <2>1
  <1>8. Count(ch, S, C) \in 0 .. Count(ch, S, B)
    BY <1>5, <1>7
  <1> QED
    BY <1>6, <1>8 DEF C

LEMMA FlowsAppend ==
    ASSUME NEW ch \in Channels, NEW S \in Seq(Calls), NEW g, NEW B \in Seq(ByteSet),
           Flows(ch, S, g, B, TRUE), NEW call \in Calls
    PROVE  Flows(ch, Append(S, call), g, B \o Frame(ch, Len(S) + 1, call), TRUE)
  <1>1. PICK start : Layout(ch, S, g, start, B) /\ Len(B) = start[Len(S)]
    BY DEF Flows
  <1>2. \E next :
           /\ Layout(ch, Append(S, call), g, next, B \o Frame(ch, Len(S) + 1, call))
           /\ Len(B \o Frame(ch, Len(S) + 1, call)) = next[Len(Append(S, call))]
    BY <1>1, AppendLayout
  <1> QED
    BY <1>2 DEF Flows

LEMMA FlowsDrop ==
    ASSUME NEW ch, NEW S \in Seq(Calls), NEW g, NEW B \in Seq(ByteSet), NEW up,
           Flows(ch, S, g, B, up), g < Len(S), FrameLen(S[g + 1]) <= Len(B)
    PROVE  /\ Flows(ch, S, g + 1, SubSeq(B, FrameLen(S[g + 1]) + 1, Len(B)), up)
           /\ Count(ch, S, SubSeq(B, FrameLen(S[g + 1]) + 1, Len(B))) = Count(ch, S, B) - 1
  <1>1. PICK start : Layout(ch, S, g, start, B) /\ (up => Len(B) = start[Len(S)])
    BY DEF Flows
  <1> DEFINE C == SubSeq(B, FrameLen(S[g + 1]) + 1, Len(B))
  <1>2. PICK next :
            /\ Layout(ch, S, g + 1, next, C)
            /\ Len(B) = start[Len(S)] => Len(C) = next[Len(S)]
            /\ Cardinality(WholeCalls(S, g + 1, next, C))
                   = Cardinality(WholeCalls(S, g, start, B)) - 1
    BY <1>1, DropLayout
  <1>3. C \in Seq(ByteSet)
    <2>1. g \in Nat /\ g + 1 \in 1 .. Len(S)
      BY <1>1 DEF Layout, Starts
    <2>2. FrameLen(S[g + 1]) \in Nat
      BY <2>1, FrameLength
    <2> QED
      BY <2>2
  <1> HIDE DEF C
  <1>4. Count(ch, S, C) = Count(ch, S, B) - 1
    BY <1>1, <1>2, <1>3, CountWhole DEF Count
  <1>5. Flows(ch, S, g + 1, C, up)
    BY <1>1, <1>2 DEF Flows
  <1> QED
    BY <1>4, <1>5 DEF C

LEMMA FlowsFirst ==
    ASSUME NEW ch, NEW S \in Seq(Calls), NEW g, NEW B \in Seq(ByteSet), NEW up,
           Flows(ch, S, g, B, up), B # <<>>
    PROVE  /\ g \in Nat /\ g < Len(S) /\ S[g + 1] \in Calls
           /\ \A i \in 1 .. Len(B) :
                  i <= FrameLen(S[g + 1]) => B[i] = Byte(ch, g + 1, i)
  <1>1. PICK start : Layout(ch, S, g, start, B)
    BY DEF Flows
  <1> QED
    BY <1>1, FirstFrame

----------------------------------------------------------------------------
(* The inductive invariant.  A peer starts with an empty buffer, but after *)
(* a loss goes on from what is left there: of its first connection only    *)
(* half a call can be left, and nothing more comes over it.                *)

\* Bytes of calls that have been made.
Known == {b \in ByteSet : b.call \in 1 .. Len(sent[b.ch])}

Entry == [ch : Channels, spinning : BOOLEAN]

DataType ==
    /\ wire \in [Channels -> Seq(Known)]
    /\ buffer \in [clients \cup Peers -> Seq(Known)]
    /\ stack \in [Nodes -> Seq(Entry)]

GotType == \A ch \in FreshChannels : got[ch] \in Seq(Calls)

\* The peer has connected again.
Later(p) == \E c \in Used : c[1] = p /\ c[2] # 1

First(p) == <<p, 1>>
FirstIn(p) == <<"peer", First(p)>>

NumberInv ==
    \A p \in Peers : \E k \in 0 .. MaxConns : \A i \in 1 .. MaxConns :
        <<p, i>> \in Used <=> i <= k

DeviceInv ==
    \A p \in Peers : /\ device[p] # NoDevice => device[p] \in Used /\ device[p][1] = p
                     /\ Later(p) => device[p] # First(p)

LossInv ==
    /\ \A c \in Used : device[c[1]] # c => link[c] = "broken" /\ wire[<<"peer", c>>] = <<>>
    /\ \A ch \in Channels : link[ch[2]] = "unused" => sent[ch] = <<>> /\ got[ch] = <<>>

WireInv == \A ch \in Channels : \A i \in 1 .. Len(wire[ch]) : wire[ch][i].ch = ch

\* The bytes of the channel go into a buffer where others are by now.
Settled(ch) == ch[1] # "server" /\ Later(ch[2][1])

StackInv ==
    \A n \in Nodes : \A ch \in Channels : Reading(n, ch) =>
        Node(ch) = n /\ ch[2] \in Used /\ (ch \in FreshChannels => ~Settled(ch))

FlowOf(ch) == Flows(ch, sent[ch], Len(got[ch]), Bytes(ch), link[ch[2]] = "up")
FlowInv == \A ch \in FreshChannels : ~Settled(ch) => FlowOf(ch)

\* What is left when serverData has returned is less than a call.
NoneWhole(p) ==
    \A i \in 1 .. Len(buffer[p]) : buffer[p][i].ch = FirstIn(p) => ~IsLast(buffer[p][i])
RestInv ==
    \A p \in Peers : First(p) \in Conns /\ (Later(p) \/ stack[p] = <<>>) => NoneWhole(p)

TransportInv ==
    /\ TypeOK /\ DataType /\ GotType
    /\ NumberInv /\ DeviceInv /\ LossInv /\ WireInv /\ StackInv /\ FlowInv /\ RestInv

----------------------------------------------------------------------------
(* Channels, keys and bytes.                                               *)

LEMMA ChannelForms ==
    ASSUME NEW ch \in Channels
    PROVE  /\ ch = <<ch[1], ch[2]>> /\ ch[1] \in {"server", "peer"} /\ ch[2] \in Conns
           /\ ch[2] = <<ch[2][1], ch[2][2]>> /\ ch[2][1] \in Peers /\ ch[2][2] \in 1 .. MaxConns
           /\ ch[1] = "server" => Key(ch) = ch[2] /\ Key(ch) \notin Peers /\ Node(ch) = "server"
           /\ ch[1] = "peer" => Key(ch) = ch[2][1] /\ Node(ch) = ch[2][1] /\ Node(ch) # "server"
           /\ Node(ch) \in Nodes
           /\ ch \in FreshChannels <=> ch[1] = "server" \/ ch[2][2] = 1
  BY PeersAssumption DEF Channels, Conns, Key, Node, Nodes, FreshChannels

LEMMA FreshForms ==
    ASSUME NEW ch \in FreshChannels, ch[1] # "server"
    PROVE  /\ ch = FirstIn(ch[2][1]) /\ ch[2] = First(ch[2][1]) /\ ch[2][1] \in Peers
           /\ ch \in Channels
  BY ChannelForms DEF FreshChannels, FirstIn, First

LEMMA FirstForms ==
    ASSUME NEW p \in Peers, First(p) \in Conns
    PROVE  /\ FirstIn(p) \in FreshChannels /\ FirstIn(p) \in Channels
           /\ FirstIn(p)[1] = "peer" /\ FirstIn(p)[2] = First(p)
           /\ Key(FirstIn(p)) = p /\ Node(FirstIn(p)) = p
  BY DEF FirstIn, First, Channels, FreshChannels, Key, Node

BufferOf(ch) == IF Key(ch) \in DOMAIN buffer THEN buffer[Key(ch)] ELSE <<>>

LEMMA KnownBytes ==
    ASSUME NEW b \in Known
    PROVE  b \in ByteSet /\ b.ch \in Channels /\ b.call \in 1 .. Len(sent[b.ch])
  BY DEF Known, ByteSet

LEMMA LargerSeq ==
    ASSUME NEW X, NEW Y, X \subseteq Y, NEW s \in Seq(X) PROVE s \in Seq(Y)
  OBVIOUS

LEMMA BytesType ==
    ASSUME TypeOK, DataType, NEW ch \in Channels
    PROVE  /\ Bytes(ch) = BufferOf(ch) \o wire[ch]
           /\ BufferOf(ch) \in Seq(ByteSet) /\ wire[ch] \in Seq(ByteSet)
           /\ Bytes(ch) \in Seq(ByteSet)
           /\ sent[ch] \in Seq(Calls)
  <1>1. BufferOf(ch) \in Seq(Known)
    <2>1. CASE Key(ch) \in DOMAIN buffer
      BY <2>1 DEF DataType, BufferOf
    <2>2. CASE Key(ch) \notin DOMAIN buffer
      BY <2>2 DEF BufferOf
    <2> QED
      BY <2>1, <2>2
  <1>2. wire[ch] \in Seq(Known) /\ sent[ch] \in Seq(Calls)
    BY DEF DataType, TypeOK
  <1>3. Known \subseteq ByteSet
    BY DEF Known
  <1>4. BufferOf(ch) \in Seq(ByteSet) /\ wire[ch] \in Seq(ByteSet)
    BY <1>1, <1>2, <1>3, LargerSeq
  <1>5. Bytes(ch) = BufferOf(ch) \o wire[ch]
    BY DEF Bytes, BufferOf
  <1>6. BufferOf(ch) \o wire[ch] \in Seq(ByteSet)
    BY <1>4, Concat
  <1> QED
    BY <1>2, <1>4, <1>5, <1>6

LEMMA WholeCount ==
    ASSUME TypeOK, DataType, NEW ch \in Channels
    PROVE  Whole(ch) = Count(ch, sent[ch], Bytes(ch))
  <1> DEFINE B == Bytes(ch)
  <1>1. B \in Seq(ByteSet)
    BY BytesType
  <1>2. DOMAIN B = 1 .. Len(B)
    BY <1>1
  <1>3. \A i \in 1 .. Len(B) :
            B[i].ch = ch => (IsLast(B[i]) <=> B[i].at = FrameLen(sent[ch][B[i].call]))
    BY DEF IsLast, FrameLen
  <1>4. {i \in DOMAIN B : B[i].ch = ch /\ IsLast(B[i])} = LastBytes(ch, sent[ch], B)
    <2> HIDE DEF B
    <2> QED
      BY <1>2, <1>3 DEF LastBytes
  <1> QED
    BY <1>4 DEF Whole, Count

LEMMA MinOf ==
    ASSUME NEW a \in Int, NEW b \in Int, a <= b
    PROVE  Min({a, b}) = a /\ Min({b, a}) = a
  <1>1. a \in {a, b} /\ \A y \in {a, b} : a <= y
    OBVIOUS
  <1>2. \A x \in {a, b} : (\A y \in {a, b} : x <= y) => x = a
    OBVIOUS
  <1>3. Min({a, b}) = a
    BY <1>1, <1>2 DEF Min
  <1>4. {a, b} = {b, a}
    OBVIOUS
  <1> QED
    BY <1>3, <1>4

LEMMA PendingCalls ==
    ASSUME TypeOK, DataType, NEW ch \in Channels, NEW g \in Nat, g = Len(got[ch]),
           g <= Len(sent[ch]), Count(ch, sent[ch], Bytes(ch)) \in 0 .. Len(sent[ch]) - g
    PROVE  Pending(ch) = SubSeq(sent[ch], g + 1, g + Count(ch, sent[ch], Bytes(ch)))
  <1> DEFINE n == Count(ch, sent[ch], Bytes(ch))
  <1>1. Whole(ch) = n
    BY WholeCount
  <1>2. n \in 0 .. Len(sent[ch]) - g /\ Len(sent[ch]) \in Nat
    <2>1. sent[ch] \in Seq(Calls)
      BY BytesType
    <2>2. Len(sent[ch]) \in Nat
      BY <2>1
    <2> QED
      BY <2>2
  <1> HIDE DEF n
  <1>3. g + n \in Int /\ Len(sent[ch]) \in Int /\ g + n <= Len(sent[ch])
    BY <1>2
  <1>4. Min({g + n, Len(sent[ch])}) = g + n
    BY <1>3, MinOf
  <1> QED
    BY <1>1, <1>4 DEF Pending, n

----------------------------------------------------------------------------
(* Sequences and stacks.                                                   *)

LEMMA CutConcat ==
    ASSUME NEW X, NEW s \in Seq(X), NEW t \in Seq(X), NEW n \in 0 .. Len(t)
    PROVE  /\ s \o SubSeq(t, 1, n) = SubSeq(s \o t, 1, Len(s) + n)
           /\ Len(s) + n \in 0 .. Len(s \o t)
  OBVIOUS

LEMMA Pieces ==
    ASSUME NEW X, NEW t \in Seq(X), NEW n \in 0 .. Len(t)
    PROVE  SubSeq(t, 1, n) \in Seq(X) /\ SubSeq(t, n + 1, Len(t)) \in Seq(X)
  OBVIOUS

LEMMA JoinParts ==
    ASSUME NEW X, NEW t \in Seq(X), NEW m \in Nat, NEW k \in Nat, m <= k, k <= Len(t)
    PROVE  SubSeq(t, m + 1, k) \o SubSeq(t, k + 1, Len(t)) = SubSeq(t, m + 1, Len(t))
  <1> DEFINE a == m + 1
             n == Len(t)
  <1>1. a \in 1 .. Len(t) + 1 /\ k \in a - 1 .. Len(t) /\ n \in k .. Len(t)
    OBVIOUS
  <1> HIDE DEF a, n
  <1>2. SubSeq(t, a, k) \o SubSeq(t, k + 1, n) = SubSeq(t, a, n)
    BY <1>1, ConcatAdjacentSubSeq
  <1> QED
    BY <1>2 DEF a, n

LEMMA MoveConcat ==
    ASSUME NEW X, NEW s \in Seq(X), NEW t \in Seq(X), NEW k \in 1 .. Len(t)
    PROVE  (s \o SubSeq(t, 1, k)) \o SubSeq(t, k + 1, Len(t)) = s \o t
  <1>1. PICK u \in Seq(X), v \in Seq(X) :
            u = SubSeq(t, 1, k) /\ v = SubSeq(t, k + 1, Len(t))
    <2>1. SubSeq(t, 1, k) \in Seq(X) /\ SubSeq(t, k + 1, Len(t)) \in Seq(X)
      OBVIOUS
    <2> QED
      BY <2>1
  <1>2. (s \o u) \o v = s \o (u \o v)
    OBVIOUS
  <1>3. u \o v = t
    BY <1>1
  <1> QED
    BY <1>1, <1>2, <1>3

LEMMA DropConcat ==
    ASSUME NEW X, NEW s \in Seq(X), NEW t \in Seq(X), NEW n \in 0 .. Len(s)
    PROVE  SubSeq(s, n + 1, Len(s)) \o t = SubSeq(s \o t, n + 1, Len(s \o t))
  <1> DEFINE w == s \o t
  <1>1. w \in Seq(X) /\ Len(w) = Len(s) + Len(t) /\ Len(s) \in Nat /\ Len(t) \in Nat
    BY ConcatProperties
  <1>2. n \in Nat /\ n <= Len(s) /\ Len(s) <= Len(w)
    BY <1>1
  <1>3. SubSeq(w, n + 1, Len(s)) \o SubSeq(w, Len(s) + 1, Len(w)) = SubSeq(w, n + 1, Len(w))
    <2> HIDE DEF w
    <2> QED
      BY <1>1, <1>2, JoinParts
  <1>4. SubSeq(w, n + 1, Len(s)) = SubSeq(s, n + 1, Len(s))
    <2>1. CASE n = Len(s)
      BY <2>1, <1>1
    <2>2. CASE n # Len(s)
      <3>1. n + 1 \in 1 .. Len(s) /\ Len(s) \in 1 .. Len(s)
        BY <2>2
      <3> QED
        BY <3>1, SubSeqOfConcat1
    <2> QED
      BY <2>1, <2>2
  <1>5. SubSeq(w, Len(s) + 1, Len(w)) = t
    <2>1. CASE Len(t) = 0
      <3>1. t = <<>> /\ Len(w) = Len(s)
        BY <2>1, <1>1
      <3>2. SubSeq(w, Len(s) + 1, Len(w)) = <<>>
        <4> HIDE DEF w
        <4> QED
          BY <3>1, <1>1
      <3> QED
        BY <3>1, <3>2
    <2>2. CASE Len(t) # 0
      <3>1. /\ Len(s) + 1 \in Len(s) + 1 .. Len(s) + Len(t)
            /\ Len(s) + Len(t) \in Len(s) + 1 .. Len(s) + Len(t)
            /\ Len(s) + 1 - Len(s) = 1 /\ Len(s) + Len(t) - Len(s) = Len(t)
        BY <2>2, <1>1
      <3>2. SubSeq(w, Len(s) + 1, Len(s) + Len(t)) = SubSeq(t, 1, Len(t))
        BY <3>1, SubSeqOfConcat2
      <3> QED
        BY <3>2, <1>1, SubSeqFull
    <2> QED
      BY <2>1, <2>2
  <1> QED
    BY <1>3, <1>4, <1>5

LEMMA Part ==
    ASSUME NEW X, NEW s \in Seq(X), NEW m \in Nat, NEW n \in 0 .. Len(s)
    PROVE  /\ SubSeq(s, m + 1, n) \in Seq(X)
           /\ \A i \in 1 .. Len(SubSeq(s, m + 1, n)) :
                  i + m \in 1 .. Len(s) /\ SubSeq(s, m + 1, n)[i] = s[i + m]
  OBVIOUS

LEMMA TopOf ==
    ASSUME DataType, NEW n \in Nodes, stack[n] # <<>>
    PROVE  /\ Len(stack[n]) \in 1 .. Len(stack[n]) /\ Top(n) = stack[n][Len(stack[n])]
           /\ Top(n).ch \in Channels /\ Reading(n, Top(n).ch)
  <1>1. stack[n] \in Seq(Entry)
    BY DEF DataType
  <1>2. Len(stack[n]) \in 1 .. Len(stack[n]) /\ DOMAIN stack[n] = 1 .. Len(stack[n])
    BY <1>1
  <1>3. Top(n) = stack[n][Len(stack[n])]
    BY DEF Top, Last
  <1>4. Top(n) \in Entry
    BY <1>1, <1>2, <1>3
  <1> QED
    BY <1>2, <1>3, <1>4 DEF Entry, Reading

\* What the steps do to the stacks: one is changed, and no channel comes to be read.
NoneRead(n) ==
    /\ stack' \in [Nodes -> Seq(Entry)]
    /\ \A m \in Nodes \ {n} : stack'[m] = stack[m]
    /\ \A m \in Nodes, ch \in Channels : Reading(m, ch)' => Reading(m, ch)

LEMMA SpinStack ==
    ASSUME DataType, NEW n \in Nodes, stack[n] # <<>>, NEW yes \in BOOLEAN, Spin(n, yes)
    PROVE  NoneRead(n) /\ stack'[n] # <<>>
  <1> DEFINE l == Len(stack[n])
             s == [stack[n] EXCEPT ![l].spinning = yes]
  <1>1. stack \in [Nodes -> Seq(Entry)]
    BY DEF DataType
  <1>2. stack' = [stack EXCEPT ![n] = s]
    BY <1>1 DEF Spin
  <1>3. stack[n] \in Seq(Entry) /\ l \in 1 .. l /\ stack[n][l] \in Entry
    BY <1>1, TopOf
  <1>4. [stack[n][l] EXCEPT !.spinning = yes] \in Entry
        /\ [stack[n][l] EXCEPT !.spinning = yes].ch = stack[n][l].ch
    BY <1>3 DEF Entry
  <1>5. s = [stack[n] EXCEPT ![l] = [stack[n][l] EXCEPT !.spinning = yes]]
    OBVIOUS
  <1>6. /\ s \in Seq(Entry) /\ DOMAIN s = DOMAIN stack[n] /\ s # <<>>
        /\ \A k \in DOMAIN stack[n] : s[k].ch = stack[n][k].ch
    BY <1>3, <1>4, <1>5
  <1> HIDE DEF s
  <1>7. stack'[n] = s /\ \A m \in Nodes \ {n} : stack'[m] = stack[m]
    BY <1>1, <1>2
  <1>8. stack' \in [Nodes -> Seq(Entry)]
    BY <1>1, <1>2, <1>6
  <1>9. ASSUME NEW m \in Nodes, NEW ch \in Channels, Reading(m, ch)'
        PROVE  Reading(m, ch)
    BY <1>6, <1>7, <1>9 DEF Reading
  <1> QED
    BY <1>6, <1>7, <1>8, <1>9 DEF NoneRead

LEMMA PopStack ==
    ASSUME DataType, NEW n \in Nodes, stack[n] # <<>>, Pop(n)
    PROVE  NoneRead(n)
  <1> DEFINE s == SubSeq(stack[n], 1, Len(stack[n]) - 1)
  <1>1. stack \in [Nodes -> Seq(Entry)]
    BY DEF DataType
  <1>2. stack' = [stack EXCEPT ![n] = s]
    BY DEF Pop, Front
  <1>3. stack[n] \in Seq(Entry) /\ Len(stack[n]) > 0
    BY <1>1
  <1>4. /\ s \in Seq(Entry) /\ DOMAIN s \subseteq DOMAIN stack[n]
        /\ \A k \in DOMAIN s : s[k] = stack[n][k]
    BY <1>3
  <1> HIDE DEF s
  <1>5. stack'[n] = s /\ \A m \in Nodes \ {n} : stack'[m] = stack[m]
    BY <1>1, <1>2
  <1>6. stack' \in [Nodes -> Seq(Entry)]
    BY <1>1, <1>2, <1>4
  <1>7. ASSUME NEW m \in Nodes, NEW ch \in Channels, Reading(m, ch)'
        PROVE  Reading(m, ch)
    BY <1>4, <1>5, <1>7 DEF Reading
  <1> QED
    BY <1>5, <1>6, <1>7 DEF NoneRead

LEMMA PushStack ==
    ASSUME DataType, NEW n \in Nodes, NEW new \in Channels,
           stack' = [stack EXCEPT ![n] = Append(@, [ch |-> new, spinning |-> FALSE])]
    PROVE  /\ stack' \in [Nodes -> Seq(Entry)] /\ stack'[n] # <<>>
           /\ \A m \in Nodes \ {n} : stack'[m] = stack[m]
           /\ \A m \in Nodes, ch \in Channels :
                  Reading(m, ch)' => Reading(m, ch) \/ (m = n /\ ch = new)
  <1> DEFINE e == [ch |-> new, spinning |-> FALSE]
             s == Append(stack[n], e)
  <1>1. stack \in [Nodes -> Seq(Entry)] /\ e \in Entry /\ e.ch = new
    BY DEF DataType, Entry
  <1>2. stack' = [stack EXCEPT ![n] = s]
    OBVIOUS
  <1> HIDE DEF e
  <1>3. /\ s \in Seq(Entry) /\ s # <<>>
        /\ \A k \in DOMAIN s : (k \in DOMAIN stack[n] /\ s[k] = stack[n][k]) \/ s[k] = e
    BY <1>1
  <1> HIDE DEF s
  <1>4. stack'[n] = s /\ \A m \in Nodes \ {n} : stack'[m] = stack[m]
    BY <1>1, <1>2
  <1>5. stack' \in [Nodes -> Seq(Entry)]
    BY <1>1, <1>2, <1>3
  <1>6. ASSUME NEW m \in Nodes, NEW ch \in Channels, Reading(m, ch)'
        PROVE  Reading(m, ch) \/ (m = n /\ ch = new)
    BY <1>1, <1>3, <1>4, <1>6 DEF Reading
  <1> QED
    BY <1>3, <1>4, <1>5, <1>6

LEMMA SameStack ==
    ASSUME DataType, NEW n, UNCHANGED stack
    PROVE  NoneRead(n)
  BY DEF NoneRead, DataType, Reading

----------------------------------------------------------------------------
(* The connections of a peer are numbered in the order they are opened.    *)

NewConn(p) == <<p, Cardinality({u \in Used : u[1] = p}) + 1>>

LEMMA NewConnIs ==
    ASSUME TypeOK, NumberInv, NEW p \in Peers, Connect(p)
    PROVE  \E k \in 0 .. MaxConns - 1 :
               /\ NewConn(p) = <<p, k + 1>> /\ NewConn(p) \in Conns \ Used
               /\ \A i \in 1 .. MaxConns : <<p, i>> \in Used <=> i <= k
  <1> DEFINE Mine == {u \in Used : u[1] = p}
  <1>1. PICK k \in 0 .. MaxConns : \A i \in 1 .. MaxConns : <<p, i>> \in Used <=> i <= k
    BY DEF NumberInv
  <1>2. MaxConns \in Nat /\ k \in Nat /\ k <= MaxConns
    BY BoundAssumption
  <1>3. Mine = {<<p, i>> : i \in 1 .. k}
    <2>1. ASSUME NEW u \in Mine
          PROVE  \E i \in 1 .. k : u = <<p, i>>
      <3>1. PICK i \in 1 .. MaxConns : u = <<p, i>>
        BY DEF Used, Conns
      <3> QED
        BY <3>1, <1>1, <1>2
    <2>2. ASSUME NEW i \in 1 .. k
          PROVE  <<p, i>> \in Mine
      <3>1. i \in 1 .. MaxConns /\ i <= k
        BY <1>2
      <3> QED
        BY <3>1, <1>1
    <2> HIDE DEF Mine
    <2> QED
      BY <2>1, <2>2
  <1>4. Cardinality(Mine) = k
    <2> DEFINE f == [i \in 1 .. k |-> <<p, i>>]
    <2> HIDE DEF Mine
    <2>1. f \in [1 .. k -> Mine] /\ \A i, j \in 1 .. k : f[i] = f[j] => i = j
      BY <1>3
    <2>2. \A u \in Mine : \E i \in 1 .. k : f[i] = u
      BY <1>3
    <2>3. ExistsBijection(1 .. k, Mine)
      BY <2>1, <2>2 DEF ExistsBijection, Bijection, Injection, Surjection, IsInjective
    <2>4. IsFiniteSet(1 .. k) /\ Cardinality(1 .. k) = k
      <3>1. /\ IsFiniteSet(1 .. k)
            /\ Cardinality(1 .. k) = IF 1 > k THEN 0 ELSE k - 1 + 1
        BY <1>2, FS_Interval
      <3> QED
        BY <3>1, <1>2
    <2> QED
      BY <2>3, <2>4, FS_Bijection
  <1>5. NewConn(p) = <<p, k + 1>>
    BY <1>4 DEF NewConn
  <1>6. NewConn(p) \in Conns
    BY NextConn DEF Connect, NewConn
  <1>7. k + 1 \in 1 .. MaxConns
    BY <1>2, <1>5, <1>6 DEF Conns
  <1>8. <<p, k + 1>> \notin Used
    <2>1. ~(k + 1 <= k)
      BY <1>2
    <2> QED
      BY <1>1, <1>7, <2>1
  <1>9. k \in 0 .. MaxConns - 1
    BY <1>2, <1>7
  <1> QED
    BY <1>1, <1>5, <1>6, <1>8, <1>9

LEMMA ConnectDoes ==
    ASSUME TypeOK, NumberInv, NEW p \in Peers, Connect(p)
    PROVE  /\ NewConn(p) \in Conns \ Used /\ NewConn(p)[1] = p
           /\ stack[p] = <<>> /\ device[p] = NoDevice
           /\ link' = [link EXCEPT ![NewConn(p)] = "up"] /\ Used' = Used \cup {NewConn(p)}
           /\ device' = [device EXCEPT ![p] = NewConn(p)]
           /\ UNCHANGED <<sent, got, wire, clients, gone, buffer, stack>>
  <1>1. NewConn(p) \in Conns \ Used /\ NewConn(p)[1] = p
    BY NewConnIs
  <1>2. /\ stack[p] = <<>> /\ device[p] = NoDevice
        /\ link' = [link EXCEPT ![NewConn(p)] = "up"]
        /\ device' = [device EXCEPT ![p] = NewConn(p)]
        /\ UNCHANGED <<sent, got, wire, clients, gone, buffer, stack>>
    BY DEF Connect, NewConn, serverVars
  <1>3. Used' = Used \cup {NewConn(p)}
    BY <1>1, <1>2 DEF Used, TypeOK
  <1> QED
    BY <1>1, <1>2, <1>3

\* Nothing but a new connection is used for the first time.
LEMMA UsedStep ==
    ASSUME TypeOK, DeviceInv, [Next]_vars
    PROVE  (\E p \in Peers : Connect(p)) \/ Used' = Used
  <1>1. ASSUME NEW p \in Peers, DisconnectServer(p)
        PROVE  Used' = Used
    BY <1>1 DEF DisconnectServer, Used
  <1>2. ASSUME NEW p \in Peers, ProtocolError(p)
        PROVE  Used' = Used
    <2>1. device[p] \in Used
      BY <1>2 DEF ProtocolError, DeviceInv
    <2> QED
      BY <1>2, <2>1 DEF ProtocolError, Used, TypeOK
  <1>3. ASSUME NEW p \in Peers, NEW call \in Calls, PeerCall(p, call)
        PROVE  Used' = Used
    BY <1>3 DEF PeerCall, Write, Used
  <1>4. ASSUME NEW c \in Conns, Accept(c) \/ ClientDisconnected(c)
        PROVE  Used' = Used
    BY <1>4 DEF Accept, ClientDisconnected, Used
  <1>5. ASSUME NEW c \in Conns, Break(c)
        PROVE  Used' = Used
    BY <1>5 DEF Break, Used, TypeOK
  <1>6. ASSUME NEW ids, NEW call \in Calls, ServerCall(ids, call)
        PROVE  Used' = Used
    BY <1>6 DEF ServerCall, Write, Used
  <1>7. ASSUME NEW ch \in Channels, ReadyRead(ch)
        PROVE  Used' = Used
    BY <1>7 DEF ReadyRead, Used
  <1>8. ASSUME NEW n \in Nodes, Dispatch(n) \/ Return(n) \/ Hang(n) \/ CloseBox(n)
        PROVE  Used' = Used
    BY <1>8 DEF Dispatch, Return, Hang, CloseBox, Used
  <1>9. CASE UNCHANGED vars
    BY <1>9 DEF vars, Used
  <1> QED
    BY <1>1, <1>2, <1>3, <1>4, <1>5, <1>6, <1>7, <1>8, <1>9 DEF Next, Handle

----------------------------------------------------------------------------
(* Bytes stay the bytes of calls that have been made.                      *)

LEMMA WriteDoes ==
    ASSUME TypeOK, NEW S, NEW call \in Calls, Write(S, call)
    PROVE  /\ \A ch \in Channels : ch \in S =>
                  /\ sent'[ch] = Append(sent[ch], call)
                  /\ wire'[ch] = wire[ch] \o Frame(ch, Len(sent[ch]) + 1, call)
           /\ \A ch \in Channels : ch \notin S => sent'[ch] = sent[ch] /\ wire'[ch] = wire[ch]
           /\ DOMAIN wire' = Channels
           /\ UNCHANGED <<link, got, clients, gone, device, buffer, stack>>
  BY DEF Write, serverVars

SentGrows ==
    \A ch \in Channels :
        /\ Len(sent[ch]) \in Nat /\ Len(sent'[ch]) \in Nat /\ Len(sent[ch]) <= Len(sent'[ch])
        /\ \A i \in 1 .. Len(sent[ch]) : sent'[ch][i] = sent[ch][i]

LEMMA WriteGrows ==
    ASSUME TypeOK, NEW S, NEW call \in Calls, Write(S, call)
    PROVE  SentGrows
  <1> SUFFICES ASSUME NEW ch \in Channels
               PROVE  /\ Len(sent[ch]) \in Nat /\ Len(sent'[ch]) \in Nat
                      /\ Len(sent[ch]) <= Len(sent'[ch])
                      /\ \A i \in 1 .. Len(sent[ch]) : sent'[ch][i] = sent[ch][i]
    BY DEF SentGrows
  <1>1. sent[ch] \in Seq(Calls)
    BY DEF TypeOK
  <1>2. sent'[ch] = sent[ch] \/ sent'[ch] = Append(sent[ch], call)
    BY WriteDoes
  <1> QED
    BY <1>1, <1>2

LEMMA SentStep ==
    ASSUME TypeOK, [Next]_vars
    PROVE  SentGrows
  <1>1. ASSUME UNCHANGED sent
        PROVE  SentGrows
    BY <1>1 DEF SentGrows, TypeOK
  <1>2. ASSUME NEW p \in Peers, NEW call \in Calls, PeerCall(p, call)
        PROVE  SentGrows
    BY <1>2, WriteGrows DEF PeerCall
  <1>3. ASSUME NEW ids, NEW call \in Calls, ServerCall(ids, call)
        PROVE  SentGrows
    BY <1>3, WriteGrows DEF ServerCall
  <1>4. \/ UNCHANGED sent
        \/ \E p \in Peers, call \in Calls : PeerCall(p, call)
        \/ \E ids \in {clients} \cup {{c} : c \in Conns}, call \in Calls : ServerCall(ids, call)
    BY DEF Next, vars, Handle, Connect, DisconnectServer, ProtocolError, Accept, Break,
           ClientDisconnected, ReadyRead, Dispatch, Return, Hang, CloseBox
  <1> QED
    BY <1>1, <1>2, <1>3, <1>4

LEMMA KnownGrows ==
    ASSUME SentGrows
    PROVE  Known \subseteq Known' /\ \A b \in Known : IsLast(b)' <=> IsLast(b)
  <1> SUFFICES ASSUME NEW b \in Known
               PROVE  b \in Known' /\ (IsLast(b)' <=> IsLast(b))
    OBVIOUS
  <1>1. b \in ByteSet /\ b.ch \in Channels /\ b.call \in 1 .. Len(sent[b.ch])
    BY KnownBytes
  <1>2. b.call \in 1 .. Len(sent'[b.ch]) /\ sent'[b.ch][b.call] = sent[b.ch][b.call]
    BY <1>1 DEF SentGrows
  <1>3. b \in Known'
    BY <1>1, <1>2 DEF Known
  <1> QED
    BY <1>2, <1>3 DEF IsLast

\* A header stands for a length.
LEMMA LengthNat ==
    ASSUME TypeOK, NEW buf \in Seq(Known), Len(buf) >= HeaderLen
    PROVE  Lengths(buf) \subseteq Nat
  <1> DEFINE header == SubSeq(buf, 1, HeaderLen)
  <1>1. header[1] \in Known
    BY DEF HeaderLen
  <1>2. CASE Belong(header)
    <2>1. PICK b \in Known : b = header[1]
      BY <1>1
    <2>2. b.ch \in Channels /\ b.call \in 1 .. Len(sent[b.ch])
      BY KnownBytes
    <2>3. sent[b.ch][b.call] \in Calls
      BY <2>2 DEF TypeOK
    <2>4. Size[sent[b.ch][b.call]] \in Nat
      BY <2>3, SizeAssumption
    <2>5. Lengths(buf) = {Size[sent[b.ch][b.call]]}
      BY <1>2, <2>1 DEF Lengths
    <2> QED
      BY <2>4, <2>5
  <1>3. CASE ~Belong(header)
    <2>1. Lengths(buf) = 0 .. MaxSize
      BY <1>3 DEF Lengths
    <2>2. \A m : 0 .. m \subseteq Nat
      OBVIOUS
    <2> QED
      BY <2>1, <2>2
  <1> QED
    BY <1>2, <1>3

\* A frame is taken from a buffer.
Took(key, length) ==
    /\ length \in Nat /\ key \in DOMAIN buffer /\ buffer[key] \in Seq(Known)
    /\ HeaderLen + length <= Len(buffer[key])
    /\ buffer' = [buffer EXCEPT ![key] =
                      SubSeq(buffer[key], HeaderLen + length + 1, Len(buffer[key]))]

LEMMA DispatchDoes ==
    ASSUME TypeOK, DataType, NEW n \in Nodes, Dispatch(n)
    PROVE  /\ stack[n] # <<>> /\ Top(n).ch \in Channels /\ Reading(n, Top(n).ch)
           /\ NoneRead(n) /\ stack'[n] # <<>>
           /\ \E length \in Lengths(buffer[Key(Top(n).ch)]) : Took(Key(Top(n).ch), length)
           /\ \A ch \in Channels \ {Top(n).ch} : got'[ch] = got[ch]
           /\ UNCHANGED <<link, sent, wire, clients, gone, device>>
  <1> DEFINE key == Key(Top(n).ch)
  <1>1. stack[n] # <<>> /\ key \in DOMAIN buffer /\ Len(buffer[key]) >= HeaderLen
    BY DEF Dispatch, Handling, HasHeader
  <1>2. buffer[key] \in Seq(Known)
    BY <1>1 DEF DataType
  <1>3. PICK length \in Lengths(buffer[key]) :
            /\ length <= Len(buffer[key]) - HeaderLen
            /\ buffer' = [buffer EXCEPT ![key] =
                              SubSeq(buffer[key], HeaderLen + length + 1, Len(buffer[key]))]
            /\ Spin(n, FALSE) \/ \E call : Spin(n, call \in Spinning)
    BY DEF Dispatch, CanDeserialize
  <1>4. length \in Nat
    BY <1>1, <1>2, <1>3, LengthNat
  <1>5. Took(key, length)
    <2>1. Len(buffer[key]) \in Nat
      BY <1>2
    <2>2. HeaderLen + length <= Len(buffer[key])
      BY <1>3, <1>4, <2>1 DEF HeaderLen
    <2> QED
      BY <1>1, <1>2, <1>3, <1>4, <2>2 DEF Took
  <1>6. NoneRead(n) /\ stack'[n] # <<>>
    <2>1. ASSUME NEW yes \in BOOLEAN, Spin(n, yes)
          PROVE  NoneRead(n) /\ stack'[n] # <<>>
      BY <1>1, <2>1, SpinStack
    <2>2. ASSUME NEW call, Spin(n, call \in Spinning)
          PROVE  NoneRead(n) /\ stack'[n] # <<>>
      <3>1. (call \in Spinning) \in BOOLEAN
        OBVIOUS
      <3> QED
        BY <2>1, <2>2, <3>1, Zenon
    <2> QED
      BY <1>3, <2>1, <2>2
  <1>7. /\ \A ch \in Channels \ {Top(n).ch} : got'[ch] = got[ch]
        /\ UNCHANGED <<link, sent, wire, clients, gone, device>>
    BY DEF Dispatch, TypeOK, serverVars
  <1> QED
    BY <1>1, <1>3, <1>5, <1>6, <1>7, TopOf

LEMMA ProtocolErrorDoes ==
    ASSUME TypeOK, DataType, NEW p \in Peers, ProtocolError(p)
    PROVE  /\ p \in Nodes /\ stack[p] # <<>> /\ Top(p).ch \in Channels /\ Reading(p, Top(p).ch)
           /\ NoneRead(p) /\ device[p] \in Conns /\ device[p] # NoDevice
           /\ p \in DOMAIN buffer /\ Len(buffer[p]) >= HeaderLen
           /\ \E length \in Lengths(buffer[p]) :
                  /\ length > 0 /\ ~Sound(Taken(buffer[p], length))
                  /\ Took(p, length)
           /\ device' = [device EXCEPT ![p] = NoDevice]
           /\ link' = [link EXCEPT ![device[p]] = "broken"]
           /\ wire' = [wire EXCEPT ![<<"peer", device[p]>>] = <<>>]
           /\ UNCHANGED <<sent, got, clients, gone>>
  <1>1. /\ p \in Nodes /\ stack[p] # <<>> /\ device[p] # NoDevice
        /\ p \in DOMAIN buffer /\ Len(buffer[p]) >= HeaderLen
    BY DEF ProtocolError, Handling, HasHeader, Nodes
  <1>2. buffer[p] \in Seq(Known) /\ device[p] \in Conns
    BY <1>1 DEF DataType, TypeOK
  <1>3. PICK length \in Lengths(buffer[p]) \ {0} :
            /\ length <= Len(buffer[p]) - HeaderLen
            /\ ~Sound(Taken(buffer[p], length))
            /\ buffer' = [buffer EXCEPT ![p] =
                              SubSeq(buffer[p], HeaderLen + length + 1, Len(buffer[p]))]
    BY DEF ProtocolError, CanDeserialize
  <1>4. length \in Nat
    BY <1>1, <1>2, <1>3, LengthNat
  <1>5. Took(p, length) /\ length > 0
    <2>1. Len(buffer[p]) \in Nat
      BY <1>2
    <2>2. HeaderLen + length <= Len(buffer[p])
      BY <1>3, <1>4, <2>1 DEF HeaderLen
    <2> QED
      BY <1>1, <1>2, <1>3, <1>4, <2>2 DEF Took
  <1>6. NoneRead(p)
    BY <1>1, PopStack DEF ProtocolError
  <1>7. /\ device' = [device EXCEPT ![p] = NoDevice]
        /\ link' = [link EXCEPT ![device[p]] = "broken"]
        /\ wire' = [wire EXCEPT ![<<"peer", device[p]>>] = <<>>]
        /\ UNCHANGED <<sent, got, clients, gone>>
    BY DEF ProtocolError, serverVars
  <1> QED
    BY <1>1, <1>2, <1>3, <1>5, <1>6, <1>7, TopOf

LEMMA ReadyReadDoes ==
    ASSUME TypeOK, DataType, DeviceInv, NEW ch \in Channels, ReadyRead(ch)
    PROVE  /\ Node(ch) \in Nodes /\ ch[2] \in Used /\ Key(ch) \in DOMAIN buffer
           /\ ch[1] = "server" \/ device[ch[2][1]] = ch[2]
           /\ \E k \in 1 .. Len(wire[ch]) :
                  /\ buffer' = [buffer EXCEPT ![Key(ch)] =
                                    buffer[Key(ch)] \o SubSeq(wire[ch], 1, k)]
                  /\ wire' = [wire EXCEPT ![ch] = SubSeq(wire[ch], k + 1, Len(wire[ch]))]
           /\ wire[ch] # <<>>
           /\ stack' = [stack EXCEPT ![Node(ch)] = Append(@, [ch |-> ch, spinning |-> FALSE])]
           /\ UNCHANGED <<link, sent, got, clients, gone, device>>
  <1>1. /\ IF ch[1] = "server" THEN ch[2] \in clients ELSE device[Node(ch)] = ch[2]
        /\ wire[ch] # <<>>
        /\ stack' = [stack EXCEPT ![Node(ch)] = Append(@, [ch |-> ch, spinning |-> FALSE])]
        /\ UNCHANGED <<link, sent, got, clients, gone, device>>
    BY DEF ReadyRead, serverVars
  <1>2. \E k \in 1 .. Len(wire[ch]) :
            /\ buffer' = [buffer EXCEPT ![Key(ch)] = buffer[Key(ch)] \o SubSeq(wire[ch], 1, k)]
            /\ wire' = [wire EXCEPT ![ch] = SubSeq(wire[ch], k + 1, Len(wire[ch]))]
    BY DEF ReadyRead, TypeOK, DataType
  <1>3. CASE ch[1] = "server"
    <2>1. Key(ch) = ch[2] /\ Node(ch) \in Nodes
      BY <1>3, ChannelForms
    <2> QED
      BY <1>1, <1>2, <1>3, <2>1 DEF TypeOK
  <1>4. CASE ch[1] # "server"
    <2>1. /\ ch[1] = "peer" /\ Key(ch) = ch[2][1] /\ Node(ch) = ch[2][1] /\ ch[2][1] \in Peers
          /\ Node(ch) \in Nodes /\ ch[2] = <<ch[2][1], ch[2][2]>>
      BY <1>4, ChannelForms
    <2>2. device[ch[2][1]] = ch[2]
      BY <1>1, <1>4, <2>1
    <2>3. ch[2] # NoDevice
      BY <2>1 DEF NoDevice
    <2>4. ch[2] \in Used
      BY <2>1, <2>2, <2>3 DEF DeviceInv
    <2> QED
      BY <1>1, <1>2, <2>1, <2>2, <2>4 DEF TypeOK
  <1> QED
    BY <1>3, <1>4

LEMMA LiftData ==
    ASSUME SentGrows,
           wire' \in [Channels -> Seq(Known)],
           buffer' \in [clients' \cup Peers -> Seq(Known)],
           stack' \in [Nodes -> Seq(Entry)]
    PROVE  DataType'
  <1>1. \A s \in Seq(Known) : s \in Seq(Known')
    BY KnownGrows, LargerSeq
  <1>2. wire' \in [Channels -> Seq(Known')]
    BY <1>1
  <1>3. buffer' \in [clients' \cup Peers -> Seq(Known')]
    BY <1>1
  <1> QED
    BY <1>2, <1>3 DEF DataType

LEMMA WriteData ==
    ASSUME TypeOK, DataType, NEW S, NEW call \in Calls, Write(S, call)
    PROVE  DataType'
  <1>1. SentGrows
    BY WriteGrows
  <1>2. Known \subseteq Known'
    BY <1>1, KnownGrows
  <1>3. ASSUME NEW ch \in Channels
        PROVE  wire'[ch] \in Seq(Known')
    <2>1. wire[ch] \in Seq(Known')
      <3>1. wire[ch] \in Seq(Known)
        BY DEF DataType
      <3> QED
        BY <1>2, <3>1, LargerSeq
    <2>2. CASE ch \in S
      <3> DEFINE n == Len(sent[ch]) + 1
                 F == Frame(ch, n, call)
      <3>1. sent[ch] \in Seq(Calls)
        BY DEF TypeOK
      <3>2. sent'[ch] = Append(sent[ch], call) /\ wire'[ch] = wire[ch] \o F
        BY <2>2, WriteDoes
      <3>3. n \in Nat /\ n \in 1 .. Len(sent'[ch])
        BY <3>1, <3>2
      <3>4. \A i \in Nat : Byte(ch, n, i) \in Known'
        BY <3>3 DEF Byte, Known, ByteSet
      <3>5. FrameLen(call) \in Nat
        BY FrameLength
      <3>6. F = [i \in 1 .. FrameLen(call) |-> Byte(ch, n, i)]
        BY DEF Frame, FrameLen
      <3> HIDE DEF n, F
      <3>7. F \in Seq(Known')
        BY <3>4, <3>5, <3>6
      <3> QED
        BY <2>1, <3>2, <3>7, Concat
    <2>3. CASE ch \notin S
      BY <2>1, <2>3, WriteDoes
    <2> QED
      BY <2>2, <2>3
  <1>4. DOMAIN wire' = Channels /\ UNCHANGED <<clients, buffer, stack>>
    BY WriteDoes
  <1>5. \A s \in Seq(Known) : s \in Seq(Known')
    BY <1>2, LargerSeq
  <1>6. buffer' \in [clients' \cup Peers -> Seq(Known')]
    BY <1>4, <1>5 DEF DataType
  <1>7. wire' \in [Channels -> Seq(Known')]
    <2>1. wire' = [ch \in Channels |-> wire'[ch]]
      BY DEF Write
    <2> QED
      BY <1>3, <2>1
  <1> QED
    BY <1>4, <1>6, <1>7 DEF DataType

LEMMA EmptyBytes ==
    ASSUME DataType, NEW ch
    PROVE  [wire EXCEPT ![ch] = <<>>] \in [Channels -> Seq(Known)]
  <1>1. wire \in [Channels -> Seq(Known)] /\ <<>> \in Seq(Known)
    BY DEF DataType
  <1> QED
    BY <1>1

LEMMA TookData ==
    ASSUME DataType, NEW key, NEW length, Took(key, length), UNCHANGED clients
    PROVE  buffer' \in [clients' \cup Peers -> Seq(Known)]
  <1>1. SubSeq(buffer[key], HeaderLen + length + 1, Len(buffer[key])) \in Seq(Known)
    BY Part DEF Took, HeaderLen
  <1> QED
    BY <1>1 DEF Took, DataType

LEMMA DataStep ==
    ASSUME TypeOK, DataType, NumberInv, DeviceInv, [Next]_vars
    PROVE  DataType'
  <1> DEFINE Typed == /\ wire' \in [Channels -> Seq(Known)]
                      /\ buffer' \in [clients' \cup Peers -> Seq(Known)]
                      /\ stack' \in [Nodes -> Seq(Entry)]
  <1>0. SentGrows
    BY SentStep
  <1>1. ASSUME NEW p \in Peers, Connect(p)
        PROVE  Typed
    BY <1>1, ConnectDoes DEF DataType
  <1>2. ASSUME NEW p \in Peers, DisconnectServer(p)
        PROVE  Typed
    <2>1. /\ wire' = [wire EXCEPT ![<<"peer", device[p]>>] = <<>>]
          /\ UNCHANGED <<clients, buffer, stack>>
      BY <1>2 DEF DisconnectServer, serverVars
    <2>2. wire' \in [Channels -> Seq(Known)]
      BY <2>1, EmptyBytes
    <2> QED
      BY <2>1, <2>2 DEF DataType
  <1>3. ASSUME NEW p \in Peers, ProtocolError(p)
        PROVE  Typed
    <2>1. buffer' \in [clients' \cup Peers -> Seq(Known)]
      BY <1>3, ProtocolErrorDoes, TookData
    <2>2. stack' \in [Nodes -> Seq(Entry)]
      BY <1>3, ProtocolErrorDoes DEF NoneRead
    <2>3. wire' \in [Channels -> Seq(Known)]
      <3>1. wire' = [wire EXCEPT ![<<"peer", device[p]>>] = <<>>]
        BY <1>3, ProtocolErrorDoes
      <3> QED
        BY <3>1, EmptyBytes
    <2> QED
      BY <2>1, <2>2, <2>3
  <1>4. ASSUME NEW c \in Conns, Accept(c)
        PROVE  Typed
    BY <1>4 DEF Accept, DataType
  <1>5. ASSUME NEW c \in Conns, Break(c)
        PROVE  Typed
    <2>1. PICK n \in 0 .. Len(wire[<<"server", c>>]), m \in 0 .. Len(wire[<<"peer", c>>]) :
              wire' = [wire EXCEPT ![<<"server", c>>] = SubSeq(wire[<<"server", c>>], 1, n),
                                   ![<<"peer", c>>] = SubSeq(wire[<<"peer", c>>], 1, m)]
      BY <1>5 DEF Break, DataType, Channels
    <2>2. <<"server", c>> \in Channels /\ <<"peer", c>> \in Channels
      BY DEF Channels
    <2>3. wire \in [Channels -> Seq(Known)]
      BY DEF DataType
    <2>4. /\ SubSeq(wire[<<"server", c>>], 1, n) \in Seq(Known)
          /\ SubSeq(wire[<<"peer", c>>], 1, m) \in Seq(Known)
      BY <2>2, <2>3, Pieces
    <2>5. wire' \in [Channels -> Seq(Known)]
      BY <2>1, <2>2, <2>3, <2>4
    <2> QED
      BY <1>5, <2>5 DEF Break, DataType, serverVars
  <1>6. ASSUME NEW c \in Conns, ClientDisconnected(c)
        PROVE  Typed
    <2>1. c \notin Peers
      BY ChannelOf
    <2>2. /\ clients' = clients \ {c} /\ UNCHANGED stack
          /\ buffer' = [k \in DOMAIN buffer \ {c} |-> buffer[k]]
          /\ wire' = [wire EXCEPT ![<<"server", c>>] = <<>>]
      BY <1>6 DEF ClientDisconnected, Without
    <2>3. wire' \in [Channels -> Seq(Known)]
      BY <2>2, EmptyBytes
    <2>4. buffer' \in [clients' \cup Peers -> Seq(Known)]
      BY <2>1, <2>2 DEF DataType
    <2> QED
      BY <2>2, <2>3, <2>4 DEF DataType
  <1>7. ASSUME NEW ch \in Channels, ReadyRead(ch)
        PROVE  Typed
    <2>1. PICK k \in 1 .. Len(wire[ch]) :
              /\ buffer' = [buffer EXCEPT ![Key(ch)] =
                                buffer[Key(ch)] \o SubSeq(wire[ch], 1, k)]
              /\ wire' = [wire EXCEPT ![ch] = SubSeq(wire[ch], k + 1, Len(wire[ch]))]
      BY <1>7, ReadyReadDoes
    <2>2. Key(ch) \in DOMAIN buffer /\ UNCHANGED clients
      BY <1>7, ReadyReadDoes
    <2>3. wire[ch] \in Seq(Known) /\ buffer[Key(ch)] \in Seq(Known)
      BY <2>2 DEF DataType
    <2>4. k \in 0 .. Len(wire[ch])
      OBVIOUS
    <2>5. /\ SubSeq(wire[ch], 1, k) \in Seq(Known)
          /\ SubSeq(wire[ch], k + 1, Len(wire[ch])) \in Seq(Known)
      BY <2>3, <2>4, Pieces
    <2>6. buffer[Key(ch)] \o SubSeq(wire[ch], 1, k) \in Seq(Known)
      BY <2>3, <2>5, Concat
    <2>7. /\ wire' \in [Channels -> Seq(Known)]
          /\ buffer' \in [clients' \cup Peers -> Seq(Known)]
      BY <2>1, <2>2, <2>5, <2>6 DEF DataType
    <2>8. stack' \in [Nodes -> Seq(Entry)]
      <3>1. PICK n \in Nodes : n = Node(ch)
        BY <1>7, ReadyReadDoes
      <3>2. stack' = [stack EXCEPT ![n] = Append(@, [ch |-> ch, spinning |-> FALSE])]
        BY <1>7, <3>1, ReadyReadDoes
      <3> QED
        BY <3>2, PushStack
    <2> QED
      BY <2>7, <2>8
  <1>8. ASSUME NEW n \in Nodes, Dispatch(n)
        PROVE  Typed
    <2>1. buffer' \in [clients' \cup Peers -> Seq(Known)]
      BY <1>8, DispatchDoes, TookData
    <2>2. stack' \in [Nodes -> Seq(Entry)] /\ UNCHANGED wire
      BY <1>8, DispatchDoes DEF NoneRead
    <2> QED
      BY <2>1, <2>2 DEF DataType
  <1>9. ASSUME NEW n \in Nodes, Return(n)
        PROVE  Typed
    <2>1. stack[n] # <<>> /\ Pop(n) /\ UNCHANGED <<wire, buffer, clients>>
      BY <1>9 DEF Return, Handling, serverVars
    <2>2. stack' \in [Nodes -> Seq(Entry)]
      BY <2>1, PopStack DEF NoneRead
    <2> QED
      BY <2>1, <2>2 DEF DataType
  <1>10. ASSUME NEW n \in Nodes, CloseBox(n)
         PROVE  Typed
    <2>1. stack[n] # <<>> /\ Spin(n, FALSE) /\ UNCHANGED <<wire, buffer, clients>>
      BY <1>10 DEF CloseBox, serverVars
    <2>2. stack' \in [Nodes -> Seq(Entry)]
      BY <2>1, SpinStack DEF NoneRead
    <2> QED
      BY <2>1, <2>2 DEF DataType
  <1>11. ASSUME NEW n \in Nodes, Hang(n)
         PROVE  Typed
    BY <1>11 DEF Hang, DataType, serverVars
  <1>12. ASSUME UNCHANGED vars
         PROVE  Typed
    <2>1. UNCHANGED <<wire, buffer, stack, clients>>
      BY <1>12 DEF vars
    <2> QED
      BY <2>1 DEF DataType
  <1>13. Typed => DataType'
    BY <1>0, LiftData
  <1>14. ASSUME NEW p \in Peers, NEW call \in Calls, PeerCall(p, call)
         PROVE  DataType'
    BY <1>14, WriteData DEF PeerCall
  <1>15. ASSUME NEW ids, NEW call \in Calls, ServerCall(ids, call)
         PROVE  DataType'
    BY <1>15, WriteData DEF ServerCall
  <1> HIDE DEF Typed
  <1> QED
    BY <1>1, <1>2, <1>3, <1>4, <1>5, <1>6, <1>7, <1>8, <1>9, <1>10, <1>11, <1>12, <1>13,
       <1>14, <1>15
    DEF Next, Handle

----------------------------------------------------------------------------
(* The numbers, the devices and the stacks.                                *)

LEMMA UsedGrows ==
    ASSUME TypeOK, NumberInv, DeviceInv, [Next]_vars
    PROVE  /\ Used \subseteq Used'
           /\ \A p : Later(p) => Later(p)'
           /\ \A ch : Settled(ch) => Settled(ch)'
           /\ \A p : Later(p)' /\ ~Later(p) => Connect(p)
  <1>1. Used \subseteq Used' /\ \A c \in Used' \ Used : Connect(c[1])
    <2>1. ASSUME NEW p \in Peers, Connect(p)
          PROVE  Used \subseteq Used' /\ \A c \in Used' \ Used : Connect(c[1])
      <3>1. Used' = Used \cup {NewConn(p)} /\ NewConn(p)[1] = p
        BY <2>1, ConnectDoes
      <3> QED
        BY <2>1, <3>1
    <2> QED
      BY <2>1, UsedStep
  <1>2. \A p : Later(p) => Later(p)'
    BY <1>1 DEF Later
  <1>3. \A p : Later(p)' /\ ~Later(p) => Connect(p)
    BY <1>1 DEF Later
  <1> QED
    BY <1>1, <1>2, <1>3 DEF Settled

LEMMA NumberStep ==
    ASSUME TypeOK, NumberInv, DeviceInv, [Next]_vars
    PROVE  NumberInv'
  <1>1. CASE Used' = Used
    BY <1>1 DEF NumberInv
  <1>2. ASSUME NEW p \in Peers, Connect(p)
        PROVE  NumberInv'
    <2>1. PICK k \in 0 .. MaxConns - 1 :
              /\ NewConn(p) = <<p, k + 1>>
              /\ \A i \in 1 .. MaxConns : <<p, i>> \in Used <=> i <= k
      BY <1>2, NewConnIs
    <2>2. Used' = Used \cup {<<p, k + 1>>}
      BY <1>2, <2>1, ConnectDoes
    <2>3. k + 1 \in 0 .. MaxConns /\ k \in Nat
      BY BoundAssumption
    <2>4. \A i \in 1 .. MaxConns : <<p, i>> \in Used' <=> i <= k + 1
      BY <2>1, <2>2, <2>3
    <2>5. ASSUME NEW q \in Peers \ {p}
          PROVE  \E j \in 0 .. MaxConns : \A i \in 1 .. MaxConns : <<q, i>> \in Used' <=> i <= j
      <3>1. \A i : <<q, i>> \in Used' <=> <<q, i>> \in Used
        BY <2>2
      <3> QED
        BY <3>1 DEF NumberInv
    <2> QED
      BY <2>3, <2>4, <2>5 DEF NumberInv
  <1> QED
    BY <1>1, <1>2, UsedStep

LEMMA DeviceStep ==
    ASSUME TypeOK, NumberInv, DeviceInv, [Next]_vars
    PROVE  DeviceInv'
  <1> SUFFICES ASSUME NEW q \in Peers
               PROVE  /\ device'[q] # NoDevice => device'[q] \in Used' /\ device'[q][1] = q
                      /\ Later(q)' => device'[q] # First(q)
    BY DEF DeviceInv, First
  <1>1. /\ device[q] # NoDevice => device[q] \in Used /\ device[q][1] = q
        /\ Later(q) => device[q] # First(q)
    BY DEF DeviceInv
  <1>2. CASE Connect(q)
    <2>1. PICK k \in 0 .. MaxConns - 1 :
              /\ NewConn(q) = <<q, k + 1>>
              /\ \A i \in 1 .. MaxConns : <<q, i>> \in Used <=> i <= k
      BY <1>2, NewConnIs
    <2>2. device'[q] = <<q, k + 1>> /\ Used' = Used \cup {<<q, k + 1>>}
      BY <1>2, <2>1, ConnectDoes DEF TypeOK
    <2>3. ASSUME Later(q)'
          PROVE  <<q, k + 1>> # First(q)
      <3>1. SUFFICES ASSUME k = 0
                     PROVE  FALSE
        BY DEF First
      <3>2. PICK c \in Used' : c[1] = q /\ c[2] # 1
        BY <2>3 DEF Later
      <3>3. c \in Used
        BY <2>2, <3>1, <3>2
      <3>4. PICK i \in 1 .. MaxConns : c = <<q, i>>
        BY <3>2, <3>3 DEF Used, Conns
      <3> QED
        BY <2>1, <3>1, <3>3, <3>4
    <2> QED
      BY <2>2, <2>3
  <1>3. CASE ~Connect(q)
    <2>1. Used \subseteq Used' /\ (Later(q)' => Later(q))
      BY <1>3, UsedGrows
    <2>2. device'[q] = device[q] \/ device'[q] = NoDevice
      <3>1. ASSUME NEW p \in Peers, Connect(p)
            PROVE  device'[q] = device[q]
        BY <1>3, <3>1, ConnectDoes DEF TypeOK
      <3>2. ASSUME NEW p \in Peers, DisconnectServer(p) \/ ProtocolError(p)
            PROVE  device'[q] = device[q] \/ device'[q] = NoDevice
        BY <3>2 DEF DisconnectServer, ProtocolError, TypeOK
      <3>3. \/ \E p \in Peers : Connect(p) \/ DisconnectServer(p) \/ ProtocolError(p)
            \/ UNCHANGED device
        BY DEF Next, vars, Handle, PeerCall, ServerCall, Write, Accept, Break,
               ClientDisconnected, ReadyRead, Dispatch, Return, Hang, CloseBox
      <3> QED
        BY <3>1, <3>2, <3>3
    <2>3. NoDevice # First(q)
      BY DEF NoDevice, First
    <2> QED
      BY <1>1, <2>1, <2>2, <2>3
  <1> QED
    BY <1>2, <1>3

\* What a step reads that was not read before, it begins to read.
LEMMA ReadingStep ==
    ASSUME TypeOK, DataType, NumberInv, DeviceInv, [Next]_vars,
           NEW n \in Nodes, NEW ch \in Channels, Reading(n, ch)'
    PROVE  Reading(n, ch) \/ (ReadyRead(ch) /\ n = Node(ch))
  <1>1. ASSUME NEW m, NoneRead(m)
        PROVE  Reading(n, ch)
    BY <1>1 DEF NoneRead
  <1>2. ASSUME NEW m \in Nodes, Dispatch(m)
        PROVE  Reading(n, ch)
    BY <1>1, <1>2, DispatchDoes
  <1>3. ASSUME NEW p \in Peers, ProtocolError(p)
        PROVE  Reading(n, ch)
    BY <1>1, <1>3, ProtocolErrorDoes
  <1>4. ASSUME NEW m \in Nodes, Return(m)
        PROVE  Reading(n, ch)
    BY <1>1, <1>4, PopStack DEF Return, Handling
  <1>5. ASSUME NEW m \in Nodes, CloseBox(m)
        PROVE  Reading(n, ch)
    BY <1>1, <1>5, SpinStack DEF CloseBox
  <1>6. ASSUME NEW new \in Channels, ReadyRead(new)
        PROVE  Reading(n, ch) \/ (ReadyRead(ch) /\ n = Node(ch))
    <2>1. PICK m \in Nodes : m = Node(new)
      BY <1>6, ReadyReadDoes
    <2>2. stack' = [stack EXCEPT ![m] = Append(@, [ch |-> new, spinning |-> FALSE])]
      BY <1>6, <2>1, ReadyReadDoes
    <2>3. Reading(n, ch) \/ (n = m /\ ch = new)
      BY <2>2, PushStack
    <2> QED
      BY <1>6, <2>1, <2>3
  <1>7. ASSUME UNCHANGED stack
        PROVE  Reading(n, ch)
    BY <1>7 DEF Reading
  <1>8. \/ \E m \in Nodes : Dispatch(m) \/ Return(m) \/ CloseBox(m)
        \/ \E p \in Peers : ProtocolError(p)
        \/ \E new \in Channels : ReadyRead(new)
        \/ UNCHANGED stack
    BY DEF Next, vars, Handle, Connect, DisconnectServer, PeerCall, ServerCall, Write,
           Accept, Break, ClientDisconnected, Hang
  <1> QED
    BY <1>2, <1>3, <1>4, <1>5, <1>6, <1>7, <1>8

LEMMA StackStep ==
    ASSUME TypeOK, DataType, NumberInv, DeviceInv, StackInv, [Next]_vars
    PROVE  StackInv'
  <1> SUFFICES ASSUME NEW n \in Nodes, NEW ch \in Channels, Reading(n, ch)'
               PROVE  /\ Node(ch) = n /\ ch[2] \in Used'
                      /\ ch \in FreshChannels => ~Settled(ch)'
    BY DEF StackInv, Node, FreshChannels
  <1>1. Used \subseteq Used'
    BY UsedGrows
  <1>2. CASE Reading(n, ch)
    <2>1. Node(ch) = n /\ ch[2] \in Used /\ (ch \in FreshChannels => ~Settled(ch))
      BY <1>2 DEF StackInv
    <2>2. Settled(ch)' => Settled(ch)
      <3>1. SUFFICES ASSUME ch[1] # "server", Later(ch[2][1])', ~Later(ch[2][1])
                     PROVE  FALSE
        BY DEF Settled
      <3>2. Connect(ch[2][1]) /\ ch[2][1] \in Peers
        BY <3>1, UsedGrows, ChannelForms
      <3>3. stack[ch[2][1]] = <<>>
        BY <3>2, ConnectDoes
      <3>4. n = ch[2][1]
        BY <2>1, <3>1, ChannelForms
      <3> QED
        BY <1>2, <3>3, <3>4 DEF Reading
    <2> QED
      BY <1>1, <2>1, <2>2
  <1>3. CASE ReadyRead(ch) /\ n = Node(ch)
    <2>1. ch[2] \in Used /\ (ch[1] = "server" \/ device[ch[2][1]] = ch[2])
      BY <1>3, ReadyReadDoes
    <2>2. ASSUME ch \in FreshChannels
          PROVE  ~Settled(ch)'
      <3>1. SUFFICES ASSUME ch[1] # "server"
                     PROVE  ~Later(ch[2][1])'
        BY DEF Settled
      <3>2. ch[2] = First(ch[2][1]) /\ ch[2][1] \in Peers
        BY <2>2, <3>1, FreshForms
      <3>3. device'[ch[2][1]] = First(ch[2][1])
        BY <1>3, <2>1, <3>1, <3>2, ReadyReadDoes
      <3>4. DeviceInv'
        BY DeviceStep
      <3> QED
        BY <3>2, <3>3, <3>4 DEF DeviceInv, First
    <2> QED
      BY <1>1, <1>3, <2>1, <2>2
  <1> QED
    BY <1>2, <1>3, ReadingStep

----------------------------------------------------------------------------
(* What is on the wires.                                                   *)

\* What a step leaves of the bytes of a channel, or adds to them.
WireStays(ch) ==
    \/ wire'[ch] = wire[ch] \/ wire'[ch] = <<>>
    \/ \E n \in 0 .. Len(wire[ch]) : \/ wire'[ch] = SubSeq(wire[ch], 1, n)
                                     \/ wire'[ch] = SubSeq(wire[ch], n + 1, Len(wire[ch]))
WireAdds(ch) ==
    \E n \in Nat, call \in Calls :
        wire'[ch] = wire[ch] \o Frame(ch, n, call) /\ link[ch[2]] = "up"

\* Who makes a call and whom it goes to makes no difference.
Called(call) == \E S : (\A ch \in S : link[ch[2]] = "up") /\ Write(S, call)

LEMMA CallWrites ==
    \A call \in Calls : /\ \A p \in Peers : PeerCall(p, call) => Called(call)
                        /\ \A ids : ServerCall(ids, call) => Called(call)
  <1>1. ASSUME NEW p \in Peers, NEW call \in Calls, PeerCall(p, call)
        PROVE  Called(call)
    <2> DEFINE S == {<<"server", device[p]>>}
    <2>1. (\A ch \in S : link[ch[2]] = "up") /\ Write(S, call)
      BY <1>1 DEF PeerCall
    <2> QED
      BY <2>1 DEF Called
  <1>2. ASSUME NEW ids, NEW call \in Calls, ServerCall(ids, call)
        PROVE  Called(call)
    <2> DEFINE S == {<<"peer", c>> : c \in {k \in ids \cap clients : link[k] = "up"}}
    <2>1. Write(S, call)
      BY <1>2 DEF ServerCall
    <2>2. \A ch \in S : link[ch[2]] = "up"
      OBVIOUS
    <2> QED
      BY <2>1, <2>2 DEF Called
  <1> QED
    BY <1>1, <1>2

LEMMA CallAdds ==
    ASSUME TypeOK, NEW call \in Calls, Called(call), NEW ch \in Channels
    PROVE  \/ sent'[ch] = sent[ch] /\ wire'[ch] = wire[ch]
           \/ link[ch[2]] = "up" /\ WireAdds(ch)
  <1>1. PICK S : (\A c \in S : link[c[2]] = "up") /\ Write(S, call)
    BY DEF Called
  <1>2. CASE ch \in S
    <2>1. wire'[ch] = wire[ch] \o Frame(ch, Len(sent[ch]) + 1, call)
      BY <1>1, <1>2, WriteDoes
    <2>2. sent[ch] \in Seq(Calls)
      BY DEF TypeOK
    <2>3. PICK n \in Nat : n = Len(sent[ch]) + 1
      BY <2>2
    <2>4. wire'[ch] = wire[ch] \o Frame(ch, n, call)
      BY <2>1, <2>3
    <2> QED
      BY <1>1, <1>2, <2>4 DEF WireAdds
  <1>3. CASE ch \notin S
    <2>1. sent'[ch] = sent[ch] /\ wire'[ch] = wire[ch]
      BY <1>1, <1>3 DEF Write
    <2> QED
      BY <2>1
  <1> QED
    BY <1>2, <1>3

LEMMA WireChanges ==
    ASSUME TypeOK, DataType, DeviceInv, [Next]_vars, NEW ch \in Channels
    PROVE  WireStays(ch) \/ WireAdds(ch)
  <1> USE DEF WireStays
  <1>0. wire \in [Channels -> Seq(Known)] /\ Len(wire[ch]) \in Nat
    BY DEF DataType
  <1>1. ASSUME NEW p \in Peers, DisconnectServer(p)
        PROVE  WireStays(ch)
    BY <1>0, <1>1 DEF DisconnectServer
  <1>2. ASSUME NEW p \in Peers, ProtocolError(p)
        PROVE  WireStays(ch)
    BY <1>0, <1>2 DEF ProtocolError
  <1>3. ASSUME NEW c \in Conns, Break(c)
        PROVE  WireStays(ch)
    BY <1>0, <1>3 DEF Break
  <1>4. ASSUME NEW c \in Conns, ClientDisconnected(c)
        PROVE  WireStays(ch)
    BY <1>0, <1>4 DEF ClientDisconnected
  <1>5. ASSUME NEW new \in Channels, ReadyRead(new)
        PROVE  WireStays(ch)
    <2>1. PICK k \in 1 .. Len(wire[new]) :
              wire' = [wire EXCEPT ![new] = SubSeq(wire[new], k + 1, Len(wire[new]))]
      BY <1>5, ReadyReadDoes
    <2>2. CASE ch = new
      BY <1>0, <2>1, <2>2
    <2>3. CASE ch # new
      BY <1>0, <2>1, <2>3
    <2> QED
      BY <2>2, <2>3
  <1>6. ASSUME UNCHANGED wire
        PROVE  WireStays(ch)
    BY <1>6
  <1>7. ASSUME NEW call \in Calls, Called(call)
        PROVE  WireStays(ch) \/ WireAdds(ch)
    BY <1>7, CallAdds
  <1>8. \/ \E p \in Peers : DisconnectServer(p) \/ ProtocolError(p)
        \/ \E c \in Conns : Break(c) \/ ClientDisconnected(c)
        \/ \E new \in Channels : ReadyRead(new)
        \/ \E p \in Peers, call \in Calls : PeerCall(p, call)
        \/ \E ids \in {clients} \cup {{c} : c \in Conns}, call \in Calls : ServerCall(ids, call)
        \/ UNCHANGED wire
    BY DEF Next, vars, Handle, Connect, Accept, Dispatch, Return, Hang, CloseBox
  <1> HIDE DEF WireStays
  <1> QED
    BY <1>1, <1>2, <1>3, <1>4, <1>5, <1>6, <1>7, <1>8, CallWrites

LEMMA WireStep ==
    ASSUME TypeOK, DataType, DeviceInv, WireInv, [Next]_vars
    PROVE  WireInv'
  <1> SUFFICES ASSUME NEW ch \in Channels, NEW i \in 1 .. Len(wire'[ch])
               PROVE  wire'[ch][i].ch = ch
    BY DEF WireInv
  <1>1. wire[ch] \in Seq(ByteSet) /\ \A j \in 1 .. Len(wire[ch]) : wire[ch][j].ch = ch
    BY BytesType DEF WireInv
  <1>2. CASE WireStays(ch)
    <2>1. CASE wire'[ch] = wire[ch] \/ wire'[ch] = <<>>
      BY <1>1, <2>1
    <2>2. ASSUME NEW n \in 0 .. Len(wire[ch]), wire'[ch] = SubSeq(wire[ch], 1, n)
          PROVE  wire'[ch][i].ch = ch
      BY <1>1, <2>2
    <2>3. ASSUME NEW n \in 0 .. Len(wire[ch]),
                 wire'[ch] = SubSeq(wire[ch], n + 1, Len(wire[ch]))
          PROVE  wire'[ch][i].ch = ch
      <3>1. i + n \in 1 .. Len(wire[ch]) /\ wire'[ch][i] = wire[ch][i + n]
        BY <1>1, <2>3, Part
      <3> QED
        BY <1>1, <3>1
    <2> QED
      BY <1>2, <2>1, <2>2, <2>3 DEF WireStays
  <1>3. CASE WireAdds(ch)
    <2>1. PICK n \in Nat, call \in Calls : wire'[ch] = wire[ch] \o Frame(ch, n, call)
      BY <1>3 DEF WireAdds
    <2> DEFINE F == Frame(ch, n, call)
    <2>2. /\ F \in Seq(ByteSet) /\ Len(F) = FrameLen(call)
          /\ \A j \in 1 .. FrameLen(call) : F[j] = Byte(ch, n, j)
      BY FrameBytes
    <2>3. \A j \in 1 .. Len(F) : F[j].ch = ch
      BY <2>2 DEF Byte
    <2>4. wire'[ch] = wire[ch] \o F
      BY <2>1
    <2> HIDE DEF F
    <2>5. Len(wire[ch] \o F) = Len(wire[ch]) + Len(F)
      BY <1>1, <2>2, ConcatProperties
    <2>6. \/ i \in 1 .. Len(wire[ch]) /\ wire'[ch][i] = wire[ch][i]
          \/ i - Len(wire[ch]) \in 1 .. Len(F) /\ wire'[ch][i] = F[i - Len(wire[ch])]
      BY <1>1, <2>2, <2>4, <2>5, Concat
    <2> QED
      BY <1>1, <2>3, <2>6
  <1> QED
    BY <1>2, <1>3, WireChanges

LEMMA LossStep ==
    ASSUME TypeOK, DataType, NumberInv, DeviceInv, LossInv, StackInv, [Next]_vars
    PROVE  LossInv'
  <1> DEFINE Lost(c) == link[c] = "broken" /\ wire[<<"peer", c>>] = <<>>
  <1>1. ASSUME NEW c \in Used', device'[c[1]] # c
        PROVE  link'[c] = "broken" /\ wire'[<<"peer", c>>] = <<>>
    <2>0. c \in Conns /\ c[1] \in Peers /\ <<"peer", c>> \in Channels
      BY DEF Used, Conns, Channels
    <2>1. ASSUME NEW p \in Peers, Connect(p)
          PROVE  link'[c] = "broken" /\ wire'[<<"peer", c>>] = <<>>
      <3>1. c # NewConn(p)
        BY <2>1, <1>1, <2>0, ConnectDoes DEF TypeOK
      <3>2. c \in Used
        BY <2>1, <3>1, ConnectDoes
      <3>3. device[c[1]] # c
        <4>1. CASE c[1] = p
          <5>1. device[p] = NoDevice /\ c # NoDevice
            BY <2>1, <2>0, ConnectDoes DEF Conns, NoDevice
          <5> QED
            BY <4>1, <5>1
        <4>2. CASE c[1] # p
          BY <2>1, <1>1, <2>0, <4>2, ConnectDoes DEF TypeOK
        <4> QED
          BY <4>1, <4>2
      <3>4. link[c] = "broken" /\ wire[<<"peer", c>>] = <<>>
        BY <3>2, <3>3 DEF LossInv
      <3> QED
        BY <2>1, <2>0, <3>1, <3>4, ConnectDoes DEF TypeOK
    <2>2. ASSUME Used' = Used, ~\E p \in Peers : Connect(p)
          PROVE  link'[c] = "broken" /\ wire'[<<"peer", c>>] = <<>>
      <3>0. c \in Used
        BY <2>2
      <3>1. CASE device[c[1]] # c
        <4>1. link[c] = "broken" /\ wire[<<"peer", c>>] = <<>>
          BY <3>0, <3>1 DEF LossInv
        <4>2. link'[c] = "broken"
          BY <2>2, <2>0, <4>1
          DEF Next, vars, Handle, DisconnectServer, ProtocolError, PeerCall, ServerCall, Write,
              Accept, Break, ClientDisconnected, ReadyRead, Dispatch, Return, Hang, CloseBox, TypeOK
        <4>3. wire'[<<"peer", c>>] = <<>>
          <5>1. WireStays(<<"peer", c>>) \/ WireAdds(<<"peer", c>>)
            BY <2>0, WireChanges
          <5>2. ~WireAdds(<<"peer", c>>)
            BY <4>1 DEF WireAdds
          <5> QED
            BY <4>1, <5>1, <5>2 DEF WireStays
        <4> QED
          BY <4>2, <4>3
      <3>2. CASE device[c[1]] = c
        <4>1. \E p \in Peers : /\ p = c[1] /\ device[p] = c
                               /\ DisconnectServer(p) \/ ProtocolError(p)
          BY <2>2, <3>2, <1>1, <2>0
          DEF Next, vars, Handle, DisconnectServer, ProtocolError, PeerCall, ServerCall, Write,
              Accept, Break, ClientDisconnected, ReadyRead, Dispatch, Return, Hang, CloseBox, TypeOK
        <4>2. PICK p \in Peers : device[p] = c /\ (DisconnectServer(p) \/ ProtocolError(p))
          BY <4>1
        <4>3. CASE DisconnectServer(p)
          BY <4>2, <4>3, <2>0 DEF DisconnectServer, Noticed, DataType
        <4>4. CASE ProtocolError(p)
          BY <4>2, <4>4, <2>0 DEF ProtocolError, TypeOK, DataType
        <4> QED
          BY <4>2, <4>3, <4>4
      <3> QED
        BY <3>1, <3>2
    <2> QED
      BY <2>1, <2>2, UsedStep
  <1>2. ASSUME NEW ch \in Channels, link'[ch[2]] = "unused"
        PROVE  sent'[ch] = <<>> /\ got'[ch] = <<>>
    <2>0. ch[2] \in Conns
      BY ChannelForms
    <2>1. ch[2] \notin Used /\ link[ch[2]] = "unused"
      <3>1. ch[2] \notin Used'
        BY <1>2 DEF Used
      <3> QED
        BY <2>0, <3>1, UsedGrows DEF Used
    <2>2. sent[ch] = <<>> /\ got[ch] = <<>>
      BY <2>1 DEF LossInv
    <2>3. sent'[ch] = sent[ch]
      <3>1. ASSUME NEW call \in Calls, Called(call)
            PROVE  sent'[ch] = sent[ch]
        BY <2>1, <3>1, CallAdds
      <3>2. \/ UNCHANGED sent
            \/ \E p \in Peers, call \in Calls : PeerCall(p, call)
            \/ \E ids \in {clients} \cup {{c} : c \in Conns}, call \in Calls : ServerCall(ids, call)
        BY DEF Next, vars, Handle, Connect, DisconnectServer, ProtocolError, Accept, Break,
               ClientDisconnected, ReadyRead, Dispatch, Return, Hang, CloseBox
      <3> QED
        BY <3>1, <3>2, CallWrites
    <2>4. got'[ch] = got[ch]
      <3>1. ASSUME NEW n \in Nodes, Dispatch(n)
            PROVE  got'[ch] = got[ch]
        <4>1. ch # Top(n).ch
          BY <2>1, <3>1, DispatchDoes DEF StackInv
        <4> QED
          BY <3>1, <4>1, DispatchDoes
      <3>2. (\E n \in Nodes : Dispatch(n)) \/ UNCHANGED got
        BY DEF Next, vars, Handle, Connect, DisconnectServer, ProtocolError, PeerCall, Write,
               Accept, Break, ClientDisconnected, ServerCall, ReadyRead, Return, Hang, CloseBox
      <3> QED
        BY <3>1, <3>2
    <2> QED
      BY <2>2, <2>3, <2>4
  <1> QED
    BY <1>1, <1>2 DEF LossInv

----------------------------------------------------------------------------
(* What a step does to a channel with a buffer of its own.                 *)

Kept(ch) == sent'[ch] = sent[ch] /\ got'[ch] = got[ch]

Unchanged(ch) == Kept(ch) /\ link'[ch[2]] = link[ch[2]] /\ Bytes(ch)' = Bytes(ch)

Opened(ch) ==
    Kept(ch) /\ link[ch[2]] = "unused" /\ link'[ch[2]] = "up" /\ Bytes(ch)' = Bytes(ch)

Written(ch) ==
    /\ link[ch[2]] = "up" /\ link'[ch[2]] = "up" /\ got'[ch] = got[ch]
    /\ \E call \in Calls :
           /\ sent'[ch] = Append(sent[ch], call)
           /\ Bytes(ch)' = Bytes(ch) \o Frame(ch, Len(sent[ch]) + 1, call)

Cut(ch) ==
    /\ Kept(ch) /\ link'[ch[2]] = "broken"
    /\ \E n \in 0 .. Len(Bytes(ch)) : Bytes(ch)' = SubSeq(Bytes(ch), 1, n)

Dispatched(ch) ==
    LET first == sent[ch][Len(got[ch]) + 1] IN
    /\ sent'[ch] = sent[ch] /\ link'[ch[2]] = link[ch[2]]
    /\ Len(got[ch]) < Len(sent[ch]) /\ FrameLen(first) <= Len(Bytes(ch))
    /\ got'[ch] = Append(got[ch], first)
    /\ Bytes(ch)' = SubSeq(Bytes(ch), FrameLen(first) + 1, Len(Bytes(ch)))

ChannelStep(ch) == Unchanged(ch) \/ Opened(ch) \/ Written(ch) \/ Cut(ch) \/ Dispatched(ch)

\* No other channel that is read has the same buffer.
LEMMA OwnBuffer ==
    ASSUME NEW ch \in FreshChannels, ~Settled(ch),
           NEW other \in Channels, other[2] \in Used, other # ch
    PROVE  Key(other) # Key(ch)
  <1>1. ch \in Channels
    BY DEF FreshChannels
  <1>2. CASE ch[1] = "server"
    <2>1. Key(ch) = ch[2] /\ Key(ch) \notin Peers /\ ch = <<ch[1], ch[2]>>
      BY <1>1, <1>2, ChannelForms
    <2>2. CASE other[1] = "server"
      BY <1>2, <2>1, <2>2, ChannelForms
    <2>3. CASE other[1] # "server"
      BY <2>1, <2>3, ChannelForms
    <2> QED
      BY <2>2, <2>3
  <1>3. CASE ch[1] # "server"
    <2>1. Key(ch) = ch[2][1] /\ Key(ch) \in Peers /\ ch = <<"peer", <<ch[2][1], 1>>>>
          /\ ~Later(ch[2][1])
      BY <1>1, <1>3, ChannelForms, FreshForms DEF Settled, FirstIn, First
    <2>2. CASE other[1] = "server"
      BY <2>1, <2>2, ChannelForms
    <2>3. CASE other[1] # "server"
      <3>1. /\ Key(other) = other[2][1] /\ other = <<other[1], other[2]>>
            /\ other[2] = <<other[2][1], other[2][2]>> /\ other[1] = "peer"
        BY <2>3, ChannelForms
      <3>2. SUFFICES ASSUME other[2][1] = ch[2][1]
                     PROVE  FALSE
        BY <2>1, <3>1
      <3>3. other[2][2] # 1
        BY <2>1, <3>1, <3>2
      <3> QED
        BY <2>1, <3>2, <3>3 DEF Later
    <2> QED
      BY <2>2, <2>3
  <1> QED
    BY <1>2, <1>3

LEMMA NextBytes ==
    ASSUME NEW ch PROVE Bytes(ch)' = BufferOf(ch)' \o wire'[ch]
  BY DEF Bytes, BufferOf

LEMMA SameBuffer ==
    ASSUME NEW ch, Key(ch) \in DOMAIN buffer' <=> Key(ch) \in DOMAIN buffer,
           buffer'[Key(ch)] = buffer[Key(ch)]
    PROVE  BufferOf(ch)' = BufferOf(ch)
  <1>1. BufferOf(ch)' = IF Key(ch) \in DOMAIN buffer' THEN buffer'[Key(ch)] ELSE <<>>
    BY DEF BufferOf, Key
  <1> QED
    BY <1>1 DEF BufferOf

\* Neither the buffer nor the wire is touched.
LEMMA SameBytes ==
    ASSUME TypeOK, DataType, NEW ch \in Channels, Kept(ch), link'[ch[2]] = link[ch[2]],
           wire'[ch] = wire[ch], BufferOf(ch)' = BufferOf(ch)
    PROVE  Unchanged(ch)
  <1>1. Bytes(ch)' = Bytes(ch)
    BY NextBytes, BytesType
  <1> QED
    BY <1>1 DEF Unchanged

\* What has not been read is cut off.
LEMMA CutWire ==
    ASSUME TypeOK, DataType, NEW ch \in Channels, Kept(ch), link'[ch[2]] = "broken",
           BufferOf(ch)' = BufferOf(ch), NEW n \in 0 .. Len(wire[ch]),
           wire'[ch] = SubSeq(wire[ch], 1, n)
    PROVE  Cut(ch)
  <1>1. /\ Bytes(ch) = BufferOf(ch) \o wire[ch]
        /\ BufferOf(ch) \in Seq(ByteSet) /\ wire[ch] \in Seq(ByteSet)
    BY BytesType
  <1>2. Bytes(ch)' = BufferOf(ch) \o SubSeq(wire[ch], 1, n)
    BY NextBytes
  <1>3. PICK m \in 0 .. Len(Bytes(ch)) : m = Len(BufferOf(ch)) + n
    BY <1>1, CutConcat
  <1>4. Bytes(ch)' = SubSeq(Bytes(ch), 1, m)
    BY <1>1, <1>2, <1>3, CutConcat
  <1> QED
    BY <1>4 DEF Cut

\* Buffer and wire go.
LEMMA CutAll ==
    ASSUME TypeOK, DataType, NEW ch \in Channels, Kept(ch), link'[ch[2]] = "broken",
           BufferOf(ch)' = <<>>, wire'[ch] = <<>>
    PROVE  Cut(ch)
  <1>1. Bytes(ch) \in Seq(ByteSet)
    BY BytesType
  <1>2. Bytes(ch)' = <<>>
    BY NextBytes
  <1>3. SubSeq(Bytes(ch), 1, 0) = <<>> /\ 0 \in 0 .. Len(Bytes(ch))
    BY <1>1
  <1> QED
    BY <1>2, <1>3 DEF Cut

LEMMA ConnectSteps ==
    ASSUME TransportInv, NEW ch \in FreshChannels, NEW p \in Peers, Connect(p)
    PROVE  ChannelStep(ch)
  <1> USE DEF TransportInv
  <1>1. ch \in Channels /\ ch[2] \in Conns
    BY ChannelForms DEF FreshChannels
  <1>2. /\ link' = [link EXCEPT ![NewConn(p)] = "up"] /\ NewConn(p) \notin Used
        /\ UNCHANGED <<sent, got, wire, buffer>>
    BY ConnectDoes
  <1>3. Kept(ch) /\ wire'[ch] = wire[ch] /\ BufferOf(ch)' = BufferOf(ch)
    BY <1>2, SameBuffer DEF Kept
  <1>4. CASE ch[2] = NewConn(p)
    <2>1. link[ch[2]] = "unused" /\ link'[ch[2]] = "up"
      BY <1>1, <1>2, <1>4 DEF Used, TypeOK
    <2>2. Bytes(ch)' = Bytes(ch)
      BY <1>1, <1>3, NextBytes, BytesType
    <2> QED
      BY <1>3, <2>1, <2>2 DEF ChannelStep, Opened
  <1>5. CASE ch[2] # NewConn(p)
    <2>1. link'[ch[2]] = link[ch[2]]
      BY <1>1, <1>2, <1>5 DEF TypeOK
    <2> QED
      BY <1>1, <1>3, <2>1, SameBytes DEF ChannelStep
  <1> QED
    BY <1>4, <1>5

LEMMA AcceptSteps ==
    ASSUME TransportInv, NEW ch \in FreshChannels, NEW c \in Conns, Accept(c)
    PROVE  ChannelStep(ch)
  <1> USE DEF TransportInv
  <1>1. ch \in Channels
    BY DEF FreshChannels
  <1>2. /\ c \notin clients /\ c \notin Peers /\ UNCHANGED <<link, sent, got, wire>>
        /\ buffer' = [k \in DOMAIN buffer \cup {c} |-> IF k = c THEN <<>> ELSE buffer[k]]
    BY ChannelOf DEF Accept
  <1>3. c \notin DOMAIN buffer
    BY <1>2 DEF TypeOK
  <1>4. BufferOf(ch)' = BufferOf(ch)
    <2>1. CASE Key(ch) = c
      BY <1>2, <1>3, <2>1 DEF BufferOf, Key
    <2>2. CASE Key(ch) # c
      <3>1. /\ Key(ch) \in DOMAIN buffer' <=> Key(ch) \in DOMAIN buffer
            /\ Key(ch) \in DOMAIN buffer => buffer'[Key(ch)] = buffer[Key(ch)]
        BY <1>2, <2>2
      <3> QED
        BY <3>1 DEF BufferOf, Key
    <2> QED
      BY <2>1, <2>2
  <1>5. Kept(ch) /\ link'[ch[2]] = link[ch[2]] /\ wire'[ch] = wire[ch]
    BY <1>2 DEF Kept
  <1> QED
    BY <1>1, <1>4, <1>5, SameBytes DEF ChannelStep

LEMMA BreakSteps ==
    ASSUME TransportInv, NEW ch \in FreshChannels, NEW c \in Conns, Break(c)
    PROVE  ChannelStep(ch)
  <1> USE DEF TransportInv
  <1>1. ch \in Channels /\ ch = <<ch[1], ch[2]>> /\ ch[1] \in {"server", "peer"} /\ ch[2] \in Conns
    BY ChannelForms DEF FreshChannels
  <1>2. Kept(ch) /\ BufferOf(ch)' = BufferOf(ch) /\ link' = [link EXCEPT ![c] = "broken"]
    BY SameBuffer DEF Break, Kept
  <1>3. PICK n \in 0 .. Len(wire[<<"server", c>>]), m \in 0 .. Len(wire[<<"peer", c>>]) :
            wire' = [wire EXCEPT ![<<"server", c>>] = SubSeq(wire[<<"server", c>>], 1, n),
                                 ![<<"peer", c>>] = SubSeq(wire[<<"peer", c>>], 1, m)]
    BY DEF Break, DataType, Channels
  <1>4. wire \in [Channels -> Seq(Known)] /\ link \in [Conns -> {"unused", "up", "broken"}]
    BY DEF DataType, TypeOK
  <1>5. CASE ch[2] = c
    <2>1. link'[ch[2]] = "broken"
      BY <1>1, <1>2, <1>4, <1>5
    <2>2. \E k \in 0 .. Len(wire[ch]) : wire'[ch] = SubSeq(wire[ch], 1, k)
      <3>1. CASE ch[1] = "server"
        BY <1>1, <1>3, <1>4, <1>5, <3>1
      <3>2. CASE ch[1] = "peer"
        BY <1>1, <1>3, <1>4, <1>5, <3>2
      <3> QED
        BY <1>1, <3>1, <3>2
    <2> QED
      BY <1>1, <1>2, <2>1, <2>2, CutWire DEF ChannelStep
  <1>6. CASE ch[2] # c
    <2>1. link'[ch[2]] = link[ch[2]] /\ wire'[ch] = wire[ch]
      BY <1>1, <1>2, <1>3, <1>4, <1>6
    <2> QED
      BY <1>1, <1>2, <2>1, SameBytes DEF ChannelStep
  <1> QED
    BY <1>5, <1>6

LEMMA DisconnectSteps ==
    ASSUME TransportInv, NEW ch \in FreshChannels, ~Settled(ch),
           \/ \E c \in Conns : ClientDisconnected(c)
           \/ \E p \in Peers : DisconnectServer(p)
    PROVE  ChannelStep(ch)
  <1> USE DEF TransportInv
  <1>1. ch \in Channels /\ ch[2] \in Conns
    BY ChannelForms DEF FreshChannels
  <1>2. wire \in [Channels -> Seq(Known)] /\ link \in [Conns -> {"unused", "up", "broken"}]
    BY DEF DataType, TypeOK
  <1>3. ASSUME NEW c \in Conns, ClientDisconnected(c)
        PROVE  ChannelStep(ch)
    <2>1. /\ Kept(ch) /\ UNCHANGED link /\ link[c] = "broken"
          /\ wire' = [wire EXCEPT ![<<"server", c>>] = <<>>]
          /\ buffer' = [k \in DOMAIN buffer \ {c} |-> buffer[k]]
      BY <1>3 DEF ClientDisconnected, Noticed, Without, Kept
    <2>2. CASE ch = <<"server", c>>
      <3>1. Key(ch) = c
        BY <2>2, ChannelOf
      <3>2. BufferOf(ch)' = <<>>
        BY <2>1, <3>1 DEF BufferOf, Key
      <3>3. wire'[ch] = <<>> /\ link'[ch[2]] = "broken"
        BY <1>1, <1>2, <2>1, <2>2
      <3> QED
        BY <1>1, <2>1, <3>2, <3>3, CutAll DEF ChannelStep
    <2>3. CASE ch # <<"server", c>>
      <3>1. Key(ch) # c
        <4>1. CASE ch[1] = "server"
          <5>1. ch = <<ch[1], ch[2]>> /\ Key(ch) = ch[2]
            BY <1>1, <4>1, ChannelForms
          <5>2. ch = <<"server", ch[2]>>
            BY <5>1, <4>1
          <5> QED
            BY <2>3, <5>1, <5>2
        <4>2. CASE ch[1] # "server"
          <5>1. Key(ch) \in Peers
            BY <1>1, <4>2, ChannelForms
          <5> QED
            BY <5>1, ChannelOf
        <4> QED
          BY <4>1, <4>2
      <3>2. BufferOf(ch)' = BufferOf(ch)
        <4>1. /\ Key(ch) \in DOMAIN buffer' <=> Key(ch) \in DOMAIN buffer
              /\ Key(ch) \in DOMAIN buffer => buffer'[Key(ch)] = buffer[Key(ch)]
          BY <2>1, <3>1
        <4> QED
          BY <4>1 DEF BufferOf, Key
      <3>3. wire'[ch] = wire[ch] /\ link'[ch[2]] = link[ch[2]]
        BY <1>1, <1>2, <2>1, <2>3
      <3> QED
        BY <1>1, <2>1, <3>2, <3>3, SameBytes DEF ChannelStep
    <2> QED
      BY <2>2, <2>3
  <1>4. ASSUME NEW p \in Peers, DisconnectServer(p)
        PROVE  ChannelStep(ch)
    <2>1. /\ Kept(ch) /\ UNCHANGED <<link, buffer>> /\ link[device[p]] = "broken"
          /\ wire' = [wire EXCEPT ![<<"peer", device[p]>>] = <<>>]
      BY <1>4 DEF DisconnectServer, Noticed, Kept
    <2>2. BufferOf(ch)' = BufferOf(ch)
      BY <2>1, SameBuffer
    <2>3. CASE ch = <<"peer", device[p]>>
      <3>1. wire'[ch] = <<>> /\ link'[ch[2]] = "broken"
        BY <1>1, <1>2, <2>1, <2>3
      <3>2. wire'[ch] = SubSeq(wire[ch], 1, 0) /\ 0 \in 0 .. Len(wire[ch])
        <4>1. wire[ch] \in Seq(Known)
          BY <1>1, <1>2
        <4>2. SubSeq(wire[ch], 1, 0) = <<>> /\ 0 \in 0 .. Len(wire[ch])
          BY <4>1
        <4> QED
          BY <3>1, <4>2
      <3> QED
        BY <1>1, <2>1, <2>2, <3>1, <3>2, CutWire DEF ChannelStep
    <2>4. CASE ch # <<"peer", device[p]>>
      <3>1. wire'[ch] = wire[ch] /\ link'[ch[2]] = link[ch[2]]
        BY <1>1, <1>2, <2>1, <2>4
      <3> QED
        BY <1>1, <2>1, <2>2, <3>1, SameBytes DEF ChannelStep
    <2> QED
      BY <2>3, <2>4
  <1> QED
    BY <1>3, <1>4

LEMMA Regroup ==
    \A b, w, f \in Seq(ByteSet) : b \o (w \o f) = (b \o w) \o f
  BY ConcatAssociative

LEMMA CallSteps ==
    ASSUME TransportInv, NEW ch \in FreshChannels, NEW call \in Calls, Called(call)
    PROVE  ChannelStep(ch)
  <1> USE DEF TransportInv
  <1>1. ch \in Channels
    BY DEF FreshChannels
  <1>2. PICK S : (\A c \in S : link[c[2]] = "up") /\ Write(S, call)
    BY DEF Called
  <1>3. UNCHANGED <<link, got, buffer>>
    BY <1>2, WriteDoes
  <1>4. BufferOf(ch)' = BufferOf(ch) /\ link'[ch[2]] = link[ch[2]] /\ got'[ch] = got[ch]
    BY <1>3, SameBuffer
  <1>5. CASE ch \in S
    <2> DEFINE F == Frame(ch, Len(sent[ch]) + 1, call)
    <2>1. sent'[ch] = Append(sent[ch], call) /\ wire'[ch] = wire[ch] \o F
      BY <1>1, <1>2, <1>5, WriteDoes
    <2>2. /\ Bytes(ch) = BufferOf(ch) \o wire[ch]
          /\ BufferOf(ch) \in Seq(ByteSet) /\ wire[ch] \in Seq(ByteSet)
      BY <1>1, BytesType
    <2>3. F \in Seq(ByteSet)
      <3>1. Len(sent[ch]) + 1 \in Nat
        BY <1>1, BytesType
      <3> QED
        BY <1>1, <3>1, FrameBytes
    <2> HIDE DEF F
    <2>4. Bytes(ch)' = BufferOf(ch) \o (wire[ch] \o F)
      BY <1>4, <2>1, NextBytes
    <2>5. BufferOf(ch) \o (wire[ch] \o F) = (BufferOf(ch) \o wire[ch]) \o F
      BY <2>2, <2>3, Regroup
    <2>6. Bytes(ch)' = Bytes(ch) \o F
      BY <2>2, <2>4, <2>5
    <2> QED
      BY <1>2, <1>4, <1>5, <2>1, <2>6 DEF ChannelStep, Written, F
  <1>6. CASE ch \notin S
    <2>1. Kept(ch) /\ wire'[ch] = wire[ch]
      BY <1>1, <1>2, <1>4, <1>6 DEF Write, Kept
    <2> QED
      BY <1>1, <1>4, <2>1, SameBytes DEF ChannelStep
  <1> QED
    BY <1>5, <1>6

LEMMA ReadyReadSteps ==
    ASSUME TransportInv, NEW ch \in FreshChannels, ~Settled(ch),
           NEW new \in Channels, ReadyRead(new)
    PROVE  ChannelStep(ch)
  <1> USE DEF TransportInv
  <1>1. ch \in Channels
    BY DEF FreshChannels
  <1>2. PICK k \in 1 .. Len(wire[new]) :
            /\ buffer' = [buffer EXCEPT ![Key(new)] = buffer[Key(new)] \o SubSeq(wire[new], 1, k)]
            /\ wire' = [wire EXCEPT ![new] = SubSeq(wire[new], k + 1, Len(wire[new]))]
    BY ReadyReadDoes
  <1>3. new[2] \in Used /\ Key(new) \in DOMAIN buffer /\ UNCHANGED <<link, sent, got>>
    BY ReadyReadDoes
  <1>4. Kept(ch) /\ link'[ch[2]] = link[ch[2]]
    BY <1>3 DEF Kept
  <1>5. CASE ch = new
    <2>1. /\ Bytes(ch) = BufferOf(ch) \o wire[ch]
          /\ BufferOf(ch) \in Seq(ByteSet) /\ wire[ch] \in Seq(ByteSet)
      BY <1>1, BytesType
    <2>2. BufferOf(ch)' = BufferOf(ch) \o SubSeq(wire[ch], 1, k)
      BY <1>2, <1>3, <1>5 DEF BufferOf, Key
    <2>3. wire'[ch] = SubSeq(wire[ch], k + 1, Len(wire[ch]))
      BY <1>1, <1>2, <1>5 DEF DataType
    <2>4. k \in 1 .. Len(wire[ch])
      BY <1>5
    <2>5. Bytes(ch)' = Bytes(ch)
      BY <2>1, <2>2, <2>3, <2>4, NextBytes, MoveConcat
    <2> QED
      BY <1>4, <2>5 DEF ChannelStep, Unchanged
  <1>6. CASE ch # new
    <2>1. Key(new) # Key(ch)
      BY <1>3, <1>6, OwnBuffer
    <2>2. BufferOf(ch)' = BufferOf(ch)
      BY <1>2, <2>1, SameBuffer
    <2>3. wire'[ch] = wire[ch]
      BY <1>2, <1>6
    <2> QED
      BY <1>1, <1>4, <2>2, <2>3, SameBytes DEF ChannelStep
  <1> QED
    BY <1>5, <1>6

\* In a buffer of its own the first bytes of a channel are those of a frame.
LEMMA FrameAhead ==
    ASSUME TransportInv, NEW ch \in FreshChannels, ~Settled(ch),
           Key(ch) \in DOMAIN buffer, buffer[Key(ch)] # <<>>
    PROVE  LET buf == buffer[Key(ch)]
               g == Len(got[ch])
           IN  /\ g \in Nat /\ g < Len(sent[ch]) /\ sent[ch][g + 1] \in Calls
               /\ Bytes(ch) = buf \o wire[ch]
               /\ \A i \in 1 .. Len(buf) :
                      i <= FrameLen(sent[ch][g + 1]) => buf[i] = Byte(ch, g + 1, i)
  <1> USE DEF TransportInv
  <1> DEFINE buf == buffer[Key(ch)]
             g == Len(got[ch])
             B == Bytes(ch)
  <1>1. ch \in Channels
    BY DEF FreshChannels
  <1>2. BufferOf(ch) = buf
    BY DEF BufferOf
  <1>3. /\ B = buf \o wire[ch] /\ buf \in Seq(ByteSet) /\ wire[ch] \in Seq(ByteSet)
        /\ B \in Seq(ByteSet) /\ sent[ch] \in Seq(Calls)
    BY <1>1, <1>2, BytesType
  <1>4. Flows(ch, sent[ch], g, B, link[ch[2]] = "up")
    BY DEF FlowInv, FlowOf
  <1> HIDE DEF B, buf
  <1>5. /\ Len(B) = Len(buf) + Len(wire[ch]) /\ Len(buf) \in Nat /\ Len(wire[ch]) \in Nat
        /\ \A i \in 1 .. Len(buf) : B[i] = buf[i] /\ i \in 1 .. Len(B)
    BY <1>3, ConcatProperties
  <1>6. B # <<>>
    <2>1. buf # <<>>
      BY DEF buf
    <2>2. Len(buf) # 0
      BY <1>3, <2>1
    <2> QED
      BY <1>5, <2>2
  <1> HIDE DEF g
  <1>7. /\ g \in Nat /\ g < Len(sent[ch]) /\ sent[ch][g + 1] \in Calls
        /\ \A i \in 1 .. Len(B) :
               i <= FrameLen(sent[ch][g + 1]) => B[i] = Byte(ch, g + 1, i)
    <2>1. PICK S \in Seq(Calls), C \in Seq(ByteSet), k \in {g} : S = sent[ch] /\ C = B /\ k = g
      BY <1>3
    <2>2. PICK start : Layout(ch, S, k, start, C)
      BY <1>4, <2>1 DEF Flows
    <2>3. C # <<>>
      BY <1>6, <2>1
    <2>4. /\ k \in Nat /\ k < Len(S) /\ S[k + 1] \in Calls
          /\ \A i \in 1 .. Len(C) : i <= FrameLen(S[k + 1]) => C[i] = Byte(ch, k + 1, i)
      BY <2>2, <2>3, FirstFrame
    <2> QED
      BY <2>1, <2>4
  <1> QED
    BY <1>3, <1>5, <1>7 DEF B, buf, g

\* Its header is that of the call, and the frame is sound.
LEMMA HeaderAhead ==
    ASSUME TransportInv, NEW ch \in FreshChannels, ~Settled(ch),
           HasHeader(Key(ch)), NEW length \in Lengths(buffer[Key(ch)])
    PROVE  LET buf == buffer[Key(ch)]
               first == sent[ch][Len(got[ch]) + 1]
           IN  /\ first \in Calls /\ length = Size[first] /\ length > 0 /\ length \in Nat
               /\ FrameLen(first) = HeaderLen + length
               /\ buf[1] = Byte(ch, Len(got[ch]) + 1, 1)
               /\ CanDeserialize(buf, length) =>
                      FrameLen(first) <= Len(buf) /\ Sound(Taken(buf, length))
  <1> USE DEF TransportInv
  <1> DEFINE buf == buffer[Key(ch)]
             g == Len(got[ch])
             first == sent[ch][g + 1]
  <1>1. Key(ch) \in DOMAIN buffer /\ Len(buf) >= HeaderLen /\ HeaderLen = 4
    BY DEF HasHeader, HeaderLen
  <1>2. buf \in Seq(ByteSet)
    <2>1. buf \in Seq(Known) /\ Known \subseteq ByteSet
      BY <1>1 DEF DataType, Known
    <2> QED
      BY <2>1, LargerSeq
  <1>3. buf # <<>> /\ Len(buf) \in Nat
    BY <1>1, <1>2
  <1>4. /\ g \in Nat /\ first \in Calls
        /\ \A i \in 1 .. Len(buf) : i <= FrameLen(first) => buf[i] = Byte(ch, g + 1, i)
    BY <1>1, <1>3, FrameAhead
  <1> HIDE DEF buf, g
  <1>5. FrameLen(first) \in Nat /\ FrameLen(first) > HeaderLen
    BY <1>4, FrameLength
  <1>6. \A i \in 1 .. 4 : i \in 1 .. Len(buf) /\ buf[i] = Byte(ch, g + 1, i)
    BY <1>1, <1>3, <1>4, <1>5
  <1> DEFINE header == SubSeq(buf, 1, HeaderLen)
  <1>7. /\ DOMAIN header = 1 .. 4 /\ header[1] = Byte(ch, g + 1, 1)
        /\ \A i \in 1 .. 4 : header[i] = Byte(ch, g + 1, i)
    BY <1>1, <1>2, <1>3, <1>6
  <1>8. \A i : [Byte(ch, g + 1, 1) EXCEPT !.at = i] = Byte(ch, g + 1, i)
    BY DEF Byte
  <1>9. Belong(header)
    <2> HIDE DEF header
    <2> QED
      BY <1>7, <1>8 DEF Belong
  <1>10. Lengths(buf) = {Size[first]}
    <2>1. header[1].ch = ch /\ header[1].call = g + 1
      <3> HIDE DEF header
      <3> QED
        BY <1>7 DEF Byte
    <2>2. Lengths(buf) = {Size[sent[header[1].ch][header[1].call]]}
      BY <1>9 DEF Lengths
    <2> HIDE DEF header
    <2> QED
      BY <2>1, <2>2 DEF g
  <1>11. length = Size[first] /\ length > 0 /\ length \in Nat
    BY <1>4, <1>10, SizeAssumption DEF buf
  <1>12. FrameLen(first) = HeaderLen + length
    BY <1>11 DEF FrameLen
  <1> DEFINE l == HeaderLen + length
             taken == SubSeq(buf, 1, l)
  <1>13. ASSUME CanDeserialize(buf, length)
         PROVE  FrameLen(first) <= Len(buf) /\ Sound(Taken(buf, length))
    <2>1. l \in 1 .. Len(buf) /\ l = FrameLen(first)
      BY <1>1, <1>3, <1>11, <1>12, <1>13 DEF CanDeserialize
    <2>2. Taken(buf, length) = taken
      <3>1. l \in Int /\ Len(buf) \in Int /\ l <= Len(buf)
        BY <2>1
      <3>2. Min({l, Len(buf)}) = l
        BY <3>1, MinOf
      <3> QED
        BY <3>2 DEF Taken
    <2> HIDE DEF l
    <2>3. /\ DOMAIN taken = 1 .. l /\ Len(taken) = l
          /\ \A i \in 1 .. l : taken[i] = Byte(ch, g + 1, i)
      BY <1>2, <1>3, <1>4, <2>1
    <2>4. Last(taken) = Byte(ch, g + 1, l) /\ taken[1] = Byte(ch, g + 1, 1)
      BY <2>1, <2>3 DEF Last
    <2> HIDE DEF taken
    <2>5. Belong(taken)
      <3>1. \A i \in 1 .. l : taken[i] = [taken[1] EXCEPT !.at = i]
        <4> SUFFICES ASSUME NEW i \in 1 .. l
                     PROVE  taken[i] = [taken[1] EXCEPT !.at = i]
          OBVIOUS
        <4>1. taken[i] = Byte(ch, g + 1, i) /\ taken[1] = Byte(ch, g + 1, 1)
          BY <2>3, <2>4
        <4> QED
          BY <1>8, <4>1
      <3> QED
        BY <2>3, <3>1 DEF Belong
    <2>6. IsLast(Last(taken))
      BY <2>1, <2>4 DEF IsLast, Byte, FrameLen, g
    <2> QED
      BY <2>1, <2>2, <2>5, <2>6 DEF Sound
  <1>14. buf[1] = Byte(ch, g + 1, 1)
    BY <1>6
  <1> QED
    BY <1>4, <1>11, <1>12, <1>13, <1>14 DEF buf, g

LEMMA DispatchSteps ==
    ASSUME TransportInv, NEW ch \in FreshChannels, ~Settled(ch), NEW n \in Nodes, Dispatch(n)
    PROVE  ChannelStep(ch)
  <1> USE DEF TransportInv
  <1>1. ch \in Channels
    BY DEF FreshChannels
  <1>2. PICK other \in Channels : other = Top(n).ch /\ Reading(n, other)
    BY DispatchDoes
  <1>3. UNCHANGED <<link, sent, wire>>
    BY DispatchDoes
  <1>4. CASE other # ch
    <2>1. other[2] \in Used
      BY <1>2 DEF StackInv
    <2>2. Key(other) # Key(ch)
      BY <1>4, <2>1, OwnBuffer
    <2>3. \E length : Took(Key(other), length)
      BY <1>2, DispatchDoes
    <2>4. BufferOf(ch)' = BufferOf(ch)
      BY <2>2, <2>3, SameBuffer DEF Took
    <2>5. got'[ch] = got[ch]
      BY <1>1, <1>2, <1>4, DispatchDoes
    <2> QED
      BY <1>1, <1>3, <2>4, <2>5, SameBytes DEF ChannelStep, Kept
  <1>5. CASE other = ch
    <2> DEFINE buf == buffer[Key(ch)]
               g == Len(got[ch])
               first == sent[ch][g + 1]
    <2>1. HasHeader(Key(ch)) /\ Key(ch) \in DOMAIN buffer
      BY <1>2, <1>5 DEF Dispatch, HasHeader
    <2>2. PICK length \in Lengths(buf) :
              /\ CanDeserialize(buf, length)
              /\ buffer' = [buffer EXCEPT ![Key(ch)] =
                                SubSeq(buf, HeaderLen + length + 1, Len(buf))]
              /\ length > 0 /\ Sound(Taken(buf, length)) =>
                     got' = [got EXCEPT ![ch] = Append(@, sent[buf[1].ch][buf[1].call])]
      BY <1>2, <1>5 DEF Dispatch
    <2>3. /\ first \in Calls /\ length > 0 /\ length \in Nat
          /\ FrameLen(first) = HeaderLen + length /\ buf[1] = Byte(ch, g + 1, 1)
          /\ FrameLen(first) <= Len(buf) /\ Sound(Taken(buf, length))
      BY <2>1, <2>2, HeaderAhead
    <2>4. buf # <<>> /\ buf \in Seq(ByteSet)
      <3>1. buf \in Seq(Known) /\ Len(buf) >= HeaderLen /\ Known \subseteq ByteSet
        BY <2>1 DEF DataType, HasHeader, Known
      <3> QED
        BY <3>1, LargerSeq DEF HeaderLen
    <2>5. g \in Nat /\ g < Len(sent[ch]) /\ Bytes(ch) = buf \o wire[ch]
      BY <2>1, <2>4, FrameAhead
    <2>6. got'[ch] = Append(got[ch], first)
      <3>1. sent[buf[1].ch][buf[1].call] = first
        BY <2>3 DEF Byte
      <3>2. got' = [got EXCEPT ![ch] = Append(@, first)]
        BY <2>2, <2>3, <3>1
      <3> HIDE DEF first
      <3> QED
        BY <1>1, <3>2 DEF TypeOK
    <2> HIDE DEF first
    <2>7. BufferOf(ch)' = SubSeq(buf, FrameLen(first) + 1, Len(buf))
      BY <2>1, <2>2, <2>3 DEF BufferOf, Key
    <2> HIDE DEF buf
    <2>8. PICK b \in Seq(ByteSet), w \in Seq(ByteSet), l \in Nat :
              b = buf /\ w = wire[ch] /\ l = FrameLen(first) /\ l \in 0 .. Len(b)
      <3>1. wire[ch] \in Seq(ByteSet)
        BY <1>1, BytesType
      <3>2. FrameLen(first) \in 0 .. Len(buf)
        <4>1. FrameLen(first) \in Nat /\ Len(buf) \in Nat
          BY <2>3, <2>4, FrameLength
        <4> QED
          BY <2>3, <4>1
      <3> QED
        BY <2>4, <3>1, <3>2
    <2>9. /\ Bytes(ch)' = SubSeq(b, l + 1, Len(b)) \o w
          /\ Bytes(ch) = b \o w
      BY <1>3, <2>5, <2>7, <2>8, NextBytes
    <2>10. Bytes(ch)' = SubSeq(Bytes(ch), l + 1, Len(Bytes(ch)))
      <3>1. SubSeq(b, l + 1, Len(b)) \o w = SubSeq(b \o w, l + 1, Len(b \o w))
        BY <2>8, DropConcat
      <3> QED
        BY <2>9, <3>1
    <2>11. l <= Len(Bytes(ch))
      <3>1. Len(b \o w) = Len(b) + Len(w) /\ Len(b) \in Nat /\ Len(w) \in Nat
        BY ConcatProperties
      <3> QED
        BY <2>8, <2>9, <3>1
    <2>12. /\ FrameLen(first) <= Len(Bytes(ch))
           /\ Bytes(ch)' = SubSeq(Bytes(ch), FrameLen(first) + 1, Len(Bytes(ch)))
      BY <2>8, <2>10, <2>11
    <2>13. Dispatched(ch)
      BY <1>3, <2>5, <2>6, <2>12 DEF Dispatched, first
    <2> QED
      BY <2>13 DEF ChannelStep
  <1> QED
    BY <1>4, <1>5

\* Only a peer that has connected again can find bytes that are no calls.
LEMMA ErrorLater ==
    ASSUME TransportInv, NEW p \in Peers, ProtocolError(p)
    PROVE  Later(p)
  <1> USE DEF TransportInv
  <1>1. PICK ch \in Channels : ch = Top(p).ch /\ Reading(p, ch)
    BY ProtocolErrorDoes
  <1>2. p \in Nodes
    BY DEF Nodes
  <1>3. /\ Node(ch) = p /\ ch[2] \in Used
        /\ ch \in FreshChannels => ~Settled(ch)
    BY <1>1, <1>2 DEF StackInv
  <1>4. ch[1] # "server" /\ Key(ch) = p /\ ch[2][1] = p
    BY <1>3, ChannelForms, PeersAssumption
  <1>5. ch \notin FreshChannels
    <2>1. SUFFICES ASSUME ch \in FreshChannels
                   PROVE  FALSE
      OBVIOUS
    <2>2. ~Settled(ch) /\ HasHeader(Key(ch))
      BY <1>3, <1>4, <2>1, ProtocolErrorDoes DEF HasHeader
    <2>3. PICK length \in Lengths(buffer[Key(ch)]) :
              length > 0 /\ ~Sound(Taken(buffer[Key(ch)], length)) /\ Took(Key(ch), length)
      BY <1>4, ProtocolErrorDoes
    <2>4. CanDeserialize(buffer[Key(ch)], length)
      <3>1. /\ length \in Nat /\ buffer[Key(ch)] \in Seq(Known)
            /\ HeaderLen + length <= Len(buffer[Key(ch)])
        BY <2>3 DEF Took
      <3>2. Len(buffer[Key(ch)]) \in Nat
        BY <3>1
      <3> QED
        BY <3>1, <3>2 DEF CanDeserialize, HeaderLen
    <2> QED
      BY <2>1, <2>2, <2>3, <2>4, HeaderAhead
  <1>6. ch[2][2] # 1
    BY <1>5 DEF FreshChannels
  <1> QED
    BY <1>3, <1>4, <1>6 DEF Later

LEMMA ErrorSteps ==
    ASSUME TransportInv, NEW ch \in FreshChannels, ~Settled(ch), NEW p \in Peers, ProtocolError(p)
    PROVE  ChannelStep(ch)
  <1> USE DEF TransportInv
  <1>1. /\ ch \in Channels /\ ch = <<ch[1], ch[2]>> /\ ch[1] \in {"server", "peer"}
        /\ ch[2] \in Conns
    BY ChannelForms DEF FreshChannels
  <1>2. /\ link' = [link EXCEPT ![device[p]] = "broken"]
        /\ wire' = [wire EXCEPT ![<<"peer", device[p]>>] = <<>>]
        /\ device[p] \in Used /\ device[p][1] = p
        /\ Kept(ch) /\ \E length : Took(p, length)
    BY ProtocolErrorDoes DEF Kept, DeviceInv
  <1>3. Later(p)
    BY ErrorLater
  <1>4. Key(ch) # p /\ (ch[1] = "peer" => ch[2] # device[p])
    <2>1. CASE ch[1] = "server"
      BY <1>1, <2>1, ChannelForms
    <2>2. CASE ch[1] # "server"
      <3>1. Key(ch) = ch[2][1] /\ ~Later(ch[2][1])
        BY <1>1, <2>2, ChannelForms DEF Settled
      <3> QED
        BY <1>2, <1>3, <3>1
    <2> QED
      BY <2>1, <2>2
  <1>5. BufferOf(ch)' = BufferOf(ch)
    BY <1>2, <1>4, SameBuffer DEF Took
  <1>6. wire'[ch] = wire[ch]
    <2>1. ch # <<"peer", device[p]>>
      BY <1>1, <1>4
    <2> QED
      BY <1>2, <2>1
  <1>7. CASE ch[2] = device[p]
    <2>1. link'[ch[2]] = "broken"
      BY <1>1, <1>2, <1>7 DEF TypeOK
    <2>2. /\ wire'[ch] = SubSeq(wire[ch], 1, Len(wire[ch]))
          /\ Len(wire[ch]) \in 0 .. Len(wire[ch])
      <3>1. wire[ch] \in Seq(Known)
        BY <1>1 DEF DataType
      <3> QED
        BY <1>6, <3>1, SubSeqFull
    <2> QED
      BY <1>1, <1>2, <1>5, <2>1, <2>2, CutWire DEF ChannelStep
  <1>8. CASE ch[2] # device[p]
    <2>1. link'[ch[2]] = link[ch[2]]
      BY <1>1, <1>2, <1>8 DEF TypeOK
    <2> QED
      BY <1>1, <1>2, <1>5, <1>6, <2>1, SameBytes DEF ChannelStep
  <1> QED
    BY <1>7, <1>8

LEMMA QuietSteps ==
    ASSUME TransportInv, NEW ch \in FreshChannels,
           UNCHANGED <<link, sent, got, wire, buffer>>
    PROVE  ChannelStep(ch)
  <1>1. ch \in Channels
    BY DEF FreshChannels
  <1>2. BufferOf(ch)' = BufferOf(ch) /\ Kept(ch)
    BY SameBuffer DEF Kept
  <1> QED
    BY <1>1, <1>2, SameBytes DEF TransportInv, ChannelStep

LEMMA ChannelSteps ==
    ASSUME TransportInv, [Next]_vars, NEW ch \in FreshChannels, ~Settled(ch)
    PROVE  ChannelStep(ch)
  <1>1. ASSUME NEW n \in Nodes, Return(n) \/ Hang(n) \/ CloseBox(n)
        PROVE  ChannelStep(ch)
    BY <1>1, QuietSteps DEF Return, Hang, CloseBox
  <1>2. CASE UNCHANGED vars
    BY <1>2, QuietSteps DEF vars
  <1>3. ASSUME NEW call \in Calls, Called(call)
        PROVE  ChannelStep(ch)
    BY <1>3, CallSteps
  <1> QED
    BY <1>1, <1>2, <1>3, ConnectSteps, AcceptSteps, BreakSteps, DisconnectSteps, CallWrites,
       ReadyReadSteps, DispatchSteps, ErrorSteps
    DEF Next, Handle

----------------------------------------------------------------------------
(* The bytes of a channel remain laid out so.                              *)

LEMMA FlowForms ==
    ASSUME NEW ch
    PROVE  FlowOf(ch) <=> IF link[ch[2]] = "up"
                          THEN Flows(ch, sent[ch], Len(got[ch]), Bytes(ch), TRUE)
                          ELSE Flows(ch, sent[ch], Len(got[ch]), Bytes(ch), FALSE)
  BY DEF FlowOf, Flows

LEMMA FlowFormsNext ==
    ASSUME NEW ch
    PROVE  FlowOf(ch)' <=> IF link'[ch[2]] = "up"
                           THEN Flows(ch, sent'[ch], Len(got'[ch]), Bytes(ch)', TRUE)
                           ELSE Flows(ch, sent'[ch], Len(got'[ch]), Bytes(ch)', FALSE)
  BY DEF FlowOf, Flows, Layout, Starts

\* Whether a link is up or not, what its channels hold is laid out.
LEMMA FlowWeaker ==
    ASSUME NEW ch, NEW S, NEW g, NEW B, Flows(ch, S, g, B, TRUE)
    PROVE  Flows(ch, S, g, B, FALSE)
  BY DEF Flows

\* A channel that nothing has been written to.
LEMMA NothingSent ==
    ASSUME NEW ch, NEW B \in Seq(ByteSet), NEW g, Flows(ch, <<>>, g, B, FALSE)
    PROVE  B = <<>> /\ g = 0
  <1>1. PICK start : Layout(ch, <<>>, g, start, B)
    BY DEF Flows
  <1>2. Starts(<<>>, g, start) /\ Len(B) <= start[Len(<<>>)] /\ Len(<<>>) = 0
    BY <1>1 DEF Layout
  <1>3. g = 0 /\ start[0] = 0
    BY <1>2 DEF Starts
  <1> QED
    BY <1>2, <1>3

LEMMA ChannelFlows ==
    ASSUME TransportInv, NEW ch \in FreshChannels, ~Settled(ch), ChannelStep(ch)
    PROVE  FlowOf(ch)' /\ got'[ch] \in Seq(Calls)
  <1> USE DEF TransportInv
  <1>1. ch \in Channels
    BY DEF FreshChannels
  <1>2. FlowOf(ch) /\ got[ch] \in Seq(Calls)
    BY DEF FlowInv, GotType
  <1>3. Bytes(ch) \in Seq(ByteSet) /\ sent[ch] \in Seq(Calls)
    BY <1>1, BytesType
  <1>4. PICK S \in Seq(Calls), G \in Seq(Calls), B \in Seq(ByteSet) :
            S = sent[ch] /\ G = got[ch] /\ B = Bytes(ch)
    BY <1>2, <1>3
  <1>5. /\ link[ch[2]] = "up" => Flows(ch, S, Len(G), B, TRUE)
        /\ link[ch[2]] # "up" => Flows(ch, S, Len(G), B, FALSE)
    BY <1>2, <1>4, FlowForms
  <1>6. Flows(ch, S, Len(G), B, FALSE)
    BY <1>5, FlowWeaker
  <1>7. CASE Unchanged(ch)
    <2>1. sent'[ch] = S /\ got'[ch] = G /\ Bytes(ch)' = B /\ link'[ch[2]] = link[ch[2]]
      BY <1>4, <1>7 DEF Unchanged, Kept
    <2> QED
      BY <1>5, <2>1, FlowFormsNext
  <1>8. CASE Opened(ch)
    <2>1. sent'[ch] = S /\ got'[ch] = G /\ Bytes(ch)' = B /\ link'[ch[2]] = "up"
      BY <1>4, <1>8 DEF Opened, Kept
    <2>2. S = <<>> /\ G = <<>>
      BY <1>1, <1>4, <1>8 DEF Opened, LossInv
    <2>3. B = <<>> /\ Len(G) = 0
      BY <1>6, <2>2, NothingSent
    <2>4. Flows(ch, S, Len(G), B, TRUE)
      BY <2>2, <2>3, FlowsEmpty
    <2> QED
      BY <2>1, <2>4, FlowFormsNext
  <1>9. CASE Written(ch)
    <2>1. PICK call \in Calls : /\ sent'[ch] = Append(S, call)
                                /\ Bytes(ch)' = B \o Frame(ch, Len(S) + 1, call)
      BY <1>4, <1>9 DEF Written
    <2>2. got'[ch] = G /\ link'[ch[2]] = "up" /\ link[ch[2]] = "up"
      BY <1>4, <1>9 DEF Written
    <2>3. Flows(ch, Append(S, call), Len(G), B \o Frame(ch, Len(S) + 1, call), TRUE)
      BY <1>1, <1>5, <2>2, FlowsAppend
    <2> QED
      BY <2>1, <2>2, <2>3, FlowFormsNext
  <1>10. CASE Cut(ch)
    <2>1. PICK n \in 0 .. Len(B) : Bytes(ch)' = SubSeq(B, 1, n)
      BY <1>4, <1>10 DEF Cut
    <2>2. sent'[ch] = S /\ got'[ch] = G /\ link'[ch[2]] # "up"
      BY <1>4, <1>10 DEF Cut, Kept
    <2>3. Flows(ch, S, Len(G), SubSeq(B, 1, n), FALSE)
      BY <1>6, FlowsCut
    <2> QED
      BY <2>1, <2>2, <2>3, FlowFormsNext
  <1>11. CASE Dispatched(ch)
    <2>1. PICK g \in Nat : g = Len(G)
      BY <1>4
    <2>2. /\ sent'[ch] = S /\ link'[ch[2]] = link[ch[2]]
          /\ g < Len(S) /\ FrameLen(S[g + 1]) <= Len(B)
          /\ got'[ch] = Append(G, S[g + 1])
          /\ Bytes(ch)' = SubSeq(B, FrameLen(S[g + 1]) + 1, Len(B))
      BY <1>4, <1>11, <2>1 DEF Dispatched
    <2>3. S[g + 1] \in Calls
      BY <2>2
    <2>4. got'[ch] \in Seq(Calls) /\ Len(got'[ch]) = g + 1
      BY <2>1, <2>2, <2>3, AppendProperties
    <2>5. CASE link[ch[2]] = "up"
      <3>1. Flows(ch, S, g, B, TRUE)
        BY <1>5, <2>1, <2>5
      <3>2. Flows(ch, S, g + 1, SubSeq(B, FrameLen(S[g + 1]) + 1, Len(B)), TRUE)
        BY <2>2, <3>1, FlowsDrop
      <3> QED
        BY <2>2, <2>4, <2>5, <3>2, FlowFormsNext
    <2>6. CASE link[ch[2]] # "up"
      <3>1. Flows(ch, S, g, B, FALSE)
        BY <1>6, <2>1
      <3>2. Flows(ch, S, g + 1, SubSeq(B, FrameLen(S[g + 1]) + 1, Len(B)), FALSE)
        BY <2>2, <3>1, FlowsDrop
      <3> QED
        BY <2>2, <2>4, <2>6, <3>2, FlowFormsNext
    <2> QED
      BY <2>5, <2>6
  <1> QED
    BY <1>7, <1>8, <1>9, <1>10, <1>11 DEF ChannelStep

\* Nothing is dispatched any more from the first connection of a peer that has another.
LEMMA SettledGot ==
    ASSUME TransportInv, [Next]_vars, NEW ch \in FreshChannels, Settled(ch)
    PROVE  got'[ch] = got[ch]
  <1> USE DEF TransportInv
  <1>1. ch \in Channels
    BY DEF FreshChannels
  <1>2. ASSUME NEW n \in Nodes, Dispatch(n)
        PROVE  got'[ch] = got[ch]
    <2>1. ch # Top(n).ch
      BY <1>2, DispatchDoes DEF StackInv
    <2> QED
      BY <1>1, <1>2, <2>1, DispatchDoes
  <1>3. (\E n \in Nodes : Dispatch(n)) \/ UNCHANGED got
    BY DEF Next, vars, Handle, Connect, DisconnectServer, ProtocolError, PeerCall, Write,
           Accept, Break, ClientDisconnected, ServerCall, ReadyRead, Return, Hang, CloseBox
  <1> QED
    BY <1>2, <1>3

LEMMA FlowStep ==
    ASSUME TransportInv, [Next]_vars
    PROVE  FlowInv' /\ GotType'
  <1> USE DEF TransportInv
  <1>1. ASSUME NEW ch \in FreshChannels, ~Settled(ch)
        PROVE  FlowOf(ch)' /\ got'[ch] \in Seq(Calls)
    BY <1>1, ChannelSteps, ChannelFlows
  <1>2. ASSUME NEW ch \in FreshChannels, Settled(ch)
        PROVE  got'[ch] \in Seq(Calls)
    BY <1>2, SettledGot DEF GotType
  <1>3. \A ch : Settled(ch) => Settled(ch)'
    BY UsedGrows
  <1>4. FreshChannels' = FreshChannels
    BY DEF FreshChannels
  <1> QED
    BY <1>1, <1>2, <1>3, <1>4 DEF FlowInv, GotType

----------------------------------------------------------------------------
(* What is left in the buffer of a peer.                                   *)

LEMMA PeerChannel ==
    ASSUME TransportInv, NEW p \in Peers, NEW ch \in Channels, Key(ch) = p
    PROVE  /\ ch[1] = "peer" /\ ch[2][1] = p /\ Node(ch) = p /\ p \in Nodes
           /\ ch[2][2] = 1 => ch = FirstIn(p) /\ ch \in FreshChannels
  <1>1. /\ ch = <<ch[1], ch[2]>> /\ ch[2] = <<ch[2][1], ch[2][2]>>
        /\ ch[1] \in {"server", "peer"}
        /\ ch[1] = "server" => Key(ch) \notin Peers
        /\ ch[1] = "peer" => Key(ch) = ch[2][1] /\ Node(ch) = ch[2][1]
        /\ Node(ch) \in Nodes
    BY ChannelForms
  <1>2. ch[1] = "peer" /\ ch[2][1] = p /\ Node(ch) = p /\ p \in Nodes
    BY <1>1
  <1>3. ASSUME ch[2][2] = 1
        PROVE  ch = FirstIn(p) /\ ch \in FreshChannels
    BY <1>1, <1>2, <1>3 DEF FirstIn, First, FreshChannels
  <1> QED
    BY <1>2, <1>3

LEMMA BufferChanges ==
    ASSUME TransportInv, [Next]_vars, NEW p \in Peers
    PROVE  \/ buffer'[p] = buffer[p]
           \/ \E length : Took(p, length)
           \/ \E ch \in Channels : ReadyRead(ch) /\ Key(ch) = p
  <1> USE DEF TransportInv
  <1>0. p \in DOMAIN buffer
    BY DEF TypeOK
  <1>1. ASSUME NEW n \in Nodes, Dispatch(n)
        PROVE  buffer'[p] = buffer[p] \/ \E length : Took(p, length)
    <2>1. PICK key, length : Took(key, length)
      BY <1>1, DispatchDoes
    <2> QED
      BY <1>0, <2>1 DEF Took
  <1>2. ASSUME NEW q \in Peers, ProtocolError(q)
        PROVE  buffer'[p] = buffer[p] \/ \E length : Took(p, length)
    <2>1. PICK length : Took(q, length)
      BY <1>2, ProtocolErrorDoes
    <2> QED
      BY <1>0, <2>1 DEF Took
  <1>3. ASSUME NEW ch \in Channels, ReadyRead(ch), Key(ch) # p
        PROVE  buffer'[p] = buffer[p]
    BY <1>0, <1>3, ReadyReadDoes
  <1>4. ASSUME NEW c \in Conns, Accept(c) \/ ClientDisconnected(c)
        PROVE  buffer'[p] = buffer[p]
    <2>1. c # p
      BY ChannelOf
    <2> QED
      BY <1>0, <1>4, <2>1 DEF Accept, ClientDisconnected, Without
  <1>5. \/ \E n \in Nodes : Dispatch(n)
        \/ \E q \in Peers : ProtocolError(q)
        \/ \E ch \in Channels : ReadyRead(ch)
        \/ \E c \in Conns : Accept(c) \/ ClientDisconnected(c)
        \/ UNCHANGED buffer
    BY DEF Next, vars, Handle, Connect, DisconnectServer, PeerCall, Write,
           Break, ServerCall, Return, Hang, CloseBox
  <1> QED
    BY <1>1, <1>2, <1>3, <1>4, <1>5

\* Nothing whole comes into the buffer of a peer that has connected again.
LEMMA RestStays ==
    ASSUME TransportInv, [Next]_vars, NEW p \in Peers, First(p) \in Conns, NoneWhole(p),
           Later(p)' \/ stack'[p] = <<>>
    PROVE  NoneWhole(p)'
  <1> USE DEF TransportInv
  <1>0. p \in DOMAIN buffer /\ p \in Nodes
    BY DEF TypeOK, Nodes
  <1>1. buffer[p] \in Seq(Known)
    BY <1>0 DEF DataType
  <1>2. \A b \in Known : IsLast(b)' <=> IsLast(b)
    BY SentStep, KnownGrows
  <1>3. \A i \in 1 .. Len(buffer[p]) :
            buffer[p][i] \in Known /\ (buffer[p][i].ch = FirstIn(p) => ~IsLast(buffer[p][i]))
    BY <1>1, ElementOfSeq DEF NoneWhole
  <1>4. SUFFICES ASSUME NEW i \in 1 .. Len(buffer'[p])
                 PROVE  /\ buffer'[p][i] \in Known
                        /\ buffer'[p][i].ch = FirstIn(p) => ~IsLast(buffer'[p][i])
    <2>1. ASSUME NEW b \in Known, b.ch = FirstIn(p) => ~IsLast(b)
          PROVE  b.ch = FirstIn(p) => ~IsLast(b)'
      BY <1>2, <2>1
    <2>2. \A i \in 1 .. Len(buffer'[p]) :
              buffer'[p][i].ch = FirstIn(p) => ~(buffer'[p][i].at
                  = HeaderLen + Size[sent'[buffer'[p][i].ch][buffer'[p][i].call]])
      BY <1>4, <2>1 DEF IsLast
    <2> QED
      BY <2>2 DEF NoneWhole, FirstIn, First, IsLast
  <1>5. CASE buffer'[p] = buffer[p]
    BY <1>3, <1>5
  <1>6. ASSUME NEW length, Took(p, length)
        PROVE  /\ buffer'[p][i] \in Known
               /\ buffer'[p][i].ch = FirstIn(p) => ~IsLast(buffer'[p][i])
    <2>1. /\ buffer'[p] = SubSeq(buffer[p], HeaderLen + length + 1, Len(buffer[p]))
          /\ HeaderLen + length \in Nat
      <3>1. length \in Nat /\ HeaderLen = 4 /\ p \in DOMAIN buffer
        BY <1>6 DEF Took, HeaderLen
      <3>2. PICK rest : rest = SubSeq(buffer[p], HeaderLen + length + 1, Len(buffer[p]))
        OBVIOUS
      <3>3. buffer' = [buffer EXCEPT ![p] = rest]
        BY <1>6, <3>2 DEF Took
      <3>4. buffer'[p] = rest
        BY <3>1, <3>3
      <3> QED
        BY <3>1, <3>2, <3>4
    <2>2. PICK m \in Nat : m = HeaderLen + length
      BY <2>1
    <2>3. buffer'[p] = SubSeq(buffer[p], m + 1, Len(buffer[p])) /\ Len(buffer[p]) \in 0 .. Len(buffer[p])
      BY <1>1, <2>1, <2>2
    <2>4. i + m \in 1 .. Len(buffer[p]) /\ buffer'[p][i] = buffer[p][i + m]
      BY <1>1, <2>3, Part
    <2> QED
      BY <1>3, <2>4
  <1>7. ASSUME NEW ch \in Channels, ReadyRead(ch), Key(ch) = p
        PROVE  /\ buffer'[p][i] \in Known
               /\ buffer'[p][i].ch = FirstIn(p) => ~IsLast(buffer'[p][i])
    <2>1. ch[1] = "peer" /\ ch[2][1] = p /\ Node(ch) = p
      BY <1>7, PeerChannel
    <2>2. device[p] = ch[2]
      BY <1>7, <2>1, ReadyReadDoes
    <2>3. stack'[p] # <<>> /\ UNCHANGED link
      <3>1. stack' = [stack EXCEPT ![p] = Append(@, [ch |-> ch, spinning |-> FALSE])]
        BY <1>7, <2>1, ReadyReadDoes
      <3> QED
        BY <1>0, <1>7, <3>1, PushStack, ReadyReadDoes
    <2>4. Later(p)
      BY <2>3 DEF Later, Used
    <2>5. ch # FirstIn(p)
      BY <2>2, <2>4 DEF DeviceInv, FirstIn
    <2>6. PICK k \in 1 .. Len(wire[ch]) :
              buffer'[p] = buffer[p] \o SubSeq(wire[ch], 1, k)
      BY <1>0, <1>7, ReadyReadDoes
    <2>7. /\ wire[ch] \in Seq(Known)
          /\ \A j \in 1 .. Len(wire[ch]) : wire[ch][j].ch = ch /\ wire[ch][j] \in Known
      <3>1. wire[ch] \in Seq(Known)
        BY DEF DataType
      <3> QED
        BY <3>1, ElementOfSeq DEF WireInv
    <2> DEFINE w == SubSeq(wire[ch], 1, k)
    <2>8. w \in Seq(Known) /\ \A j \in 1 .. Len(w) : w[j].ch = ch /\ w[j] \in Known
      BY <2>7
    <2> HIDE DEF w
    <2>9. \/ i \in 1 .. Len(buffer[p]) /\ buffer'[p][i] = buffer[p][i]
          \/ i - Len(buffer[p]) \in 1 .. Len(w) /\ buffer'[p][i] = w[i - Len(buffer[p])]
      <3>1. PICK b \in Seq(Known), v \in Seq(Known) : b = buffer[p] /\ v = w
        BY <1>1, <2>8
      <3>2. buffer'[p] = b \o v
        BY <2>6, <3>1 DEF w
      <3>3. i \in 1 .. Len(b) + Len(v)
        BY <3>2, ConcatProperties
      <3>4. \/ i \in 1 .. Len(b) /\ (b \o v)[i] = b[i]
            \/ i - Len(b) \in 1 .. Len(v) /\ (b \o v)[i] = v[i - Len(b)]
        BY <3>3, Concat
      <3> QED
        BY <3>1, <3>2, <3>4
    <2> QED
      BY <1>3, <2>5, <2>8, <2>9
  <1> QED
    BY <1>5, <1>6, <1>7, BufferChanges

\* clientData and serverData return only when there is no whole call left.
LEMMA ReturnTakesAll ==
    ASSUME TransportInv, NEW ch \in FreshChannels, ~Settled(ch), Key(ch) \in DOMAIN buffer,
           MayReturn(ch), NEW i \in 1 .. Len(buffer[Key(ch)])
    PROVE  ~IsLast(buffer[Key(ch)][i])
  <1> USE DEF TransportInv
  <1> DEFINE buf == buffer[Key(ch)]
             g == Len(got[ch])
             first == sent[ch][g + 1]
  <1>1. buf # <<>> /\ Len(buf) \in Nat
    <2>1. buf \in Seq(Known)
      BY DEF DataType, TypeOK
    <2> QED
      BY <2>1
  <1>2. /\ first \in Calls
        /\ \A j \in 1 .. Len(buf) : j <= FrameLen(first) => buf[j] = Byte(ch, g + 1, j)
    BY <1>1, FrameAhead
  <1>3. FrameLen(first) \in Nat /\ FrameLen(first) > HeaderLen /\ HeaderLen = 4
    BY <1>2, FrameLength
  <1>4. Len(buf) < FrameLen(first)
    <2>1. CASE ~HasHeader(Key(ch))
      BY <1>1, <1>3, <2>1 DEF HasHeader
    <2>2. CASE HasHeader(Key(ch))
      <3>1. PICK length \in Lengths(buf) : ~CanDeserialize(buf, length)
        BY <2>2 DEF MayReturn
      <3>2. length \in Nat /\ FrameLen(first) = HeaderLen + length
        BY <2>2, HeaderAhead
      <3> QED
        BY <1>1, <1>3, <3>1, <3>2 DEF CanDeserialize
    <2> QED
      BY <2>1, <2>2
  <1>5. buf[i] = Byte(ch, g + 1, i) /\ i < FrameLen(first)
    BY <1>1, <1>2, <1>3, <1>4
  <1>6. IsLast(buf[i]) <=> i = FrameLen(first)
    <2> HIDE DEF buf
    <2> QED
      BY <1>5 DEF IsLast, Byte, FrameLen
  <1> QED
    BY <1>3, <1>5, <1>6

LEMMA ReturnRests ==
    ASSUME TransportInv, NEW p \in Peers, First(p) \in Conns, Return(p), ~Later(p)
    PROVE  NoneWhole(p)
  <1> USE DEF TransportInv
  <1>0. p \in DOMAIN buffer /\ p \in Nodes
    BY DEF TypeOK, Nodes
  <1>1. stack[p] # <<>> /\ MayReturn(Top(p).ch)
    BY DEF Return, Handling
  <1>2. PICK ch \in Channels : ch = Top(p).ch /\ Reading(p, ch)
    BY <1>0, <1>1, TopOf
  <1>3. Node(ch) = p /\ ch[2] \in Used
    BY <1>0, <1>2 DEF StackInv
  <1>4. Key(ch) = p /\ ch[2][1] = p
    BY <1>3, ChannelForms, PeersAssumption
  <1>5. ch = FirstIn(p) /\ ch \in FreshChannels /\ ~Settled(ch)
    <2>1. ch[2][2] = 1
      BY <1>3, <1>4 DEF Later
    <2> QED
      BY <1>4, <2>1, PeerChannel DEF Settled
  <1> QED
    BY <1>0, <1>1, <1>2, <1>4, <1>5, ReturnTakesAll DEF NoneWhole

LEMMA StackEmpties ==
    ASSUME TransportInv, [Next]_vars, NEW p \in Peers, stack[p] # <<>>, stack'[p] = <<>>
    PROVE  Return(p) \/ ProtocolError(p)
  <1> USE DEF TransportInv
  <1>0. p \in Nodes
    BY DEF Nodes
  <1>1. ASSUME NEW n \in Nodes, Dispatch(n)
        PROVE  FALSE
    BY <1>0, <1>1, DispatchDoes DEF NoneRead
  <1>2. ASSUME NEW q \in Peers, ProtocolError(q)
        PROVE  p = q
    BY <1>0, <1>2, ProtocolErrorDoes DEF NoneRead
  <1>3. ASSUME NEW n \in Nodes, Return(n)
        PROVE  p = n
    BY <1>0, <1>3, PopStack DEF Return, Handling, NoneRead
  <1>4. ASSUME NEW n \in Nodes, CloseBox(n)
        PROVE  FALSE
    BY <1>0, <1>4, SpinStack DEF CloseBox, NoneRead
  <1>5. ASSUME NEW ch \in Channels, ReadyRead(ch)
        PROVE  FALSE
    <2>1. PICK n \in Nodes : n = Node(ch)
      BY <1>5, ReadyReadDoes
    <2>2. stack' = [stack EXCEPT ![n] = Append(@, [ch |-> ch, spinning |-> FALSE])]
      BY <1>5, <2>1, ReadyReadDoes
    <2> QED
      BY <1>0, <2>2, PushStack
  <1>6. \/ \E n \in Nodes : Dispatch(n) \/ Return(n) \/ CloseBox(n)
        \/ \E q \in Peers : ProtocolError(q)
        \/ \E ch \in Channels : ReadyRead(ch)
        \/ UNCHANGED stack
    BY DEF Next, vars, Handle, Connect, DisconnectServer, PeerCall, ServerCall, Write,
           Accept, Break, ClientDisconnected, Hang
  <1> QED
    BY <1>1, <1>2, <1>3, <1>4, <1>5, <1>6

LEMMA RestStep ==
    ASSUME TransportInv, [Next]_vars
    PROVE  RestInv'
  <1> USE DEF TransportInv
  <1> SUFFICES ASSUME NEW p \in Peers, First(p) \in Conns, Later(p)' \/ stack'[p] = <<>>
               PROVE  NoneWhole(p)'
    BY DEF RestInv, First, Conns
  <1>1. NoneWhole(p)
    <2>1. CASE Later(p) \/ stack[p] = <<>>
      BY <2>1 DEF RestInv
    <2>2. CASE ~Later(p) /\ stack[p] # <<>>
      <3>1. ~Later(p)'
        BY <2>2, UsedGrows, ConnectDoes
      <3>2. Return(p)
        BY <2>2, <3>1, StackEmpties, ErrorLater
      <3> QED
        BY <2>2, <3>2, ReturnRests
    <2> QED
      BY <2>1, <2>2
  <1> QED
    BY <1>1, RestStays

----------------------------------------------------------------------------
(* The invariant holds from the start and through every step.              *)

LEMMA StartsEmpty ==
    ASSUME Init
    PROVE  /\ Used = {} /\ \A p : ~Later(p)
           /\ \A ch \in Channels : /\ sent[ch] = <<>> /\ got[ch] = <<>> /\ wire[ch] = <<>>
                                   /\ link[ch[2]] = "unused" /\ Bytes(ch) = <<>>
           /\ \A p \in Peers : buffer[p] = <<>> /\ device[p] = NoDevice
           /\ \A n \in Nodes : stack[n] = <<>>
  <1>1. \A ch \in Channels : ch[2] \in Conns
    BY DEF Channels
  <1>2. Used = {} /\ \A p : ~Later(p)
    BY DEF Init, Used, Later
  <1>3. ASSUME NEW ch \in Channels
        PROVE  Bytes(ch) = <<>>
    <2>1. BufferOf(ch) = <<>> /\ wire[ch] = <<>>
      BY DEF Init, BufferOf
    <2>2. Bytes(ch) = BufferOf(ch) \o wire[ch]
      BY DEF Bytes, BufferOf
    <2> QED
      BY <2>1, <2>2
  <1> QED
    BY <1>1, <1>2, <1>3 DEF Init

LEMMA TransportInit == Init => TransportInv
  <1> SUFFICES ASSUME Init
               PROVE  TransportInv
    OBVIOUS
  <1>1. TypeOK
    BY TypeInit
  <1>2. DataType /\ GotType
    <2>1. <<>> \in Seq(Known) /\ <<>> \in Seq(Entry) /\ <<>> \in Seq(Calls)
      OBVIOUS
    <2>2. GotType
      BY <2>1, StartsEmpty DEF GotType, FreshChannels
    <2> QED
      BY <2>1, <2>2 DEF Init, DataType
  <1>3. NumberInv
    BY StartsEmpty, BoundAssumption DEF NumberInv
  <1>4. DeviceInv /\ LossInv
    BY StartsEmpty DEF DeviceInv, LossInv
  <1>5. WireInv
    BY StartsEmpty DEF WireInv
  <1>6. StackInv
    BY StartsEmpty DEF StackInv, Reading
  <1>7. FlowInv
    <2> SUFFICES ASSUME NEW ch \in FreshChannels
                 PROVE  FlowOf(ch)
      BY DEF FlowInv
    <2>1. /\ sent[ch] = <<>> /\ got[ch] = <<>> /\ Bytes(ch) = <<>>
          /\ link[ch[2]] # "up" /\ Len(<<>>) = 0
      BY StartsEmpty DEF FreshChannels
    <2>2. Flows(ch, <<>>, 0, <<>>, FALSE)
      BY FlowsEmpty
    <2> QED
      BY <2>1, <2>2, FlowForms
  <1>8. RestInv
    BY StartsEmpty DEF RestInv, NoneWhole
  <1> QED
    BY <1>1, <1>2, <1>3, <1>4, <1>5, <1>6, <1>7, <1>8 DEF TransportInv

LEMMA TransportStep == TransportInv /\ [Next]_vars => TransportInv'
  <1> SUFFICES ASSUME TransportInv, [Next]_vars
               PROVE  TransportInv'
    OBVIOUS
  <1>1. TypeOK' /\ DataType' /\ NumberInv' /\ DeviceInv'
    BY TypeStep, DataStep, NumberStep, DeviceStep DEF TransportInv
  <1>2. LossInv' /\ WireInv' /\ StackInv'
    BY LossStep, WireStep, StackStep DEF TransportInv
  <1>3. FlowInv' /\ GotType' /\ RestInv'
    BY FlowStep, RestStep
  <1> QED
    BY <1>1, <1>2, <1>3 DEF TransportInv

----------------------------------------------------------------------------
(* The transport is a queue of calls.                                      *)

\* What is under way on a channel with a buffer of its own.
UnderWay(ch) ==
    \E g \in Nat, n \in Nat :
        /\ g = Len(got[ch]) /\ n = Count(ch, sent[ch], Bytes(ch))
        /\ got[ch] \in Seq(Calls) /\ sent[ch] \in Seq(Calls) /\ g + n <= Len(sent[ch])
        /\ link[ch[2]] = "up" => g + n = Len(sent[ch])
        /\ Pending(ch) = SubSeq(sent[ch], g + 1, g + n)

LEMMA UnderWayNow ==
    TransportInv => \A ch \in FreshChannels : ~Settled(ch) => UnderWay(ch)
  <1> SUFFICES ASSUME TransportInv, NEW ch \in FreshChannels, ~Settled(ch)
               PROVE  UnderWay(ch)
    OBVIOUS
  <1> USE DEF TransportInv
  <1>1. ch \in Channels
    BY DEF FreshChannels
  <1>2. FlowOf(ch) /\ got[ch] \in Seq(Calls) /\ Bytes(ch) \in Seq(ByteSet)
        /\ sent[ch] \in Seq(Calls)
    BY <1>1, BytesType DEF FlowInv, GotType
  <1> HIDE DEF TransportInv
  <1>3. PICK S \in Seq(Calls), B \in Seq(ByteSet), g \in Nat :
            S = sent[ch] /\ B = Bytes(ch) /\ g = Len(got[ch])
    BY <1>2
  <1>4. /\ link[ch[2]] = "up" => Flows(ch, S, g, B, TRUE)
        /\ link[ch[2]] # "up" => Flows(ch, S, g, B, FALSE)
    BY <1>2, <1>3, FlowForms
  <1>5. g \in 0 .. Len(S) /\ Count(ch, S, B) \in 0 .. Len(S) - g
    BY <1>4, FlowsCount
  <1>6. link[ch[2]] = "up" => Count(ch, S, B) = Len(S) - g
    BY <1>4, FlowsCount
  <1>7. PICK n \in Nat : n = Count(ch, S, B)
    BY <1>5
  <1>8. g + n <= Len(S) /\ (link[ch[2]] = "up" => g + n = Len(S))
    BY <1>5, <1>6, <1>7
  <1>9. /\ g <= Len(sent[ch])
        /\ Count(ch, sent[ch], Bytes(ch)) \in 0 .. Len(sent[ch]) - g
    <2>1. Len(S) = Len(sent[ch]) /\ Count(ch, S, B) = Count(ch, sent[ch], Bytes(ch))
      BY <1>3
    <2>2. Len(S) \in Nat
      OBVIOUS
    <2> QED
      BY <1>5, <2>1, <2>2
  <1>10. Pending(ch) = SubSeq(sent[ch], g + 1, g + Count(ch, sent[ch], Bytes(ch)))
    BY <1>1, <1>3, <1>9, PendingCalls DEF TransportInv
  <1>11. n = Count(ch, sent[ch], Bytes(ch))
    BY <1>3, <1>7
  <1>12. /\ g + n <= Len(sent[ch])
         /\ link[ch[2]] = "up" => g + n = Len(sent[ch])
    <2>1. Len(S) = Len(sent[ch])
      BY <1>3
    <2> QED
      BY <1>8, <2>1
  <1>13. Pending(ch) = SubSeq(sent[ch], g + 1, g + n)
    BY <1>10, <1>11
  <1> QED
    BY <1>2, <1>3, <1>11, <1>12, <1>13 DEF UnderWay

LEMMA UnderWayNext ==
    ASSUME TransportInv, [Next]_vars
    PROVE  \A ch \in FreshChannels : ~Settled(ch)' => UnderWay(ch)'
  <1>1. (TransportInv => \A ch \in FreshChannels : ~Settled(ch) => UnderWay(ch))'
    BY UnderWayNow, PTL
  <1>2. FreshChannels' = FreshChannels
    BY DEF FreshChannels
  <1> QED
    BY <1>1, <1>2, TransportStep

\* Parts of a sequence, as a queue sees them.
LEMMA FirstOfPart ==
    ASSUME NEW X, NEW s \in Seq(X), NEW g \in Nat, NEW n \in Nat, n > 0, g + n <= Len(s)
    PROVE  /\ SubSeq(s, g + 1, g + n) # <<>>
           /\ Head(SubSeq(s, g + 1, g + n)) = s[g + 1]
           /\ Tail(SubSeq(s, g + 1, g + n)) = SubSeq(s, g + 2, g + n)
  OBVIOUS

LEMMA CutOfPart ==
    ASSUME NEW X, NEW s \in Seq(X), NEW g \in Nat, NEW n \in Nat, NEW m \in 0 .. n,
           g + n <= Len(s)
    PROVE  /\ m \in 0 .. Len(SubSeq(s, g + 1, g + n))
           /\ SubSeq(SubSeq(s, g + 1, g + n), 1, m) = SubSeq(s, g + 1, g + m)
  OBVIOUS

LEMMA AppendOfPart ==
    ASSUME NEW X, NEW s \in Seq(X), NEW x \in X, NEW g \in Nat, NEW n \in Nat, g + n = Len(s)
    PROVE  SubSeq(Append(s, x), g + 1, g + (n + 1)) = Append(SubSeq(s, g + 1, g + n), x)
  OBVIOUS

LEMMA UnderWayForms ==
    ASSUME NEW ch
    PROVE  UnderWay(ch)' <=>
               \E g \in Nat, n \in Nat :
                   /\ g = Len(got'[ch]) /\ n = Count(ch, sent'[ch], Bytes(ch)')
                   /\ got'[ch] \in Seq(Calls) /\ sent'[ch] \in Seq(Calls)
                   /\ g + n <= Len(sent'[ch])
                   /\ link'[ch[2]] = "up" => g + n = Len(sent'[ch])
                   /\ Pending(ch)' = SubSeq(sent'[ch], g + 1, g + n)
  BY DEF UnderWay, Count, LastBytes, FrameLen

\* A step of the queue at one channel.
Up(ch) == link[ch[2]] = "up"
QueueStep(ch) ==
    \/ Up(ch)' /\ Pending(ch) = <<>> /\ got[ch] = <<>> /\ Pending(ch)' = <<>> /\ got'[ch] = <<>>
    \/ /\ Up(ch) /\ Up(ch)' /\ got'[ch] = got[ch]
       /\ \E call \in Calls : Pending(ch)' = Append(Pending(ch), call)
    \/ /\ Pending(ch) # <<>> /\ Pending(ch)' = Tail(Pending(ch))
       /\ got'[ch] = Append(got[ch], Head(Pending(ch))) /\ (Up(ch)' <=> Up(ch))
    \/ /\ ~Up(ch)' /\ got'[ch] = got[ch]
       /\ \E n \in 0 .. Len(Pending(ch)) : Pending(ch)' = SubSeq(Pending(ch), 1, n)
    \/ (Up(ch)' <=> Up(ch)) /\ Pending(ch)' = Pending(ch) /\ got'[ch] = got[ch]

LEMMA ChannelQueues ==
    ASSUME TransportInv, [Next]_vars, NEW ch \in FreshChannels, ~Settled(ch), ~Settled(ch)'
    PROVE  QueueStep(ch)
  <1>1. ch \in Channels
    BY DEF FreshChannels
  <1>2. FlowOf(ch) /\ Bytes(ch) \in Seq(ByteSet)
    BY <1>1, BytesType DEF FlowInv, TransportInv
  <1>3. PICK g \in Nat, n \in Nat :
            /\ g = Len(got[ch]) /\ n = Count(ch, sent[ch], Bytes(ch))
            /\ got[ch] \in Seq(Calls) /\ sent[ch] \in Seq(Calls) /\ g + n <= Len(sent[ch])
            /\ link[ch[2]] = "up" => g + n = Len(sent[ch])
            /\ Pending(ch) = SubSeq(sent[ch], g + 1, g + n)
    BY UnderWayNow DEF UnderWay
  <1>4. UnderWay(ch)'
    BY UnderWayNext
  <1>5. PICK h \in Nat, m \in Nat :
            /\ h = Len(got'[ch]) /\ m = Count(ch, sent'[ch], Bytes(ch)')
            /\ link'[ch[2]] = "up" => h + m = Len(sent'[ch])
            /\ Pending(ch)' = SubSeq(sent'[ch], h + 1, h + m)
    BY <1>4, UnderWayForms
  <1>6. PICK S \in Seq(Calls), G \in Seq(Calls), B \in Seq(ByteSet) :
            S = sent[ch] /\ G = got[ch] /\ B = Bytes(ch)
    BY <1>2, <1>3
  <1>7. /\ g = Len(G) /\ n = Count(ch, S, B) /\ g + n <= Len(S)
        /\ Pending(ch) = SubSeq(S, g + 1, g + n)
    BY <1>3, <1>6
  <1>8. Flows(ch, S, g, B, FALSE)
    BY <1>2, <1>6, <1>7, FlowForms, FlowWeaker
  <1>9. CASE Unchanged(ch)
    <2>1. /\ sent'[ch] = S /\ got'[ch] = G /\ Bytes(ch)' = B
          /\ link'[ch[2]] = link[ch[2]]
      BY <1>6, <1>9 DEF Unchanged, Kept
    <2>2. h = g /\ m = n
      BY <1>5, <1>7, <2>1
    <2>3. Pending(ch)' = Pending(ch)
      BY <1>5, <1>7, <2>1, <2>2
    <2> QED
      BY <1>6, <2>1, <2>3 DEF QueueStep, Up
  <1>10. CASE Opened(ch)
    <2>1. sent'[ch] = S /\ got'[ch] = G /\ Bytes(ch)' = B /\ link'[ch[2]] = "up"
      BY <1>6, <1>10 DEF Opened, Kept
    <2>2. S = <<>> /\ G = <<>>
      BY <1>1, <1>6, <1>10 DEF Opened, LossInv, TransportInv
    <2>3. h = g /\ m = n /\ g = 0 /\ n = 0
      <3>1. Len(S) = 0 /\ Len(G) = 0
        BY <2>2
      <3> QED
        BY <1>5, <1>7, <2>1, <3>1
    <2>4. SubSeq(S, 0 + 1, 0 + 0) = <<>>
      BY <2>2
    <2>5. Pending(ch) = <<>> /\ Pending(ch)' = <<>>
      BY <1>5, <1>7, <2>1, <2>3, <2>4
    <2> QED
      BY <1>6, <2>1, <2>2, <2>5 DEF QueueStep, Up
  <1>11. CASE Written(ch)
    <2>1. PICK call \in Calls : sent'[ch] = Append(S, call)
      BY <1>6, <1>11 DEF Written
    <2>2. got'[ch] = G /\ link'[ch[2]] = "up" /\ link[ch[2]] = "up"
      BY <1>6, <1>11 DEF Written
    <2>3. g + n = Len(S)
      BY <1>3, <1>6, <2>2
    <2>4. h = g /\ h + m = Len(Append(S, call)) /\ Len(Append(S, call)) = Len(S) + 1
      BY <1>5, <1>7, <2>1, <2>2, AppendProperties
    <2>5. m = n + 1
      BY <2>3, <2>4
    <2>6. Pending(ch)' = SubSeq(Append(S, call), g + 1, g + (n + 1))
      BY <1>5, <2>1, <2>4, <2>5
    <2>7. Pending(ch)' = Append(Pending(ch), call)
      <3>1. SubSeq(Append(S, call), g + 1, g + (n + 1))
                = Append(SubSeq(S, g + 1, g + n), call)
        BY <2>3, AppendOfPart
      <3> QED
        BY <1>7, <2>6, <3>1
    <2> QED
      BY <1>6, <2>2, <2>7 DEF QueueStep, Up
  <1>12. CASE Cut(ch)
    <2>1. PICK k \in 0 .. Len(B) : Bytes(ch)' = SubSeq(B, 1, k)
      BY <1>6, <1>12 DEF Cut
    <2>2. sent'[ch] = S /\ got'[ch] = G /\ link'[ch[2]] # "up"
      BY <1>6, <1>12 DEF Cut, Kept
    <2>3. h = g /\ m = Count(ch, S, SubSeq(B, 1, k))
      BY <1>5, <1>7, <2>1, <2>2
    <2>4. m \in 0 .. n
      BY <1>7, <1>8, <2>3, FlowsCut
    <2>5. /\ m \in 0 .. Len(Pending(ch))
          /\ Pending(ch)' = SubSeq(Pending(ch), 1, m)
      <3>1. g + n <= Len(S)
        BY <1>7
      <3>2. /\ m \in 0 .. Len(SubSeq(S, g + 1, g + n))
            /\ SubSeq(SubSeq(S, g + 1, g + n), 1, m) = SubSeq(S, g + 1, g + m)
        BY <2>4, <3>1, CutOfPart
      <3>3. Pending(ch)' = SubSeq(S, g + 1, g + m)
        BY <1>5, <2>2, <2>3
      <3> QED
        BY <1>7, <3>2, <3>3
    <2> QED
      BY <1>6, <2>2, <2>5 DEF QueueStep, Up
  <1>13. CASE Dispatched(ch)
    <2>1. /\ sent'[ch] = S /\ link'[ch[2]] = link[ch[2]]
          /\ g < Len(S) /\ FrameLen(S[g + 1]) <= Len(B)
          /\ got'[ch] = Append(G, S[g + 1])
          /\ Bytes(ch)' = SubSeq(B, FrameLen(S[g + 1]) + 1, Len(B))
      BY <1>6, <1>7, <1>13 DEF Dispatched
    <2>2. S[g + 1] \in Calls
      BY <2>1
    <2>3. h = g + 1
      BY <1>5, <1>7, <2>1, <2>2, AppendProperties
    <2>4. Count(ch, S, SubSeq(B, FrameLen(S[g + 1]) + 1, Len(B))) = Count(ch, S, B) - 1
      BY <1>8, <2>1, FlowsDrop
    <2>5. m = n - 1 /\ n > 0
      <3>1. m = n - 1
        BY <1>5, <1>7, <2>1, <2>4
      <3> QED
        BY <3>1
    <2>6. /\ Pending(ch) # <<>> /\ Head(Pending(ch)) = S[g + 1]
          /\ Tail(Pending(ch)) = SubSeq(S, g + 2, g + n)
      <3>1. g + n <= Len(S)
        BY <1>7
      <3>2. /\ SubSeq(S, g + 1, g + n) # <<>>
            /\ Head(SubSeq(S, g + 1, g + n)) = S[g + 1]
            /\ Tail(SubSeq(S, g + 1, g + n)) = SubSeq(S, g + 2, g + n)
        BY <2>5, <3>1, FirstOfPart
      <3> QED
        BY <1>7, <3>2
    <2>7. h + 1 = g + 2 /\ h + m = g + n
      BY <2>3, <2>5
    <2>8. Pending(ch)' = Tail(Pending(ch))
      BY <1>5, <2>1, <2>6, <2>7
    <2> QED
      BY <1>6, <2>1, <2>6, <2>8 DEF QueueStep, Up
  <1> QED
    BY <1>9, <1>10, <1>11, <1>12, <1>13, ChannelSteps DEF ChannelStep

\* No call is under way on a channel none of whose bytes end one.
LEMMA NothingWhole ==
    ASSUME TransportInv, NEW ch \in FreshChannels,
           \A i \in 1 .. Len(Bytes(ch)) : ~(Bytes(ch)[i].ch = ch /\ IsLast(Bytes(ch)[i]))
    PROVE  Pending(ch) = <<>>
  <1>1. ch \in Channels
    BY DEF FreshChannels
  <1>2. Bytes(ch) \in Seq(ByteSet)
    BY <1>1, BytesType DEF TransportInv
  <1>3. Whole(ch) = 0
    <2>1. DOMAIN Bytes(ch) = 1 .. Len(Bytes(ch))
      BY <1>2
    <2>2. {i \in DOMAIN Bytes(ch) : Bytes(ch)[i].ch = ch /\ IsLast(Bytes(ch)[i])} = {}
      BY <2>1
    <2>3. Whole(ch) = Cardinality({})
      BY <2>2 DEF Whole
    <2> QED
      BY <2>3, FS_EmptySet
  <1>4. PICK S \in Seq(Calls), g \in Nat : S = sent[ch] /\ g = Len(got[ch])
    <2>1. sent[ch] \in Seq(Calls) /\ got[ch] \in Seq(Calls)
      BY <1>1 DEF TypeOK, GotType, TransportInv
    <2> QED
      BY <2>1
  <1>5. Pending(ch) = SubSeq(S, g + 1, Min({g, Len(S)}))
    <2>1. g + 0 = g
      OBVIOUS
    <2> QED
      BY <1>3, <1>4, <2>1 DEF Pending
  <1>6. Min({g, Len(S)}) \in Nat /\ Min({g, Len(S)}) <= g
    <2>1. Len(S) \in Nat
      OBVIOUS
    <2>2. CASE g <= Len(S)
      <3>1. Min({g, Len(S)}) = g
        BY <2>1, <2>2, MinOf
      <3> QED
        BY <3>1
    <2>3. CASE Len(S) <= g
      <3>1. Min({g, Len(S)}) = Len(S)
        BY <2>1, <2>3, MinOf
      <3> QED
        BY <2>1, <2>3, <3>1
    <2> QED
      BY <2>1, <2>2, <2>3
  <1>7. SubSeq(S, g + 1, Min({g, Len(S)})) = <<>>
    BY <1>6
  <1> QED
    BY <1>5, <1>7

\* The first connection of a peer that has another is broken, and no call is
\* under way on it.
AtRest(ch) == link[ch[2]] = "broken" /\ Pending(ch) = <<>>

LEMMA SettledNow ==
    TransportInv => \A ch \in FreshChannels : Settled(ch) => AtRest(ch)
  <1> SUFFICES ASSUME TransportInv, NEW ch \in FreshChannels, Settled(ch)
               PROVE  AtRest(ch)
    OBVIOUS
  <1>1. PICK p \in Peers : p = ch[2][1] /\ ch = FirstIn(p) /\ ch[2] = First(p) /\ Later(p)
    BY FreshForms DEF Settled
  <1>2. ch \in Channels /\ ch[2] \in Conns /\ First(p) \in Conns
    <2>1. ch \in Channels
      BY DEF FreshChannels
    <2> QED
      BY <1>1, <2>1, ChannelForms
  <1>3. First(p) \in Used
    <2>1. PICK c \in Used : c[1] = p /\ c[2] # 1
      BY <1>1 DEF Later
    <2>2. PICK i \in 1 .. MaxConns : c = <<p, i>>
      BY <2>1 DEF Used, Conns
    <2>3. PICK k \in 0 .. MaxConns : \A j \in 1 .. MaxConns : <<p, j>> \in Used <=> j <= k
      BY DEF NumberInv, TransportInv
    <2>4. 1 \in 1 .. MaxConns /\ 1 <= k
      <3>1. <<p, i>> \in Used
        BY <2>2
      <3>2. i <= k
        BY <2>3, <3>1
      <3> QED
        BY <3>2, BoundAssumption
    <2> QED
      BY <2>3, <2>4 DEF First
  <1>4. link[ch[2]] = "broken" /\ wire[ch] = <<>>
    <2>1. device[p] # First(p) /\ First(p)[1] = p
      BY <1>1 DEF DeviceInv, TransportInv, First
    <2> QED
      BY <1>1, <1>3, <2>1 DEF LossInv, TransportInv, FirstIn
  <1>5. Bytes(ch) = buffer[p] /\ buffer[p] \in Seq(Known)
    <2>1. Key(ch) = p /\ p \in DOMAIN buffer
      BY <1>1, <1>2, FirstForms DEF TypeOK, TransportInv
    <2>2. buffer[p] \in Seq(Known)
      BY <2>1 DEF DataType, TransportInv
    <2>3. Bytes(ch) = buffer[p] \o <<>>
      BY <1>4, <2>1 DEF Bytes
    <2> QED
      BY <2>2, <2>3
  <1>6. NoneWhole(p)
    BY <1>1, <1>2 DEF RestInv, TransportInv
  <1>7. Pending(ch) = <<>>
    <2>1. \A i \in 1 .. Len(Bytes(ch)) : ~(Bytes(ch)[i].ch = ch /\ IsLast(Bytes(ch)[i]))
      BY <1>1, <1>5, <1>6 DEF NoneWhole
    <2> QED
      BY <2>1, NothingWhole
  <1> QED
    BY <1>4, <1>7 DEF AtRest

LEMMA SettledNext ==
    ASSUME TransportInv, [Next]_vars
    PROVE  \A ch \in FreshChannels : Settled(ch)' => AtRest(ch)'
  <1>1. (TransportInv => \A ch \in FreshChannels : Settled(ch) => AtRest(ch))'
    BY SettledNow, PTL
  <1>2. FreshChannels' = FreshChannels
    BY DEF FreshChannels
  <1> QED
    BY <1>1, <1>2, TransportStep

\* When a peer connects again, nothing happens to the first connection.
LEMMA SettlingRests ==
    ASSUME TransportInv, NEW ch \in FreshChannels, ~Settled(ch), NEW p \in Peers, Connect(p),
           Settled(ch)'
    PROVE  QueueStep(ch)
  <1>1. /\ NewConn(p) \in Conns \ Used /\ NewConn(p)[1] = p
        /\ link' = [link EXCEPT ![NewConn(p)] = "up"] /\ Used' = Used \cup {NewConn(p)}
        /\ UNCHANGED <<sent, got, wire, clients, gone, buffer, stack>>
    BY ConnectDoes DEF TransportInv
  <1>2. ch[1] # "server" /\ Later(ch[2][1])' /\ ~Later(ch[2][1])
    BY DEF Settled
  <1>3. ch[2] \in Conns /\ ch[2][2] = 1
    BY <1>2, FreshForms, ChannelForms DEF FreshChannels
  <1>4. NewConn(p) # ch[2]
    BY <1>1, <1>2, <1>3 DEF Later
  <1>5. link'[ch[2]] = link[ch[2]]
    BY <1>1, <1>3, <1>4 DEF TypeOK, TransportInv
  <1>6. Pending(ch)' = Pending(ch)
    BY <1>1 DEF Pending, Whole, Bytes, IsLast
  <1> QED
    BY <1>1, <1>5, <1>6 DEF QueueStep, Up

LEMMA EveryChannelQueues ==
    ASSUME TransportInv, [Next]_vars, NEW ch \in FreshChannels
    PROVE  QueueStep(ch)
  <1>1. CASE Settled(ch)
    <2>1. Settled(ch)'
      BY <1>1, UsedGrows DEF TransportInv
    <2>2. AtRest(ch) /\ AtRest(ch)'
      BY <1>1, <2>1, SettledNow, SettledNext
    <2>3. got'[ch] = got[ch]
      BY <1>1, SettledGot
    <2> QED
      BY <2>2, <2>3 DEF AtRest, QueueStep, Up
  <1>2. CASE ~Settled(ch) /\ ~Settled(ch)'
    BY <1>2, ChannelQueues
  <1>3. CASE ~Settled(ch) /\ Settled(ch)'
    <2>1. Connect(ch[2][1]) /\ ch[2][1] \in Peers
      BY <1>3, UsedGrows, FreshForms DEF TransportInv, Settled
    <2> QED
      BY <1>3, <2>1, SettlingRests
  <1> QED
    BY <1>1, <1>2, <1>3

LEMMA QueueInit == Init => Queue!QueueInit
  <1> SUFFICES ASSUME Init
               PROVE  Queue!QueueInit
    OBVIOUS
  <1>1. \A ch \in FreshChannels :
            /\ ch \in Channels /\ link[ch[2]] = "unused" /\ got[ch] = <<>> /\ sent[ch] = <<>>
            /\ Bytes(ch) = <<>>
    BY StartsEmpty DEF FreshChannels
  <1>2. ASSUME NEW ch \in FreshChannels
        PROVE  Pending(ch) = <<>>
    <2>1. \A n \in Nat : SubSeq(<<>>, 0 + 1, Min({0 + n, 0})) = <<>>
      <3> SUFFICES ASSUME NEW n \in Nat
                   PROVE  SubSeq(<<>>, 1, Min({n, 0})) = <<>>
        OBVIOUS
      <3>1. Min({n, 0}) = 0
        BY MinOf
      <3> QED
        BY <3>1
    <2>2. Whole(ch) = 0
      <3>1. {i \in DOMAIN <<>> : <<>>[i].ch = ch /\ IsLast(<<>>[i])} = {}
        OBVIOUS
      <3>2. Whole(ch) = Cardinality({})
        BY <1>1, <3>1 DEF Whole
      <3> QED
        BY <3>2, FS_EmptySet
    <2> QED
      BY <1>1, <2>1, <2>2 DEF Pending
  <1>3. [ch \in FreshChannels |-> link[ch[2]] = "up"] = [ch \in FreshChannels |-> FALSE]
    BY <1>1
  <1>4. [ch \in FreshChannels |-> Pending(ch)] = [ch \in FreshChannels |-> <<>>]
    BY <1>2
  <1>5. [ch \in FreshChannels |-> got[ch]] = [ch \in FreshChannels |-> <<>>]
    BY <1>1
  <1> QED
    BY <1>3, <1>4, <1>5 DEF Queue!QueueInit

LEMMA QueueMoves ==
    ASSUME TransportInv, [Next]_vars
    PROVE  Queue!QueueNext
  <1> SUFFICES ASSUME NEW ch \in FreshChannels
               PROVE  \/ Queue!Opens(ch) \/ Queue!Takes(ch) \/ Queue!Delivers(ch)
                      \/ Queue!Breaks(ch) \/ Queue!Rests(ch)
    BY DEF Queue!QueueNext
  <1>1. QueueStep(ch)
    BY EveryChannelQueues
  <1>2. FreshChannels' = FreshChannels
    BY DEF FreshChannels
  <1> QED
    BY <1>1, <1>2
    DEF QueueStep, Up, Queue!Opens, Queue!Takes, Queue!Delivers, Queue!Breaks, Queue!Rests

\* However TCP cuts the bytes into pieces, whatever the slots do meanwhile and
\* wherever a link breaks, calls arrive whole, once and in the order they were
\* made, at the server and at the first connection of each peer; those that
\* are cut off are lost with all that follow (clientData, serverData,
\* canDeserialize, deserialize).
THEOREM TransportIsQueue == Spec => ImplementsCalls
  <1>1. Init => TransportInv /\ Queue!QueueInit
    BY TransportInit, QueueInit
  <1>2. TransportInv /\ [Next]_vars => TransportInv' /\ [Queue!QueueNext]_(Queue!queueVars)
    BY TransportStep, QueueMoves
  <1> QED
    BY <1>1, <1>2, PTL DEF Spec, ImplementsCalls, Queue!QueueSpec

----------------------------------------------------------------------------
(* Nothing whole is left in a buffer.                                      *)

FromClient(c) == <<"server", c>>
AtServer(c) == Reading("server", FromClient(c))

\* The buffer of a client holds a whole call only while its socket is being read.
NoneLeft(c) == \A i \in 1 .. Len(buffer[c]) : ~IsLast(buffer[c][i])
ServerRest == \A c \in clients : ~AtServer(c) => NoneLeft(c)

LEMMA FromClientForms ==
    ASSUME NEW c \in Conns
    PROVE  /\ FromClient(c) \in FreshChannels /\ FromClient(c) \in Channels
           /\ Key(FromClient(c)) = c /\ Node(FromClient(c)) = "server"
           /\ ~Settled(FromClient(c)) /\ c \notin Peers
           /\ \A ch \in Channels : Key(ch) = c => ch = FromClient(c)
  <1>1. /\ FromClient(c) \in Channels /\ FromClient(c) \in FreshChannels
        /\ Key(FromClient(c)) = c /\ Node(FromClient(c)) = "server"
        /\ ~Settled(FromClient(c)) /\ c \notin Peers
    BY ChannelOf DEF FromClient, FreshChannels, Node, Settled
  <1>2. ASSUME NEW ch \in Channels, Key(ch) = c
        PROVE  ch = FromClient(c)
    BY <1>1, <1>2, ChannelForms DEF FromClient
  <1> QED
    BY <1>1, <1>2

\* A handler goes on while a slot of it spins an event loop ...
LEMMA SpinReads ==
    ASSUME DataType, NEW n \in Nodes, stack[n] # <<>>, NEW yes \in BOOLEAN, Spin(n, yes),
           NEW m \in Nodes, NEW ch \in Channels, Reading(m, ch)
    PROVE  Reading(m, ch)'
  <1> DEFINE l == Len(stack[n])
             s == [stack[n] EXCEPT ![l] = [stack[n][l] EXCEPT !.spinning = yes]]
  <1>1. stack \in [Nodes -> Seq(Entry)]
    BY DEF DataType
  <1>2. stack' = [stack EXCEPT ![n] = s]
    BY <1>1 DEF Spin
  <1>3. stack[n] \in Seq(Entry) /\ l \in 1 .. l /\ stack[n][l] \in Entry
    BY <1>1, TopOf
  <1>4. [stack[n][l] EXCEPT !.spinning = yes].ch = stack[n][l].ch
    BY <1>3 DEF Entry
  <1>5. DOMAIN s = DOMAIN stack[n] /\ \A k \in DOMAIN stack[n] : s[k].ch = stack[n][k].ch
    BY <1>3, <1>4
  <1> HIDE DEF s
  <1>6. stack'[n] = s /\ \A i \in Nodes \ {n} : stack'[i] = stack[i]
    BY <1>1, <1>2
  <1> QED
    BY <1>5, <1>6 DEF Reading

\* ... and while what it spins reads another socket ...
LEMMA PushReads ==
    ASSUME DataType, NEW n \in Nodes, NEW new \in Channels,
           stack' = [stack EXCEPT ![n] = Append(@, [ch |-> new, spinning |-> FALSE])]
    PROVE  /\ Reading(n, new)'
           /\ \A m \in Nodes, ch \in Channels : Reading(m, ch) => Reading(m, ch)'
  <1> DEFINE e == [ch |-> new, spinning |-> FALSE]
             s == Append(stack[n], e)
  <1>1. stack \in [Nodes -> Seq(Entry)] /\ e.ch = new
    BY DEF DataType
  <1>2. stack' = [stack EXCEPT ![n] = s]
    OBVIOUS
  <1> HIDE DEF e
  <1>3. /\ \A k \in DOMAIN stack[n] : k \in DOMAIN s /\ s[k] = stack[n][k]
        /\ Len(stack[n]) + 1 \in DOMAIN s /\ s[Len(stack[n]) + 1] = e
    BY <1>1
  <1> HIDE DEF s
  <1>4. stack'[n] = s /\ \A m \in Nodes \ {n} : stack'[m] = stack[m]
    BY <1>1, <1>2
  <1>5. Reading(n, new)'
    BY <1>1, <1>3, <1>4 DEF Reading
  <1>6. ASSUME NEW m \in Nodes, NEW ch \in Channels, Reading(m, ch)
        PROVE  Reading(m, ch)'
    BY <1>3, <1>4, <1>6 DEF Reading
  <1> QED
    BY <1>5, <1>6

\* ... until it returns itself.
LEMMA PopReads ==
    ASSUME DataType, NEW n \in Nodes, stack[n] # <<>>, Pop(n),
           NEW m \in Nodes, NEW ch \in Channels, Reading(m, ch), m # n \/ ch # Top(n).ch
    PROVE  Reading(m, ch)'
  <1> DEFINE s == SubSeq(stack[n], 1, Len(stack[n]) - 1)
  <1>1. stack \in [Nodes -> Seq(Entry)]
    BY DEF DataType
  <1>2. stack' = [stack EXCEPT ![n] = s]
    BY DEF Pop, Front
  <1>3. stack[n] \in Seq(Entry) /\ Len(stack[n]) \in Nat /\ Len(stack[n]) > 0
    BY <1>1
  <1>4. \A k \in DOMAIN stack[n] : k # Len(stack[n]) => k \in DOMAIN s /\ s[k] = stack[n][k]
    BY <1>3
  <1> HIDE DEF s
  <1>5. stack'[n] = s /\ \A i \in Nodes \ {n} : stack'[i] = stack[i]
    BY <1>1, <1>2
  <1>6. Top(n) = stack[n][Len(stack[n])]
    BY TopOf
  <1> QED
    BY <1>4, <1>5, <1>6 DEF Reading

LEMMA ServerReturns ==
    ASSUME TransportInv, [Next]_vars, NEW c \in Conns, AtServer(c), ~AtServer(c)'
    PROVE  Return("server") /\ Top("server").ch = FromClient(c)
  <1> USE DEF TransportInv
  <1>0. /\ "server" \in Nodes /\ FromClient(c) \in Channels
        /\ Reading("server", FromClient(c)) /\ ~Reading("server", FromClient(c))'
    BY FromClientForms DEF Nodes, AtServer
  <1>1. ASSUME NEW n \in Nodes, Dispatch(n) \/ CloseBox(n)
        PROVE  FALSE
    <2>1. stack[n] # <<>>
      BY <1>1 DEF Dispatch, CloseBox, Handling
    <2>2. PICK yes \in BOOLEAN : Spin(n, yes)
      <3>1. \A call : (call \in Spinning) \in BOOLEAN
        OBVIOUS
      <3> QED
        BY <1>1, <3>1 DEF Dispatch, CloseBox
    <2> QED
      BY <1>0, <2>1, <2>2, SpinReads
  <1>2. ASSUME NEW p \in Peers, ProtocolError(p)
        PROVE  FALSE
    <2>1. p # "server" /\ p \in Nodes
      BY PeersAssumption DEF Nodes
    <2>2. stack[p] # <<>> /\ Pop(p)
      BY <1>2 DEF ProtocolError, Handling
    <2> QED
      BY <1>0, <2>1, <2>2, PopReads
  <1>3. ASSUME NEW n \in Nodes, Return(n)
        PROVE  n = "server" /\ Top(n).ch = FromClient(c)
    <2>1. stack[n] # <<>> /\ Pop(n)
      BY <1>3 DEF Return, Handling
    <2> QED
      BY <1>0, <2>1, PopReads
  <1>4. ASSUME NEW ch \in Channels, ReadyRead(ch)
        PROVE  FALSE
    <2>1. PICK n \in Nodes : n = Node(ch)
      BY <1>4, ReadyReadDoes
    <2>2. stack' = [stack EXCEPT ![n] = Append(@, [ch |-> ch, spinning |-> FALSE])]
      BY <1>4, <2>1, ReadyReadDoes
    <2> QED
      BY <1>0, <2>2, PushReads
  <1>5. stack' # stack
    BY <1>0 DEF Reading
  <1>6. \/ \E n \in Nodes : Dispatch(n) \/ Return(n) \/ CloseBox(n)
        \/ \E p \in Peers : ProtocolError(p)
        \/ \E ch \in Channels : ReadyRead(ch)
    BY <1>5 DEF Next, vars, Handle, Connect, DisconnectServer, PeerCall, ServerCall, Write,
                Accept, Break, ClientDisconnected, Hang
  <1> QED
    BY <1>1, <1>2, <1>3, <1>4, <1>6

\* Only who reads a socket changes the buffer of its client.
LEMMA ServerBuffers ==
    ASSUME TransportInv, [Next]_vars, NEW c \in Conns, c \in clients, c \in clients',
           ~AtServer(c)'
    PROVE  buffer'[c] = buffer[c]
  <1> USE DEF TransportInv
  <1>0. c \in DOMAIN buffer /\ c \notin Peers
    BY FromClientForms DEF TypeOK
  <1>1. ASSUME NEW n \in Nodes, Dispatch(n)
        PROVE  buffer'[c] = buffer[c]
    <2>1. PICK ch \in Channels : ch = Top(n).ch /\ Reading(n, ch)
      BY <1>1, DispatchDoes
    <2>2. PICK length : Took(Key(ch), length)
      BY <1>1, <2>1, DispatchDoes
    <2>3. CASE Key(ch) # c
      BY <1>0, <2>2, <2>3 DEF Took
    <2>4. CASE Key(ch) = c
      <3>1. ch = FromClient(c)
        BY <2>4, FromClientForms
      <3>2. n = "server"
        BY <2>1, <3>1, FromClientForms DEF StackInv
      <3>3. AtServer(c)
        BY <2>1, <3>1, <3>2 DEF AtServer
      <3>4. Return("server") /\ Top("server").ch = FromClient(c)
        BY <3>3, ServerReturns
      <3> QED
        BY <3>4 DEF Return
    <2> QED
      BY <2>3, <2>4
  <1>2. ASSUME NEW p \in Peers, ProtocolError(p)
        PROVE  buffer'[c] = buffer[c]
    <2>1. PICK length : Took(p, length)
      BY <1>2, ProtocolErrorDoes
    <2> QED
      BY <1>0, <2>1 DEF Took
  <1>3. ASSUME NEW ch \in Channels, ReadyRead(ch)
        PROVE  buffer'[c] = buffer[c]
    <2>1. CASE Key(ch) # c
      BY <1>0, <1>3, <2>1, ReadyReadDoes
    <2>2. CASE Key(ch) = c
      <3>1. ch = FromClient(c) /\ Node(ch) = "server" /\ "server" \in Nodes
        BY <2>2, FromClientForms DEF Nodes
      <3>2. stack' = [stack EXCEPT !["server"] = Append(@, [ch |-> ch, spinning |-> FALSE])]
        BY <1>3, <3>1, ReadyReadDoes
      <3>3. Reading("server", ch)'
        BY <3>1, <3>2, PushReads
      <3> QED
        BY <3>1, <3>3 DEF AtServer
    <2> QED
      BY <2>1, <2>2
  <1>4. ASSUME NEW d \in Conns, Accept(d) \/ ClientDisconnected(d)
        PROVE  buffer'[c] = buffer[c]
    <2>1. d # c
      BY <1>4 DEF Accept, ClientDisconnected
    <2> QED
      BY <1>0, <1>4, <2>1 DEF Accept, ClientDisconnected, Without
  <1>5. \/ \E n \in Nodes : Dispatch(n)
        \/ \E q \in Peers : ProtocolError(q)
        \/ \E ch \in Channels : ReadyRead(ch)
        \/ \E d \in Conns : Accept(d) \/ ClientDisconnected(d)
        \/ UNCHANGED buffer
    BY DEF Next, vars, Handle, Connect, DisconnectServer, PeerCall, Write,
           Break, ServerCall, Return, Hang, CloseBox
  <1> QED
    BY <1>1, <1>2, <1>3, <1>4, <1>5

\* A client that is accepted has an empty buffer.
LEMMA AcceptsEmpty ==
    ASSUME TransportInv, [Next]_vars, NEW c \in Conns, c \notin clients, c \in clients'
    PROVE  buffer'[c] = <<>>
  <1>1. \E d \in Conns : Accept(d) \/ ClientDisconnected(d)
    <2>1. clients' # clients
      OBVIOUS
    <2>2. \A n \in Nodes : Dispatch(n) => clients' = clients
      BY DispatchDoes DEF TransportInv
    <2>3. \A p \in Peers : ProtocolError(p) => clients' = clients
      BY ProtocolErrorDoes DEF TransportInv
    <2>4. \A ch \in Channels : ReadyRead(ch) => clients' = clients
      BY ReadyReadDoes DEF TransportInv
    <2>5. \/ \E n \in Nodes : Dispatch(n)
          \/ \E p \in Peers : ProtocolError(p)
          \/ \E ch \in Channels : ReadyRead(ch)
          \/ \E d \in Conns : Accept(d) \/ ClientDisconnected(d)
          \/ UNCHANGED clients
      BY DEF Next, vars, serverVars, Handle, Connect, DisconnectServer, PeerCall, Write,
             Break, ServerCall, Return, Hang, CloseBox
    <2> QED
      BY <2>1, <2>2, <2>3, <2>4, <2>5
  <1>2. PICK d \in Conns : Accept(d) \/ ClientDisconnected(d)
    BY <1>1
  <1>3. Accept(d)
    BY <1>2 DEF ClientDisconnected
  <1>4. d = c
    BY <1>3 DEF Accept
  <1> QED
    BY <1>3, <1>4 DEF Accept

LEMMA ServerRestStep ==
    ASSUME TransportInv, ServerRest, [Next]_vars
    PROVE  ServerRest'
  <1> SUFFICES ASSUME NEW c \in clients', ~AtServer(c)'
               PROVE  NoneLeft(c)'
    BY DEF ServerRest
  <1>1. c \in Conns
    BY TransportStep DEF TransportInv, TypeOK, Used
  <1>2. CASE c \notin clients
    <2>1. buffer'[c] = <<>>
      BY <1>1, <1>2, AcceptsEmpty
    <2> QED
      BY <2>1 DEF NoneLeft
  <1>3. CASE c \in clients
    <2>1. buffer'[c] = buffer[c] /\ buffer[c] \in Seq(Known)
      BY <1>1, <1>3, ServerBuffers DEF TransportInv, DataType
    <2>2. NoneLeft(c)
      <3>1. CASE ~AtServer(c)
        BY <1>3, <3>1 DEF ServerRest
      <3>2. CASE AtServer(c)
        <4>1. Return("server") /\ Top("server").ch = FromClient(c)
          BY <1>1, <3>2, ServerReturns
        <4>2. MayReturn(FromClient(c)) /\ c \in DOMAIN buffer
          BY <1>3, <4>1 DEF Return, TransportInv, TypeOK
        <4> QED
          BY <1>1, <4>2, FromClientForms, ReturnTakesAll DEF NoneLeft
      <3> QED
        BY <3>1, <3>2
    <2>3. \A b \in Known : IsLast(b)' <=> IsLast(b)
      BY SentStep, KnownGrows DEF TransportInv
    <2>4. \A i \in 1 .. Len(buffer[c]) : buffer[c][i] \in Known /\ ~IsLast(buffer[c][i])
      BY <2>1, <2>2, ElementOfSeq DEF NoneLeft
    <2>5. \A b \in Known : ~IsLast(b) => b.at # HeaderLen + Size[sent'[b.ch][b.call]]
      BY <2>3 DEF IsLast
    <2> QED
      BY <2>1, <2>4, <2>5 DEF NoneLeft, IsLast
  <1> QED
    BY <1>2, <1>3

\* What has been read is dispatched: when all bytes of a channel have been read
\* and its socket is not being read, no call on it is left behind.
NothingLeftBehind ==
    \A ch \in FreshChannels : wire[ch] = <<>> /\ ~Reading(Node(ch), ch) => Pending(ch) = <<>>

LEMMA NothingLeft == TransportInv /\ ServerRest => NothingLeftBehind
  <1> SUFFICES ASSUME TransportInv, ServerRest, NEW ch \in FreshChannels,
                      wire[ch] = <<>>, ~Reading(Node(ch), ch)
               PROVE  Pending(ch) = <<>>
    BY DEF NothingLeftBehind
  <1> USE DEF TransportInv
  <1>1. ch \in Channels
    BY DEF FreshChannels
  <1>2. Bytes(ch) = BufferOf(ch)
    <2>1. BufferOf(ch) \in Seq(ByteSet) /\ Bytes(ch) = BufferOf(ch) \o <<>>
      BY <1>1, BytesType
    <2> QED
      BY <2>1
  <1>3. CASE Settled(ch)
    BY <1>3, SettledNow DEF AtRest
  <1>4. CASE ch[1] # "server" /\ ~Settled(ch)
    <2>1. PICK p \in Peers : p = ch[2][1] /\ ch = FirstIn(p) /\ ch[2] = First(p) /\ ~Later(p)
      BY <1>4, FreshForms DEF Settled
    <2>2. First(p) \in Conns /\ Key(ch) = p /\ Node(ch) = p /\ p \in Nodes /\ p \in DOMAIN buffer
      BY <1>1, <2>1, ChannelForms, FirstForms DEF Nodes, TypeOK
    <2>3. stack[p] = <<>>
      <3> SUFFICES ASSUME stack[p] # <<>> PROVE FALSE
        OBVIOUS
      <3>1. PICK top \in Channels : Reading(p, top)
        BY <2>2, TopOf
      <3>2. Node(top) = p /\ top[2] \in Used
        BY <2>2, <3>1 DEF StackInv
      <3>3. Key(top) = p /\ top[2][1] = p
        BY <3>2, ChannelForms, PeersAssumption
      <3>4. top[2][2] = 1
        BY <2>1, <3>2, <3>3 DEF Later
      <3>5. top = ch
        BY <2>1, <3>3, <3>4, PeerChannel
      <3> QED
        BY <2>2, <3>1, <3>5
    <2>4. NoneWhole(p) /\ BufferOf(ch) = buffer[p]
      BY <2>2, <2>3 DEF RestInv, BufferOf
    <2> QED
      BY <1>2, <2>1, <2>4, NothingWhole DEF NoneWhole
  <1>5. CASE ch[1] = "server"
    <2>1. PICK c \in Conns : ch = FromClient(c)
      BY <1>1, <1>5, ChannelForms DEF FromClient
    <2>2. Key(ch) = c /\ Node(ch) = "server" /\ c \notin Peers
      BY <2>1, FromClientForms
    <2>3. CASE c \in clients
      <3>1. NoneLeft(c)
        BY <2>1, <2>2, <2>3 DEF ServerRest, AtServer
      <3>2. BufferOf(ch) = buffer[c]
        BY <2>2, <2>3 DEF BufferOf, TypeOK
      <3> QED
        BY <1>2, <3>1, <3>2, NothingWhole DEF NoneLeft
    <2>4. CASE c \notin clients
      <3>1. BufferOf(ch) = <<>>
        BY <2>2, <2>4 DEF BufferOf, TypeOK
      <3> QED
        BY <1>2, <3>1, NothingWhole
    <2> QED
      BY <2>3, <2>4
  <1> QED
    BY <1>3, <1>4, <1>5

LEMMA ServerRestInit == Init => ServerRest
  BY DEF Init, ServerRest

\* A call gets there when all of it has come in, even if nothing follows it:
\* handlers return, at the server or at a peer, only when the buffer holds no
\* whole call, whatever the event loops within them have read, dispatched or
\* lost meanwhile (clientData, serverData, canDeserialize).
THEOREM NoCallLeftBehind == Spec => []NothingLeftBehind
  <1>1. TransportInv /\ ServerRest /\ [Next]_vars => TransportInv' /\ ServerRest'
    BY TransportStep, ServerRestStep
  <1> QED
    BY TransportInit, ServerRestInit, <1>1, NothingLeft, PTL DEF Spec

=============================================================================
