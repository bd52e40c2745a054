------------------------------ MODULE RPCLink ------------------------------
(***************************************************************************)
(* The Qxt RPC transport between HawkGUI's RPCServer and the uwrapc peers. *)
(*                                                                         *)
(* A connection is one TCP socket accepted by the server.  Peer r opens    *)
(* its first connection <<r, 1>> when it starts and one more each time it  *)
(* recovers from a lost link, so a connection id is never used twice (the  *)
(* server uses the address of a QTcpSocket it never deletes).  Calls in    *)
(* one direction are delivered in order while the link is up; when it goes *)
(* down, some suffix of what was under way is lost.                        *)
(***************************************************************************)
EXTENDS Integers, Sequences

CONSTANTS
    Runs,       \* remote uwrapc processes that HawkGUI may launch
    MaxConns    \* bound on the connections one peer opens

ASSUME MaxConnsAssumption == MaxConns \in Nat \ {0}

Conns == Runs \X (1 .. MaxConns)

\* Calls made by a peer (signals attached to the RPC service).
ServerMsgs == {"key", "started", "log", "message", "stopped"}

\* Calls made by the server.
PeerMsgs == {"options", "start", "stop", "quit"}

VARIABLES
    link,       \* state of each connection
    toServer,   \* calls under way from the peer to the server
    toPeer      \* calls under way from the server to the peer

linkVars == <<link, toServer, toPeer>>

LinkTypeOK ==
    /\ link \in [Conns -> {"unused", "up", "broken", "closed"}]
    /\ toServer \in [Conns -> Seq(ServerMsgs)]
    /\ toPeer \in [Conns -> Seq(PeerMsgs)]

LinkInit ==
    /\ link = [c \in Conns |-> "unused"]
    /\ toServer = [c \in Conns |-> <<>>]
    /\ toPeer = [c \in Conns |-> <<>>]

\* The first n calls of q: what still arrives when the link goes down.
Prefix(q, n) == SubSeq(q, 1, n)

\* A write to a socket whose link is down is lost.
ToServer(c, msgs) ==
    toServer' = IF link[c] = "up"
                THEN [toServer EXCEPT ![c] = @ \o msgs]
                ELSE toServer

\* The peer process ends: the kernel closes its socket, calls that were not
\* written yet are lost and nobody reads the others' direction any more.
Close(c) ==
    \E n \in 0 .. Len(toServer[c]) :
        /\ link' = [link EXCEPT ![c] = IF @ = "up" THEN "closed" ELSE @]
        /\ toServer' = [toServer EXCEPT ![c] = Prefix(@, n)]
        /\ toPeer' = [toPeer EXCEPT ![c] = <<>>]

\* The network fails: each side finds out on its own, later or never.
Break(c) ==
    /\ link[c] = "up"
    /\ \E n \in 0 .. Len(toServer[c]), m \in 0 .. Len(toPeer[c]) :
           /\ toServer' = [toServer EXCEPT ![c] = Prefix(@, n)]
           /\ toPeer' = [toPeer EXCEPT ![c] = Prefix(@, m)]
    /\ link' = [link EXCEPT ![c] = "broken"]
=============================================================================
