----------------------------- MODULE CallQueue -----------------------------
(***************************************************************************)
(* What RPCServer and RPCPeer expect of the RPC transport: on each channel *)
(* (one direction of one connection) the calls arrive one by one, whole    *)
(* and in the order they were made, until the channel breaks; then a       *)
(* suffix of those under way is lost and no more are taken.                *)
(***************************************************************************)
EXTENDS Naturals, Sequences

CONSTANTS Channels, Calls

VARIABLES open, pending, delivered

queueVars == <<open, pending, delivered>>

QueueInit ==
    /\ open = [ch \in Channels |-> FALSE]
    /\ pending = [ch \in Channels |-> <<>>]
    /\ delivered = [ch \in Channels |-> <<>>]

Opens(ch) ==
    /\ open'[ch] /\ pending[ch] = <<>> /\ delivered[ch] = <<>>
    /\ pending'[ch] = <<>> /\ delivered'[ch] = <<>>

Takes(ch) ==
    /\ open[ch] /\ open'[ch]
    /\ \E call \in Calls : pending'[ch] = Append(pending[ch], call)
    /\ delivered'[ch] = delivered[ch]

Delivers(ch) ==
    /\ pending[ch] # <<>>
    /\ pending'[ch] = Tail(pending[ch])
    /\ delivered'[ch] = Append(delivered[ch], Head(pending[ch]))
    /\ open'[ch] = open[ch]

Breaks(ch) ==
    /\ ~open'[ch]
    /\ \E n \in 0 .. Len(pending[ch]) : pending'[ch] = SubSeq(pending[ch], 1, n)
    /\ delivered'[ch] = delivered[ch]

Rests(ch) ==
    /\ open'[ch] = open[ch] /\ pending'[ch] = pending[ch]
    /\ delivered'[ch] = delivered[ch]

\* A call may go to many clients at once, and both directions break together.
QueueNext ==
    \A ch \in Channels :
        Opens(ch) \/ Takes(ch) \/ Delivers(ch) \/ Breaks(ch) \/ Rests(ch)

QueueSpec == QueueInit /\ [][QueueNext]_queueVars
=============================================================================
