---------------------------- MODULE MCDisplays -----------------------------
(* A small instance of Displays for TLC: two runs, of any kind, that work   *)
(* in one directory or two and whose sockets may get the same address.      *)
EXTENDS Displays

\* The viewers left to themselves; with fewer lines, taken elsewhere by each other
\* and by the user, and loading nothing automatically.
AllSettings ==
    {[lock |-> FALSE, autoUpdate |-> TRUE, user |-> FALSE, output |-> 3],
     [lock |-> TRUE, autoUpdate |-> TRUE, user |-> TRUE, output |-> 2],
     [lock |-> FALSE, autoUpdate |-> FALSE, user |-> FALSE, output |-> 2]}
=============================================================================
