---------------------------- MODULE MCRemoteRun ----------------------------
(* Small instances of RemoteRun for TLC.                                   *)
EXTENDS RemoteRun, TLC

CONSTANTS r1, r2, k1, k2

OneRun == {r1}
TwoRuns == {r1, r2}
OneKey == {k1}
TwoKeys == {k1, k2}

Remote == {"remote"}
LocalAndRemote == {"local", "remote"}
NoFailure == {}
AnyFailure == {"options", "launch"}

\* The two runs play the same role, and so do the two keys.
Symmetry == Permutations(TwoRuns) \cup Permutations(TwoKeys)
=============================================================================
