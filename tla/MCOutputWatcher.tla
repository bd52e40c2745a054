-------------------------- MODULE MCOutputWatcher --------------------------
(* Small instances of OutputWatcher for TLC: the viewers are named after   *)
(* the category they start with.                                           *)
EXTENDS OutputWatcher

BothViews == {"real", "support"}

Elsewhere == {<<"real", 1>>, <<"support", 2>>}

Quiet == [views |-> BothViews, torn |-> FALSE, user |-> {}, lock |-> FALSE,
          every |-> FALSE, recent |-> FALSE, late |-> FALSE]
LockBrowse == [Quiet EXCEPT !.lock = TRUE]

\* Two viewers with and without Lock Browse and torn files, one the user takes
\* elsewhere, one of a run that writes every iteration, and a run that follows
\* another within the second, with and without torn files.
SafeSettings ==
    {Quiet, LockBrowse, [Quiet EXCEPT !.torn = TRUE],
     [Quiet EXCEPT !.views = {"support"}, !.user = Elsewhere],
     [Quiet EXCEPT !.views = {"real"}, !.every = TRUE, !.late = TRUE],
     [Quiet EXCEPT !.views = {}, !.recent = TRUE, !.late = TRUE],
     [Quiet EXCEPT !.views = {}, !.torn = TRUE, !.every = TRUE, !.recent = TRUE,
                   !.late = TRUE]}

LockedSettings == {LockBrowse}
=============================================================================
