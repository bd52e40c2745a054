---------------------------- MODULE RunLifecycle ----------------------------
(***************************************************************************)
(* What HawkGUI promises of a remote run, whatever the network does: a run *)
(* is launched once, listed as running once and taken off the list once;   *)
(* its reconstruction is started at most once, never before the run is     *)
(* listed, and once over it is never started again.                        *)
(***************************************************************************)
CONSTANT Runs

VARIABLES
    stage,  \* where HawkGUI lists the run
    work    \* the reconstruction of its peer

lifecycleVars == <<stage, work>>

LifecycleTypeOK ==
    /\ stage \in [Runs -> {"idle", "starting", "running", "finished"}]
    /\ work \in [Runs -> {"none", "working", "done"}]

LifecycleInit ==
    /\ stage = [r \in Runs |-> "idle"]
    /\ work = [r \in Runs |-> "none"]

\* Run r moves on in f, and no other run does.
Moves(f, r, steps) ==
    /\ <<f[r], f'[r]>> \in steps
    /\ \A s \in Runs \ {r} : f'[s] = f[s]

ListingStep(r) ==
    /\ Moves(stage, r, {<<"idle", "starting">>, <<"starting", "running">>,
                        <<"running", "finished">>})
    /\ UNCHANGED work

WorkStep(r) ==
    /\ Moves(work, r, {<<"none", "working">>, <<"working", "done">>})
    /\ work[r] = "none" => stage[r] \in {"running", "finished"}
    /\ UNCHANGED stage

LifecycleNext == \E r \in Runs : ListingStep(r) \/ WorkStep(r)

LifecycleSpec == LifecycleInit /\ [][LifecycleNext]_lifecycleVars
=============================================================================
