-------------------------- MODULE MCReconstruction --------------------------
(* Small instances of Reconstruction for TLC.                              *)
EXTENDS Reconstruction

Base == [algorithm |-> "HIO", update |-> "decreasing_area", errorCap |-> 1,
         averaging |-> 1, automatic |-> FALSE, iterations |-> 2,
         outputPeriod |-> 2, logPeriod |-> 2, maxIterations |-> 0, tolerance |-> 0]

\* Options that lead to the libspimage loop, for every pair of periods.
CleanConfigs ==
    {[Base EXCEPT !.algorithm = a, !.outputPeriod = p, !.logPeriod = l,
                  !.maxIterations = m, !.automatic = auto] :
        a \in {"HIO", "RAAR"}, p \in 1 .. 4, l \in 1 .. 4, m \in {0, 1, 5, 7},
        auto \in BOOLEAN}

\* Options that lead to the other loop: an algorithm or a support update
\* libspimage does not have, or averaging.
LegacyConfigs ==
    {[Base EXCEPT !.algorithm = "HPR", !.outputPeriod = p, !.logPeriod = l,
                  !.maxIterations = m, !.tolerance = t] :
        p \in 1 .. 3, l \in 1 .. 3, m \in {0, 3, 5}, t \in {0, 1}}
    \cup {[Base EXCEPT !.averaging = a, !.iterations = it, !.automatic = auto,
                       !.logPeriod = l, !.update = u] :
            a \in 2 .. 3, it \in 2 .. 4, auto \in BOOLEAN, l \in 1 .. 2,
            u \in {"decreasing_area", "real_error_capped"}}
    \cup {[Base EXCEPT !.update = "constant_area", !.automatic = TRUE,
                       !.iterations = 1, !.logPeriod = l] : l \in 1 .. 2}

AllConfigs == CleanConfigs \cup LegacyConfigs

\* A tolerance above the lower of the two errors.
ToleranceConfigs == {[Base EXCEPT !.tolerance = 1]}

TwoErrors == 0 .. 1
TwoSizes == 1 .. 2
=============================================================================
