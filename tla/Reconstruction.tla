--------------------------- MODULE Reconstruction ---------------------------
(***************************************************************************)
(* The reconstruction of one uwrapc: uwrapc_start, init_reconstruction,    *)
(* complete_reconstruction (the "legacy" loop, one iteration at a time),   *)
(* complete_reconstruction_clean (the loop on libspimage's phaser, several *)
(* iterations at a time) and what output_to_log feeds back into them.      *)
(*                                                                         *)
(* RPCPeer::stopReconstruction runs in another thread of the program: it   *)
(* lowers max_iterations to 1 behind the back of the loop.  Images are     *)
(* left out; a file is known by the iteration in its name.                 *)
(***************************************************************************)
EXTENDS Integers, Sequences, Functions

CONSTANTS
    Configs,        \* option files the program may be started with
    MaxRuns,        \* runs of an automatic reconstruction (1000)
    RunAvgLen,      \* RUN_AVG_LEN (500)
    StopThreshold,  \* stop_threshold (10)
    Errors, Sizes,  \* values of Ereal and of SupSize
    LowError,       \* the 0.2 of the automatic mode
    MaxCur          \* bound on the iterations of a run nobody stops

ASSUME ReconstructionAssumption ==
    /\ MaxRuns \in Nat \ {0} /\ RunAvgLen \in Nat \ {0}
    /\ StopThreshold \in Nat /\ MaxCur \in Nat
    /\ Errors \subseteq Nat /\ Sizes \subseteq Nat \ {0} /\ LowError \in Nat

CleanAlgorithms == {"HIO", "RAAR", "DIFF_MAP"}
CleanUpdates == {"fixed", "static", "decreasing_area", "template_area"}

\* The options that steer the loops.
Options == [
    algorithm : CleanAlgorithms \cup {"HPR"},
    update : CleanUpdates \cup {"constant_area", "real_error_capped"},
    errorCap : Nat,         \* real_error_threshold
    averaging : Nat,        \* support_image_averaging
    automatic : BOOLEAN,
    iterations : Nat \ {0},
    outputPeriod : Nat \ {0},
    logPeriod : Nat \ {0},
    maxIterations : Nat,    \* 0 for no limit
    tolerance : Nat]        \* real_error_tolerance

ASSUME ConfigsAssumption == Configs \subseteq Options

VARIABLES
    opts,       \* global_options
    stopped,    \* stopReconstruction has been called
    pc,         \* where the reconstruction is
    run,        \* index of the automatic run
    cur,        \* opts->cur_iteration, ph->iteration between two rounds
    finished,   \* opts->reconstruction_finished
    sumN,       \* real_space_sum_n
    realIn,     \* what real_in points to: an image or freed memory
    stalled,    \* complete_reconstruction's counter "stop"
    images,     \* names of the images written by this run
    flog,       \* this run has opened its log file
    logFile,    \* lines in the log file
    ring,       \* SupSize_list
    average,    \* SupSize_run_avg as a fraction
    growth,     \* sign of dSupSize
    ereal       \* log.Ereal

loopVars == <<cur, sumN, realIn, stalled, images>>
logVars == <<finished, flog, logFile, ring, average, growth, ereal>>
vars == <<opts, stopped, pc, run, loopVars, logVars>>

Ended == {"done", "failed", "exited", "crashed"}

TypeOK ==
    /\ opts \in Options /\ stopped \in BOOLEAN
    /\ pc \in Ended \cup {"start", "begin", "clean", "first", "head", "update",
                          "output", "iterate", "end"}
    /\ run \in 0 .. MaxRuns /\ cur \in Nat /\ finished \in BOOLEAN
    /\ sumN \in Nat /\ realIn \in {"image", "freed"} /\ stalled \in Nat
    /\ images \in Seq(Nat)
    /\ flog \in BOOLEAN /\ logFile \in Seq([step : Nat, size : Sizes])
    /\ ring \in [0 .. RunAvgLen - 1 -> Sizes \cup {0}]
    /\ average \in [sum : Nat, n : Nat \ {0}]
    /\ growth \in {-1, 0, 1} /\ ereal \in Nat

Init ==
    /\ opts \in Configs /\ stopped = FALSE /\ pc = "start" /\ run = 0
    /\ cur = 0 /\ finished = FALSE /\ sumN = 0 /\ realIn = "image" /\ stalled = 0
    /\ images = <<>> /\ flog = FALSE /\ logFile = <<>>
    /\ ring = [i \in 0 .. RunAvgLen - 1 |-> 0] /\ average = [sum |-> 0, n |-> 1]
    /\ growth = -1 /\ ereal = 1

\* RPCPeer::stopReconstruction, from the main thread of the program.
Stop ==
    /\ ~stopped /\ pc \notin Ended
    /\ stopped' = TRUE
    /\ opts' = [opts EXCEPT !.maxIterations = 1]
    /\ UNCHANGED <<pc, run, loopVars, logVars>>

MinOf(a, b) == IF a < b THEN a ELSE b
MaxOf(a, b) == IF a > b THEN a ELSE b
Sign(i) == IF i > 0 THEN 1 ELSE IF i < 0 THEN -1 ELSE 0

----------------------------------------------------------------------------
(* The log.                                                                *)

\* Mutant: the ring does not wrap.
StuckSlot(n) == MinOf(n, RunAvgLen - 1)

Slot(n) == n % RunAvgLen

Mean(list, n) == [sum |-> SumFunctionOnSet(list, 0 .. n - 1), n |-> MaxOf(n, 1)]

\* The first line of a run opens the file again and so truncates it.
\* The line goes to its place in the ring, but the average is taken over as
\* many places as lines were written BEFORE this one.
OutputToLog(step) ==
    \E e \in Errors, s \in Sizes :
        LET n == step \div opts.logPeriod
        IN  /\ flog' = TRUE
            /\ logFile' = Append(IF flog THEN logFile ELSE <<>>, [step |-> step, size |-> s])
            /\ ring' = [ring EXCEPT ![Slot(n)] = s]
            /\ average' = Mean(ring', MinOf(n, RunAvgLen))
            /\ growth' = Sign(average'.sum * average.n - average.sum * average'.n)
            /\ ereal' = e
            /\ finished' = (finished \/ e < opts.tolerance)

InitLog ==
    /\ flog' = FALSE
    /\ ring' = [i \in 0 .. RunAvgLen - 1 |-> 0]
    /\ average' = [sum |-> 0, n |-> 1]
    /\ growth' = -1
    /\ ereal' = 1
    /\ UNCHANGED logFile

\* Mutant: the automatic mode goes back to HIO.
FickleAlgorithm ==
    IF opts.automatic THEN IF growth > 0 THEN "RAAR" ELSE "HIO" ELSE opts.algorithm

\* get_algorithm: the automatic mode switches to RAAR, and never back.
GetAlgorithm == IF opts.automatic /\ growth > 0 THEN "RAAR" ELSE opts.algorithm

----------------------------------------------------------------------------
(* Starting a run.                                                         *)

\* uwrapc_start: there may be nothing to reconstruct.
UwrapcStart ==
    /\ pc = "start"
    /\ pc' \in {"begin", "failed"}
    /\ UNCHANGED <<opts, stopped, run, loopVars, logVars>>

\* complete_reconstruction up to its choice of a loop.  It asks for the
\* algorithm before it initialises its log, so an automatic reconstruction
\* may find RAAR there.
Begin ==
    /\ pc = "begin"
    /\ \E alg \in {opts.algorithm} \cup IF opts.automatic THEN {"RAAR"} ELSE {} :
           IF /\ alg \in CleanAlgorithms
              /\ opts.update \in CleanUpdates
              /\ opts.averaging = 1
           THEN /\ pc' = "clean"
                /\ opts' = [opts EXCEPT !.algorithm = alg]
                /\ UNCHANGED finished
           ELSE /\ pc' = "first"
                /\ opts' = [opts EXCEPT !.algorithm = IF opts.automatic THEN "HIO" ELSE alg]
                /\ finished' = FALSE
    /\ InitLog
    /\ cur' = 0 /\ sumN' = 0 /\ realIn' = "image" /\ stalled' = 0 /\ images' = <<>>
    /\ UNCHANGED <<stopped, run>>

\* Mutant: one run too many.
ExtraNextRun ==
    /\ run' = run + 1
    /\ pc' = IF opts.automatic /\ run' <= MaxRuns THEN "begin" ELSE "done"

\* init_reconstruction's loop over the runs of the automatic mode.
NextRun ==
    /\ run' = run + 1
    /\ pc' = IF opts.automatic /\ run' < MaxRuns THEN "begin" ELSE "done"

\* Mutant: the limit has to be met exactly.
ExactLimited == opts.maxIterations # 0 /\ cur = opts.maxIterations

Limited == opts.maxIterations # 0 /\ cur >= opts.maxIterations

----------------------------------------------------------------------------
(* complete_reconstruction_clean.                                          *)

\* Mutant: the iterations already done of the period are not taken off.
FullPeriod(period) == period

ToNext(period) == period - (cur % period)

\* Mutant: the later of the two.
LongestRound(m, n) == MaxOf(m, n)

ShortestRound(m, n) == MinOf(m, n)

\* One round: as many iterations as are left until the next log line or the
\* next image, whichever comes first, and then what is due.
CleanRound ==
    /\ pc = "clean" /\ ~Limited /\ cur < MaxCur
    /\ LET toOutput == ToNext(opts.outputPeriod)
           toLog == ToNext(opts.logPeriod)
           toIterate == ShortestRound(toOutput, toLog)
       IN  /\ cur' = cur + toIterate
           /\ IF toIterate = toLog THEN OutputToLog(cur') ELSE UNCHANGED logVars
           /\ images' = IF toIterate = toOutput THEN Append(images, cur' - 1) ELSE images
    /\ UNCHANGED <<opts, stopped, pc, run, sumN, realIn, stalled>>

CleanEnd ==
    /\ pc = "clean" /\ Limited
    /\ NextRun
    /\ UNCHANGED <<opts, stopped, loopVars, logVars>>

----------------------------------------------------------------------------
(* complete_reconstruction.                                                *)

\* Mutant: at the first iteration of a period.
FirstOf(period) == cur % period = 0

\* The current iteration is the last one of a period.
LastOf(period) == cur % period = period - 1

\* basic_*_iteration at cur_iteration.
Iterate ==
    /\ opts' = [opts EXCEPT !.algorithm = GetAlgorithm]
    /\ IF LastOf(opts.logPeriod)
       THEN OutputToLog(cur)
       ELSE UNCHANGED logVars

\* The iteration in front of the loop.
FirstIteration ==
    /\ pc = "first"
    /\ Iterate
    /\ pc' = "head"
    /\ UNCHANGED <<stopped, run, loopVars>>

\* Mutant: only the limit ends the loop.
DeafLoopOver == Limited

LoopOver == finished \/ Limited

\* Head of the loop; the last images before an update of the support are
\* summed up.
Accumulate ==
    /\ pc = "head" /\ ~LoopOver /\ cur < MaxCur
    /\ sumN' = IF opts.iterations - (cur % opts.iterations) <= opts.averaging
               THEN sumN + 1 ELSE sumN
    /\ pc' = IF LastOf(opts.iterations) THEN "update" ELSE "output"
    /\ UNCHANGED <<opts, stopped, run, cur, realIn, stalled, images, logVars>>

LoopExit ==
    /\ pc = "head" /\ LoopOver
    /\ pc' = "end"
    /\ UNCHANGED <<opts, stopped, run, loopVars, logVars>>

\* real_in is freed and not set again.  REAL_ERROR_CAPPED exits the program
\* when the error is too large; the automatic mode breaks out of the loop
\* when RAAR has had a low error often enough.
UpdateSupport ==
    /\ pc = "update"
    /\ realIn' = "freed"
    /\ IF opts.update = "real_error_capped" /\ ereal >= opts.errorCap
       THEN pc' = "exited" /\ UNCHANGED <<sumN, stalled>>
       ELSE /\ sumN' = 0
            /\ stalled' = IF opts.automatic /\ opts.algorithm = "RAAR" /\ ereal < LowError
                          THEN stalled + 1 ELSE stalled
            /\ pc' = IF stalled' > StopThreshold THEN "end" ELSE "output"
    /\ UNCHANGED <<opts, stopped, run, cur, images, logVars>>

WriteImages ==
    /\ pc = "output"
    /\ images' = IF LastOf(opts.outputPeriod)
                 THEN Append(images, cur) ELSE images
    /\ pc' = "iterate"
    /\ UNCHANGED <<opts, stopped, run, cur, sumN, realIn, stalled, logVars>>

\* real_in is freed and replaced by the image just made.
IterateInLoop ==
    /\ pc = "iterate"
    /\ Iterate
    /\ realIn' = "image"
    /\ cur' = cur + 1
    /\ pc' = "head"
    /\ UNCHANGED <<stopped, run, sumN, stalled, images>>

\* The final images are written and everything is freed.
LegacyEnd ==
    /\ pc = "end"
    /\ NextRun
    /\ UNCHANGED <<opts, stopped, loopVars, logVars>>

\* real_in is freed a second time: undefined, the C library may abort.
DoubleFree ==
    /\ pc \in {"iterate", "end"} /\ realIn = "freed"
    /\ pc' = "crashed"
    /\ UNCHANGED <<opts, stopped, run, loopVars, logVars>>

----------------------------------------------------------------------------
Step ==
    \/ UwrapcStart \/ Begin
    \/ CleanRound \/ CleanEnd
    \/ FirstIteration \/ Accumulate \/ LoopExit \/ UpdateSupport \/ WriteImages
    \/ IterateInLoop \/ LegacyEnd \/ DoubleFree

Next == Step \/ Stop

Spec == Init /\ [][Next]_vars

\* The worker thread keeps running; nothing obliges anybody to stop it.
FairSpec == Spec /\ WF_vars(Step)

----------------------------------------------------------------------------
(* Properties.                                                             *)

InClean == pc = "clean"
InLegacy == pc \in {"head", "update", "output", "iterate", "end"}
Steps == [i \in 1 .. Len(logFile) |-> logFile[i].step]

\* However the two periods interleave, no image is skipped, written twice or
\* misnamed: after n periods there are n images, each named for the last
\* iteration of its period.
ImagesOnTime ==
    LET due == (IF pc = "iterate" THEN cur + 1 ELSE cur) \div opts.outputPeriod
    IN  InClean \/ InLegacy =>
            images = [i \in 1 .. due |-> i * opts.outputPeriod - 1]

\* So for the lines of the log.  The clean loop numbers a line with the
\* iterations done, the legacy loop with the current one, and a log period
\* of 1 makes the legacy loop log its first step twice.
LogOnTime ==
    LET due == cur \div opts.logPeriod
    IN  /\ InClean /\ due > 0 => Steps = [i \in 1 .. due |-> i * opts.logPeriod]
        /\ InLegacy /\ due > 0 =>
               Steps = (IF opts.logPeriod = 1 THEN <<0>> ELSE <<>>)
                       \o [i \in 1 .. due |-> i * opts.logPeriod - 1]

\* Both, whichever of the two is due first.
OutputOnTime == ImagesOnTime /\ LogOnTime

\* A limit that nobody changed is overrun by less than one round of the clean
\* loop and not at all by the legacy loop.
BoundedOverrun ==
    opts.maxIterations # 0 /\ ~stopped =>
        /\ InLegacy => cur <= opts.maxIterations
        /\ InClean => cur < opts.maxIterations
                            + MinOf(opts.outputPeriod, opts.logPeriod)

\* The support is updated from as many images as the options ask for, or
\* as the period has.
AverageWindow ==
    pc = "update" => sumN = MinOf(opts.averaging, opts.iterations)

\* Once the ring is full the running average is the mean of the last
\* RunAvgLen lines, in spite of the off-by-one of the count.
RunningAverageExact ==
    LET n == Len(logFile)
    IN  flog /\ n > 0 /\ logFile[n].step \div opts.logPeriod >= RunAvgLen =>
            average = [sum |-> SumFunctionOnSet(
                                   [i \in 1 .. n |-> logFile[i].size],
                                   n - RunAvgLen + 1 .. n),
                       n |-> RunAvgLen]

\* In the automatic mode the legacy loop leaves HIO for RAAR because of the
\* off-by-one and not of the data: the first average is empty, the second
\* is not, so the support always seems to have grown at the second line.
SwitchIsBlind ==
    LET n == Len(logFile)
    IN  InLegacy /\ opts.automatic =>
            /\ ~flog \/ logFile[n].step < opts.logPeriod => opts.algorithm = "HIO"
            /\ flog /\ logFile[n].step \div opts.logPeriod = 1 => growth = 1
            /\ flog /\ logFile[n].step \div opts.logPeriod > 1 => opts.algorithm = "RAAR"

\* A stop ends the reconstruction, however many automatic runs are left.
StopEndsReconstruction == stopped ~> pc \in Ended

----------------------------------------------------------------------------
(* What the documentation of the options says.                             *)

\* real_error_tolerance: "If the real space error drops below this value the
\* reconstruction stops": at most the pass under way is completed.
StopsAtTolerance ==
    [][finished /\ run' = run /\ pc # "begin" => cur' = cur]_vars
=============================================================================
