----------------------- MODULE Reconstruction_proofs -----------------------
(***************************************************************************)
(* Proofs about the loops of uwrapc, for options of any value, any number  *)
(* of runs and iterations, and a stop at any time.                         *)
(***************************************************************************)
EXTENDS Reconstruction, SequenceTheorems, FiniteSetTheorems, WellFoundedInduction, TLAPS

----------------------------------------------------------------------------
(* Periods.                                                                *)

LEMMA DivMod ==
    ASSUME NEW c \in Nat, NEW p \in Nat \ {0}
    PROVE  /\ c \div p \in Nat /\ c % p \in 0 .. p - 1
           /\ c = (c \div p) * p + (c % p)
  OBVIOUS

LEMMA Larger ==
    ASSUME NEW p \in Nat \ {0}, NEW a \in Nat, NEW b \in Nat, a < b
    PROVE  a * p + p <= b * p
  <1>1. PICK d \in Nat : b = a + 1 + d
    <2>1. b - a - 1 \in Nat /\ b = a + 1 + (b - a - 1)
      OBVIOUS
    <2> QED
      BY <2>1
  <1>2. b * p = a * p + p + d * p
    BY <1>1
  <1>3. d * p \in Nat /\ a * p \in Nat
    OBVIOUS
  <1> QED
    BY <1>2, <1>3

\* The number of whole periods done and the place within the current one.
LEMMA Place ==
    ASSUME NEW p \in Nat \ {0}, NEW q \in Nat, NEW r \in 0 .. p - 1
    PROVE  (q * p + r) \div p = q /\ (q * p + r) % p = r
  <1> DEFINE c == q * p + r
             d == c \div p
  <1>1. c \in Nat
    OBVIOUS
  <1>2. d \in Nat /\ c % p \in 0 .. p - 1 /\ c = d * p + (c % p)
    BY <1>1, DivMod
  <1>3. /\ q < d => q * p + p <= d * p
        /\ d < q => d * p + p <= q * p
    BY <1>2, Larger
  <1>4. q * p \in Nat /\ d * p \in Nat /\ c = q * p + r
    BY <1>2
  <1> HIDE DEF c, d
  <1>5. d = q
    BY <1>2, <1>3, <1>4
  <1>6. c % p = r
    BY <1>2, <1>4, <1>5
  <1> QED
    BY <1>5, <1>6 DEF c, d

LEMMA PlaceOf ==
    ASSUME NEW p \in Nat \ {0}, NEW q \in Nat, NEW r \in 0 .. p - 1, NEW c, c = q * p + r
    PROVE  c \div p = q /\ c % p = r
  BY Place, Zenon

\* A step of n iterations within a period, or up to its end.
LEMMA Advance ==
    ASSUME NEW p \in Nat \ {0}, NEW c \in Nat, NEW n \in Nat \ {0},
           n <= p - (c % p)
    PROVE  /\ n = p - (c % p) =>
                  /\ (c + n) \div p = c \div p + 1 /\ (c + n) % p = 0
                  /\ c + n = (c \div p + 1) * p
           /\ n # p - (c % p) => (c + n) \div p = c \div p /\ (c + n) % p = (c % p) + n
  <1> DEFINE q == c \div p
             r == c % p
             d == c + n
  <1>1. q \in Nat /\ r \in 0 .. p - 1 /\ c = q * p + r
    BY DivMod
  <1>2. q * p \in Nat /\ (q + 1) * p = q * p + p /\ q + 1 \in Nat
    BY <1>1
  <1>3. d = c + n
    OBVIOUS
  <1> HIDE DEF q, r, d
  <1>4. ASSUME n = p - r
        PROVE  d \div p = q + 1 /\ d % p = 0 /\ d = (q + 1) * p
    <2> DEFINE k == q + 1
    <2>1. d = k * p /\ d = k * p + 0 /\ 0 \in 0 .. p - 1 /\ k \in Nat
      BY <1>1, <1>2, <1>3, <1>4
    <2> HIDE DEF k
    <2>2. d \div p = k /\ d % p = 0
      BY <2>1, PlaceOf
    <2> QED
      BY <2>1, <2>2 DEF k
  <1>5. ASSUME n # p - r
        PROVE  d \div p = q /\ d % p = r + n
    <2> DEFINE m == r + n
    <2>1. n < p - r
      BY <1>1, <1>5 DEF r
    <2>2. d = q * p + m /\ m \in 0 .. p - 1
      BY <1>1, <1>2, <1>3, <2>1
    <2> HIDE DEF m
    <2>3. d \div p = q /\ d % p = m
      BY <1>1, <2>2, PlaceOf
    <2> QED
      BY <2>3 DEF m
  <1> QED
    BY <1>4, <1>5 DEF q, r, d

LEMMA NextOne ==
    ASSUME NEW p \in Nat \ {0}, NEW c \in Nat, c % p = p - 1
    PROVE  (c + 1) \div p = c \div p + 1 /\ c + 1 = (c \div p + 1) * p
  <1>1. 1 \in Nat \ {0} /\ 1 <= p - (c % p) /\ 1 = p - (c % p)
    OBVIOUS
  <1> QED
    BY <1>1, Advance

\* The numbers of n images or lines, one for each period.
Grid(n, p, o) == [i \in 1 .. n |-> i * p - o]

LEMMA GridAppend ==
    ASSUME NEW n \in Nat, NEW p \in Nat \ {0}, NEW o \in {0, 1}, NEW s, s = Grid(n, p, o)
    PROVE  Append(s, (n + 1) * p - o) = Grid(n + 1, p, o)
  <1> DEFINE e == (n + 1) * p - o
  <1>1. s \in Seq(Int) /\ Len(s) = n /\ \A i \in 1 .. n : s[i] = i * p - o
    BY DEF Grid
  <1>2. e \in Int
    OBVIOUS
  <1> HIDE DEF e
  <1>3. /\ Append(s, e) \in Seq(Int) /\ Len(Append(s, e)) = n + 1
        /\ \A i \in 1 .. n : Append(s, e)[i] = i * p - o
        /\ Append(s, e)[n + 1] = e
    BY <1>1, <1>2, AppendProperties
  <1>4. Grid(n + 1, p, o) \in Seq(Int) /\ Len(Grid(n + 1, p, o)) = n + 1
    BY DEF Grid
  <1>5. \A i \in 1 .. n + 1 : Append(s, e)[i] = Grid(n + 1, p, o)[i]
    <2> SUFFICES ASSUME NEW i \in 1 .. n + 1
                 PROVE  Append(s, e)[i] = i * p - o
      BY DEF Grid
    <2>1. CASE i = n + 1
      BY <1>3, <2>1 DEF e
    <2>2. CASE i # n + 1
      <3>1. i \in 1 .. n
        BY <2>2
      <3> QED
        BY <1>3, <3>1
    <2> QED
      BY <2>1, <2>2
  <1>6. Append(s, e) = Grid(n + 1, p, o)
    BY <1>3, <1>4, <1>5, SeqEqual
  <1> QED
    BY <1>6 DEF e

LEMMA GridEmpty == ASSUME NEW p, NEW o PROVE <<>> = Grid(0, p, o)
  BY DEF Grid

----------------------------------------------------------------------------
(* Types, and the options that stay as they are.                           *)

Lines == Seq([step : Nat, size : Sizes])

LoopTypes ==
    /\ opts \in Options /\ stopped \in BOOLEAN
    /\ pc \in Ended \cup {"start", "begin", "clean", "first", "head", "update",
                          "output", "iterate", "end"}
    /\ cur \in Nat /\ sumN \in Nat /\ flog \in BOOLEAN /\ logFile \in Lines

\* What the loops read of the options keeps its value; the limit does until
\* the reconstruction is stopped.
SameOptions ==
    /\ opts'.outputPeriod = opts.outputPeriod /\ opts'.logPeriod = opts.logPeriod
    /\ opts'.iterations = opts.iterations /\ opts'.averaging = opts.averaging
    /\ opts'.automatic = opts.automatic
    /\ ~stopped' => ~stopped /\ opts'.maxIterations = opts.maxIterations

LEMMA OptionTypes ==
    ASSUME LoopTypes
    PROVE  /\ opts.outputPeriod \in Nat \ {0} /\ opts.logPeriod \in Nat \ {0}
           /\ opts.iterations \in Nat \ {0} /\ opts.averaging \in Nat
           /\ opts.maxIterations \in Nat
  BY DEF LoopTypes, Options

LEMMA RoundLength ==
    ASSUME LoopTypes, NEW p \in Nat \ {0}
    PROVE  ToNext(p) \in 1 .. p /\ ToNext(p) = p - (cur % p)
  <1>1. cur % p \in 0 .. p - 1
    BY DivMod DEF LoopTypes
  <1> QED
    BY <1>1 DEF ToNext

\* A line goes to the end of the file, or is the first of a new one.
LEMMA OneMoreLine ==
    ASSUME LoopTypes, NEW step \in Nat, OutputToLog(step)
    PROVE  /\ flog' = TRUE /\ logFile' \in Lines
           /\ Steps' = Append(IF flog THEN Steps ELSE <<>>, step)
  <1>1. PICK s \in Sizes :
            logFile' = Append(IF flog THEN logFile ELSE <<>>, [step |-> step, size |-> s])
    BY DEF OutputToLog
  <1> DEFINE old == IF flog THEN logFile ELSE <<>>
             line == [step |-> step, size |-> s]
  <1>2. old \in Lines /\ line \in [step : Nat, size : Sizes]
    BY DEF LoopTypes, Lines
  <1>3. logFile' = Append(old, line) /\ line.step = step
    BY <1>1
  <1>4. (IF flog THEN Steps ELSE <<>>) = [i \in 1 .. Len(old) |-> old[i].step]
    BY DEF Steps
  <1> HIDE DEF old, line
  <1>5. /\ logFile' \in Lines /\ Len(logFile') = Len(old) + 1 /\ Len(old) \in Nat
        /\ \A i \in 1 .. Len(old) : logFile'[i] = old[i]
        /\ logFile'[Len(old) + 1] = line
    BY <1>2, <1>3, AppendProperties DEF Lines
  <1> DEFINE before == [i \in 1 .. Len(old) |-> old[i].step]
             after == [i \in 1 .. Len(old) + 1 |-> logFile'[i].step]
  <1>6. before \in Seq(Nat) /\ Len(before) = Len(old)
    <2>1. \A i \in 1 .. Len(old) : old[i] \in [step : Nat, size : Sizes]
      BY <1>2, ElementOfSeq DEF Lines
    <2>2. \A i \in 1 .. Len(old) : old[i].step \in Nat
      BY <2>1
    <2> QED
      BY <1>5, <2>2
  <1>7. after \in Seq(Nat) /\ Len(after) = Len(old) + 1
    <2>1. \A i \in 1 .. Len(old) + 1 : logFile'[i] \in [step : Nat, size : Sizes]
      BY <1>5, ElementOfSeq DEF Lines
    <2>2. \A i \in 1 .. Len(old) + 1 : logFile'[i].step \in Nat
      BY <2>1
    <2> QED
      BY <1>5, <2>2
  <1>8. Append(before, step) \in Seq(Nat) /\ Len(Append(before, step)) = Len(old) + 1
    BY <1>6, AppendProperties
  <1>9. ASSUME NEW i \in 1 .. Len(old) + 1 PROVE after[i] = Append(before, step)[i]
    <2>1. CASE i = Len(old) + 1
      BY <1>3, <1>5, <1>6, <2>1, AppendProperties
    <2>2. CASE i # Len(old) + 1
      <3>1. i \in 1 .. Len(old)
        BY <1>5, <2>2
      <3> QED
        BY <1>5, <1>6, <3>1, AppendProperties
    <2> QED
      BY <2>1, <2>2
  <1>10. after = Append(before, step)
    BY <1>7, <1>8, <1>9, SeqEqual
  <1>11. flog' = TRUE /\ Steps' = after
    BY <1>5 DEF OutputToLog, Steps
  <1> QED
    BY <1>4, <1>5, <1>10, <1>11

LEMMA TypesInit == Init => LoopTypes
  <1>1. <<>> \in Lines
    BY DEF Lines
  <1> SUFFICES ASSUME Init PROVE LoopTypes
    OBVIOUS
  <1>2. opts \in Options
    BY ConfigsAssumption DEF Init
  <1>3. /\ pc = "start" /\ cur = 0 /\ sumN = 0 /\ flog = FALSE /\ stopped = FALSE
        /\ logFile = <<>>
    BY DEF Init
  <1> QED
    BY <1>1, <1>2, <1>3 DEF LoopTypes

LEMMA TypesStep ==
    ASSUME LoopTypes, [Next]_vars
    PROVE  LoopTypes' /\ SameOptions
  <1> USE DEF LoopTypes, SameOptions, Ended
  <1>0. /\ UNCHANGED opts => opts' \in Options
        /\ \A a \in CleanAlgorithms \cup {"HPR"} : [opts EXCEPT !.algorithm = a] \in Options
        /\ [opts EXCEPT !.maxIterations = 1] \in Options
    BY DEF Options, CleanAlgorithms
  <1>1. CASE Stop
    BY <1>0, <1>1 DEF Stop, loopVars, logVars, Options
  <1>2. CASE UwrapcStart
    BY <1>2 DEF UwrapcStart, loopVars, logVars
  <1>3. CASE Begin
    <2>1. opts.algorithm \in CleanAlgorithms \cup {"HPR"}
      BY DEF Options
    <2>2. PICK alg \in CleanAlgorithms \cup {"HPR"} : opts' = [opts EXCEPT !.algorithm = alg]
      BY <1>3, <2>1 DEF Begin, CleanAlgorithms
    <2>3. opts' \in Options
      BY <1>0, <2>2
    <2>4. SameOptions
      BY <1>3, <2>2 DEF Begin, Options
    <2> QED
      BY <1>3, <2>3, <2>4 DEF Begin, InitLog
  <1>4. CASE CleanRound
    <2>1. ToNext(opts.outputPeriod) \in Nat /\ ToNext(opts.logPeriod) \in Nat
      BY OptionTypes, RoundLength
    <2>2. cur' \in Nat
      BY <1>4, <2>1 DEF CleanRound, ShortestRound, MinOf
    <2>3. flog' \in BOOLEAN /\ logFile' \in Lines
      <3>1. CASE OutputToLog(cur')
        BY <2>2, <3>1, OneMoreLine
      <3>2. CASE UNCHANGED logVars
        BY <3>2 DEF logVars
      <3> QED
        BY <1>4, <3>1, <3>2 DEF CleanRound
    <2> QED
      BY <1>4, <2>2, <2>3 DEF CleanRound
  <1>5. CASE CleanEnd
    BY <1>5 DEF CleanEnd, NextRun, loopVars, logVars
  <1>6. ASSUME Iterate
        PROVE  opts' \in Options /\ flog' \in BOOLEAN /\ logFile' \in Lines
               /\ (stopped' = stopped => SameOptions)
    <2>1. opts' = [opts EXCEPT !.algorithm = GetAlgorithm]
      BY <1>6 DEF Iterate
    <2>2. GetAlgorithm \in CleanAlgorithms \cup {"HPR"}
      BY DEF GetAlgorithm, Options, CleanAlgorithms
    <2>3. opts' \in Options /\ (stopped' = stopped => SameOptions)
      BY <1>0, <2>1, <2>2 DEF Options
    <2>4. CASE OutputToLog(cur)
      BY <2>3, <2>4, OneMoreLine
    <2>5. CASE UNCHANGED logVars
      BY <2>3, <2>5 DEF logVars
    <2> QED
      BY <1>6, <2>4, <2>5 DEF Iterate
  <1>7. CASE FirstIteration
    BY <1>6, <1>7 DEF FirstIteration, loopVars
  <1>8. CASE Accumulate
    BY <1>8 DEF Accumulate, logVars
  <1>9. CASE LoopExit
    BY <1>9 DEF LoopExit, loopVars, logVars
  <1>10. CASE UpdateSupport
    BY <1>10 DEF UpdateSupport, logVars
  <1>11. CASE WriteImages
    BY <1>11 DEF WriteImages, logVars
  <1>12. CASE IterateInLoop
    BY <1>6, <1>12 DEF IterateInLoop
  <1>13. CASE LegacyEnd
    BY <1>13 DEF LegacyEnd, NextRun, loopVars, logVars
  <1>14. CASE DoubleFree
    BY <1>14 DEF DoubleFree, loopVars, logVars
  <1>15. CASE UNCHANGED vars
    BY <1>15 DEF vars, loopVars, logVars
  <1> QED
    BY <1>1, <1>2, <1>3, <1>4, <1>5, <1>7, <1>8, <1>9, <1>10, <1>11, <1>12, <1>13,
       <1>14, <1>15 DEF Next, Step

----------------------------------------------------------------------------
(* Images and log lines.                                                   *)

OpenLine(p) == IF p = 1 THEN <<0>> ELSE <<>>

\* What has been written by every point of a run.
Written ==
    /\ pc = "first" => cur = 0 /\ images = <<>> /\ flog = FALSE /\ sumN = 0
    /\ pc \in {"clean", "head", "update", "output", "end"} =>
           images = Grid(cur \div opts.outputPeriod, opts.outputPeriod, 1)
    /\ pc = "iterate" => images = Grid((cur + 1) \div opts.outputPeriod, opts.outputPeriod, 1)
    /\ InClean =>
           /\ flog <=> cur \div opts.logPeriod > 0
           /\ flog => Steps = Grid(cur \div opts.logPeriod, opts.logPeriod, 0)
    /\ InLegacy =>
           /\ flog <=> cur \div opts.logPeriod > 0 \/ opts.logPeriod = 1
           /\ flog => Steps = OpenLine(opts.logPeriod)
                              \o Grid(cur \div opts.logPeriod, opts.logPeriod, 1)

LEMMA NoneYet == ASSUME NEW p \in Nat \ {0} PROVE 0 \div p = 0 /\ 0 % p = 0
  <1>1. 0 \in Nat /\ 0 = 0 * p + 0 /\ 0 \in 0 .. p - 1
    OBVIOUS
  <1> QED
    BY <1>1, PlaceOf

LEMMA AppendBehind ==
    ASSUME NEW o \in Seq(Int), NEW g \in Seq(Int), NEW e \in Int
    PROVE  Append(o \o g, e) = o \o Append(g, e)
  <1>1. Append(o \o g, e) = (o \o g) \o <<e>> /\ Append(g, e) = g \o <<e>>
    BY AppendIsConcat, ConcatProperties
  <1>2. (o \o g) \o <<e>> = o \o (g \o <<e>>)
    BY ConcatAssociative
  <1> QED
    BY <1>1, <1>2

\* The next line of the legacy loop.
LEMMA LegacyLine ==
    ASSUME NEW n \in Nat, NEW p \in Nat \ {0}, NEW s, s = OpenLine(p) \o Grid(n, p, 1)
    PROVE  Append(s, (n + 1) * p - 1) = OpenLine(p) \o Grid(n + 1, p, 1)
  <1> DEFINE e == (n + 1) * p - 1
             g == Grid(n, p, 1)
             o == OpenLine(p)
  <1>1. e \in Int /\ g \in Seq(Int) /\ o \in Seq(Int)
    BY DEF Grid, OpenLine
  <1>2. Append(g, e) = Grid(n + 1, p, 1)
    BY GridAppend
  <1> HIDE DEF e, g, o
  <1>3. s = o \o g
    BY DEF g, o
  <1>4. Append(o \o g, e) = o \o Append(g, e)
    BY <1>1, AppendBehind
  <1> QED
    BY <1>2, <1>3, <1>4 DEF e, o

LEMMA WrittenInit == Init => Written
  BY DEF Init, Written, InClean, InLegacy

\* An iteration of the legacy loop that logs, or does not.
LEMMA LegacyIteration ==
    ASSUME LoopTypes, Iterate
    PROVE  /\ LastOf(opts.logPeriod) =>
                 flog' = TRUE /\ Steps' = Append(IF flog THEN Steps ELSE <<>>, cur)
           /\ ~LastOf(opts.logPeriod) => flog' = flog /\ Steps' = Steps
  <1>1. CASE LastOf(opts.logPeriod)
    <2>1. OutputToLog(cur) /\ cur \in Nat
      BY <1>1 DEF Iterate, LoopTypes
    <2> QED
      BY <1>1, <2>1, OneMoreLine
  <1>2. CASE ~LastOf(opts.logPeriod)
    BY <1>2 DEF Iterate, logVars, Steps
  <1> QED
    BY <1>1, <1>2

\* What a round of the clean loop writes is what falls due.
LEMMA WrittenCleanRound ==
    ASSUME LoopTypes, LoopTypes', SameOptions, Written, CleanRound
    PROVE  Written'
  <1> DEFINE op == opts.outputPeriod
             lp == opts.logPeriod
             n == ShortestRound(ToNext(op), ToNext(lp))
  <1>1. op \in Nat \ {0} /\ lp \in Nat \ {0} /\ cur \in Nat
    BY OptionTypes DEF LoopTypes
  <1>2. /\ pc = "clean" /\ pc' = "clean" /\ cur' = cur + n
        /\ IF n = ToNext(lp) THEN OutputToLog(cur') ELSE UNCHANGED logVars
        /\ images' = IF n = ToNext(op) THEN Append(images, cur' - 1) ELSE images
        /\ opts' = opts
    BY DEF CleanRound
  <1>3. /\ ToNext(op) \in 1 .. op /\ ToNext(op) = op - (cur % op)
        /\ ToNext(lp) \in 1 .. lp /\ ToNext(lp) = lp - (cur % lp)
    BY <1>1, RoundLength
  <1>4. n \in Nat \ {0} /\ n <= ToNext(op) /\ n <= ToNext(lp)
    BY <1>3 DEF ShortestRound, MinOf
  <1>5. /\ opts'.outputPeriod = op /\ opts'.logPeriod = lp
        /\ images = Grid(cur \div op, op, 1)
        /\ flog <=> cur \div lp > 0
        /\ flog => Steps = Grid(cur \div lp, lp, 0)
        /\ cur \div op \in Nat /\ cur \div lp \in Nat
        /\ flog \in BOOLEAN /\ flog' \in BOOLEAN
    BY <1>1, <1>2, DivMod DEF Written, InClean, LoopTypes
  <1> HIDE DEF op, lp, n
  <1>6. images' = Grid(cur' \div op, op, 1)
    <2>1. CASE n = ToNext(op)
      <3>1. cur' \div op = cur \div op + 1 /\ cur' = (cur \div op + 1) * op
        BY <1>1, <1>2, <1>3, <1>4, <2>1, Advance
      <3>2. images' = Append(images, (cur \div op + 1) * op - 1)
        BY <1>2, <2>1, <3>1
      <3>3. Append(images, (cur \div op + 1) * op - 1) = Grid(cur \div op + 1, op, 1)
        BY <1>1, <1>5, GridAppend
      <3> QED
        BY <3>1, <3>2, <3>3
    <2>2. CASE n # ToNext(op)
      <3>1. cur' \div op = cur \div op
        BY <1>1, <1>2, <1>3, <1>4, <2>2, Advance
      <3> QED
        BY <1>2, <1>5, <2>2, <3>1
    <2> QED
      BY <2>1, <2>2
  <1>7. /\ flog' <=> cur' \div lp > 0
        /\ flog' => Steps' = Grid(cur' \div lp, lp, 0)
    <2>1. CASE n = ToNext(lp)
      <3>1. cur' \div lp = cur \div lp + 1 /\ cur' = (cur \div lp + 1) * lp
        BY <1>1, <1>2, <1>3, <1>4, <2>1, Advance
      <3>2. flog' = TRUE /\ Steps' = Append(IF flog THEN Steps ELSE <<>>, cur')
        BY <1>2, <2>1, OneMoreLine DEF LoopTypes
      <3>3. (IF flog THEN Steps ELSE <<>>) = Grid(cur \div lp, lp, 0)
        BY <1>5, GridEmpty
      <3>4. cur' = (cur \div lp + 1) * lp - 0
        BY <1>1, <1>5, <3>1
      <3>5. Steps' = Grid(cur \div lp + 1, lp, 0)
        <4> DEFINE k == cur \div lp
                   s == IF flog THEN Steps ELSE <<>>
        <4>1. k \in Nat /\ s = Grid(k, lp, 0) /\ 0 \in {0, 1}
          BY <1>5, <3>3
        <4> HIDE DEF k, s
        <4>2. Append(s, (k + 1) * lp - 0) = Grid(k + 1, lp, 0)
          BY <1>1, <4>1, GridAppend
        <4> QED
          BY <3>2, <3>4, <4>2 DEF k, s
      <3> QED
        BY <1>5, <3>1, <3>2, <3>5
    <2>2. CASE n # ToNext(lp)
      <3>1. cur' \div lp = cur \div lp
        BY <1>1, <1>2, <1>3, <1>4, <2>2, Advance
      <3>2. flog' = flog /\ Steps' = Steps
        BY <1>2, <2>2 DEF logVars, Steps
      <3> QED
        BY <1>5, <3>1, <3>2
    <2> QED
      BY <2>1, <2>2
  <1> QED
    BY <1>2, <1>5, <1>6, <1>7 DEF Written, InClean, InLegacy

\* An iteration of the legacy loop moves on by one and logs what is due.
LEMMA WrittenIteration ==
    ASSUME LoopTypes, LoopTypes', SameOptions, Written, IterateInLoop
    PROVE  Written'
  <1> DEFINE op == opts.outputPeriod
             lp == opts.logPeriod
             done == cur \div lp
  <1>1. op \in Nat \ {0} /\ lp \in Nat \ {0} /\ cur \in Nat
    BY OptionTypes DEF LoopTypes
  <1>2. /\ pc = "iterate" /\ pc' = "head" /\ cur' = cur + 1 /\ images' = images
        /\ opts'.outputPeriod = op /\ opts'.logPeriod = lp
    BY DEF IterateInLoop, SameOptions
  <1>3. /\ LastOf(lp) => flog' = TRUE /\ Steps' = Append(IF flog THEN Steps ELSE <<>>, cur)
        /\ ~LastOf(lp) => flog' = flog /\ Steps' = Steps
    BY LegacyIteration DEF IterateInLoop
  <1>4. /\ images = Grid((cur + 1) \div op, op, 1)
        /\ flog <=> done > 0 \/ lp = 1
        /\ flog => Steps = OpenLine(lp) \o Grid(done, lp, 1)
        /\ flog \in BOOLEAN /\ flog' \in BOOLEAN
    BY <1>2 DEF Written, InLegacy, LoopTypes
  <1>5. cur % lp \in 0 .. lp - 1 /\ done \in Nat
    BY <1>1, DivMod
  <1>6. LastOf(lp) <=> cur % lp = lp - 1
    BY DEF LastOf
  <1> HIDE DEF op, lp
  <1>7. /\ flog' <=> cur' \div lp > 0 \/ lp = 1
        /\ flog' => Steps' = OpenLine(lp) \o Grid(cur' \div lp, lp, 1)
    <2>1. CASE cur % lp = lp - 1
      <3>2. cur' \div lp = done + 1 /\ cur + 1 = (done + 1) * lp
        BY <1>1, <1>2, <2>1, NextOne
      <3> HIDE DEF done
      <3>6. cur' \div lp > 0
        BY <1>5, <3>2
      <3>3. cur = (done + 1) * lp - 1
        BY <1>1, <1>5, <3>2
      <3>4. (IF flog THEN Steps ELSE <<>>) = OpenLine(lp) \o Grid(done, lp, 1)
        <4>1. CASE flog
          BY <1>4, <4>1
        <4>2. CASE ~flog
          <5>1. done = 0 /\ lp # 1
            BY <1>4, <1>5, <4>2
          <5>2. OpenLine(lp) = <<>> /\ Grid(done, lp, 1) = <<>>
            BY <5>1, GridEmpty DEF OpenLine
          <5> QED
            BY <4>2, <5>2
        <4> QED
          BY <1>4, <4>1, <4>2
      <3>5. Steps' = OpenLine(lp) \o Grid(done + 1, lp, 1)
        BY <1>1, <1>3, <1>5, <1>6, <2>1, <3>3, <3>4, LegacyLine
      <3> QED
        BY <1>3, <1>6, <2>1, <3>2, <3>5, <3>6
    <2>2. CASE cur % lp # lp - 1
      <3>1. 1 \in Nat \ {0} /\ 1 <= lp - (cur % lp) /\ 1 # lp - (cur % lp)
        BY <1>1, <1>5, <2>2
      <3>2. cur' \div lp = done
        BY <1>1, <1>2, <3>1, Advance
      <3> QED
        BY <1>3, <1>4, <1>6, <2>2, <3>2
    <2> QED
      BY <2>1, <2>2
  <1> QED
    BY <1>2, <1>4, <1>7 DEF Written, InClean, InLegacy

\* The first iteration, in front of the loop.
LEMMA WrittenFirst ==
    ASSUME LoopTypes, LoopTypes', SameOptions, Written, FirstIteration
    PROVE  Written'
  <1> DEFINE op == opts.outputPeriod
             lp == opts.logPeriod
  <1>1. op \in Nat \ {0} /\ lp \in Nat \ {0}
    BY OptionTypes
  <1>2. /\ pc' = "head" /\ cur = 0 /\ cur' = 0 /\ images' = <<>> /\ flog = FALSE
        /\ opts'.outputPeriod = op /\ opts'.logPeriod = lp
    BY DEF FirstIteration, Written, SameOptions, loopVars
  <1>3. /\ LastOf(lp) => flog' = TRUE /\ Steps' = Append(<<>>, 0)
        /\ ~LastOf(lp) => flog' = flog
    BY <1>2, LegacyIteration DEF FirstIteration
  <1>4. 0 \div op = 0 /\ 0 \div lp = 0 /\ 0 % lp = 0
    BY <1>1, NoneYet
  <1>5. LastOf(lp) <=> lp = 1
    BY <1>1, <1>2, <1>4 DEF LastOf
  <1> HIDE DEF op, lp
  <1>6. images' = Grid(cur' \div op, op, 1)
    BY <1>2, <1>4, GridEmpty
  <1>7. flog' <=> cur' \div lp > 0 \/ lp = 1
    BY <1>2, <1>3, <1>4, <1>5
  <1>8. flog' => Steps' = OpenLine(lp) \o Grid(cur' \div lp, lp, 1)
    <2>1. CASE lp = 1
      <3>1. Steps' = <<0>> /\ OpenLine(lp) = <<0>> /\ Grid(cur' \div lp, lp, 1) = <<>>
        BY <1>2, <1>3, <1>4, <1>5, <2>1, GridEmpty DEF OpenLine
      <3> QED
        BY <3>1
    <2>2. CASE lp # 1
      BY <1>2, <1>3, <1>5, <2>2
    <2> QED
      BY <2>1, <2>2
  <1> QED
    BY <1>2, <1>6, <1>7, <1>8 DEF Written, InClean, InLegacy

LEMMA WrittenImages ==
    ASSUME LoopTypes, Written, WriteImages
    PROVE  Written'
  <1> DEFINE op == opts.outputPeriod
  <1>1. op \in Nat \ {0} /\ cur \in Nat
    BY OptionTypes DEF LoopTypes
  <1>2. /\ pc = "output" /\ pc' = "iterate" /\ cur' = cur /\ opts' = opts
        /\ flog' = flog /\ Steps' = Steps
        /\ images' = IF cur % op = op - 1 THEN Append(images, cur) ELSE images
    BY DEF WriteImages, logVars, Steps, LastOf
  <1>3. images = Grid(cur \div op, op, 1)
    BY <1>2 DEF Written
  <1>4. cur % op \in 0 .. op - 1 /\ cur \div op \in Nat
    BY <1>1, DivMod
  <1> HIDE DEF op
  <1>5. images' = Grid((cur + 1) \div op, op, 1)
    <2>1. CASE cur % op = op - 1
      <3>1. 1 \in Nat \ {0} /\ 1 <= op - (cur % op) /\ 1 = op - (cur % op)
        BY <1>1, <1>4, <2>1
      <3>2. (cur + 1) \div op = cur \div op + 1 /\ cur + 1 = (cur \div op + 1) * op
        BY <1>1, <3>1, Advance
      <3>3. cur = (cur \div op + 1) * op - 1
        BY <1>1, <1>4, <3>2
      <3>4. Append(images, (cur \div op + 1) * op - 1) = Grid(cur \div op + 1, op, 1)
        BY <1>1, <1>3, <1>4, GridAppend
      <3> QED
        <4>1. images' = Append(images, (cur \div op + 1) * op - 1)
          BY <1>2, <2>1, <3>3
        <4> QED
          BY <3>2, <3>4, <4>1
    <2>2. CASE cur % op # op - 1
      <3>1. 1 \in Nat \ {0} /\ 1 <= op - (cur % op) /\ 1 # op - (cur % op)
        BY <1>1, <1>4, <2>2
      <3>2. (cur + 1) \div op = cur \div op
        BY <1>1, <3>1, Advance
      <3> QED
        BY <1>2, <1>3, <2>2, <3>2
    <2> QED
      BY <2>1, <2>2
  <1> QED
    BY <1>2, <1>5 DEF Written, InClean, InLegacy, op

LEMMA WrittenStep ==
    ASSUME LoopTypes, LoopTypes', Written, [Next]_vars
    PROVE  Written'
  <1> USE DEF Written, InClean, InLegacy
  <1>0. SameOptions
    BY TypesStep
  <1>1. CASE Stop
    BY <1>0, <1>1 DEF Stop, loopVars, logVars, SameOptions, Steps
  <1>2. CASE UwrapcStart
    BY <1>2 DEF UwrapcStart
  <1>3. CASE Begin
    <2>1. /\ cur' = 0 /\ sumN' = 0 /\ images' = <<>> /\ flog' = FALSE
          /\ pc' \in {"clean", "first"}
      BY <1>3 DEF Begin, InitLog
    <2>2. opts.outputPeriod \in Nat \ {0} /\ opts.logPeriod \in Nat \ {0}
      BY OptionTypes
    <2>3. 0 \div opts.outputPeriod = 0 /\ 0 \div opts.logPeriod = 0
      BY <2>2, NoneYet
    <2>4. <<>> = Grid(0, opts.outputPeriod, 1)
      BY GridEmpty
    <2> QED
      BY <1>0, <2>1, <2>3, <2>4 DEF SameOptions
  <1>4. CASE CleanRound
    BY <1>0, <1>4, WrittenCleanRound
  <1>5. CASE CleanEnd
    BY <1>5 DEF CleanEnd, NextRun
  <1>6. CASE FirstIteration
    BY <1>0, <1>6, WrittenFirst
  <1>7. CASE Accumulate
    BY <1>7 DEF Accumulate, logVars, Steps
  <1>8. CASE LoopExit
    BY <1>8 DEF LoopExit, loopVars, logVars, Steps
  <1>9. CASE UpdateSupport
    BY <1>9 DEF UpdateSupport, logVars, Steps
  <1>10. CASE WriteImages
    BY <1>10, WrittenImages
  <1>11. CASE IterateInLoop
    BY <1>0, <1>11, WrittenIteration
  <1>12. CASE LegacyEnd
    BY <1>12 DEF LegacyEnd, NextRun
  <1>13. CASE DoubleFree
    BY <1>13 DEF DoubleFree
  <1>14. CASE UNCHANGED vars
    BY <1>14 DEF vars, loopVars, logVars, Steps
  <1> QED
    BY <1>1, <1>2, <1>3, <1>4, <1>5, <1>6, <1>7, <1>8, <1>9, <1>10, <1>11, <1>12,
       <1>13, <1>14 DEF Next, Step

\* A log line is due exactly when the file is open.
LEMMA WrittenSuffices ==
    ASSUME LoopTypes, Written
    PROVE  OutputOnTime
  <1>1. opts.outputPeriod \in Nat \ {0} /\ opts.logPeriod \in Nat \ {0} /\ cur \in Nat
    BY OptionTypes DEF LoopTypes
  <1>2. cur \div opts.logPeriod \in Nat
    BY <1>1, DivMod
  <1>3. ImagesOnTime
    BY DEF ImagesOnTime, Written, InClean, InLegacy, Grid
  <1>4. LogOnTime
    <2> DEFINE due == cur \div opts.logPeriod
               p == opts.logPeriod
    <2>1. Grid(due, p, 1) = [i \in 1 .. due |-> i * p - 1]
      BY DEF Grid
    <2>2. Grid(due, p, 0) = [i \in 1 .. due |-> i * p]
      BY <1>1, <1>2 DEF Grid
    <2>3. ASSUME InClean, due > 0 PROVE Steps = [i \in 1 .. due |-> i * p]
      BY <2>2, <2>3 DEF Written
    <2>4. ASSUME InLegacy, due > 0
          PROVE  Steps = OpenLine(p) \o [i \in 1 .. due |-> i * p - 1]
      BY <2>1, <2>4 DEF Written
    <2> QED
      BY <2>3, <2>4 DEF LogOnTime, OpenLine
  <1> QED
    BY <1>3, <1>4 DEF OutputOnTime

\* Whatever the two periods are, whichever loop runs and whenever it is
\* stopped: no image and no line of the log is skipped, doubled or misnamed.
THEOREM WritesOnTime == Spec => []OutputOnTime
  <1>1. Init => LoopTypes /\ Written
    BY TypesInit, WrittenInit
  <1>2. LoopTypes /\ Written /\ [Next]_vars => LoopTypes' /\ Written'
    BY TypesStep, WrittenStep
  <1>3. LoopTypes /\ Written => OutputOnTime
    BY WrittenSuffices
  <1> QED
    BY <1>1, <1>2, <1>3, PTL DEF Spec

----------------------------------------------------------------------------
(* The limit.                                                              *)

Within ==
    opts.maxIterations # 0 /\ ~stopped =>
        /\ InLegacy => cur <= opts.maxIterations
        /\ pc \in {"update", "output", "iterate"} => cur < opts.maxIterations
        /\ InClean => cur < opts.maxIterations
                            + MinOf(opts.outputPeriod, opts.logPeriod)

LEMMA WithinStep ==
    ASSUME LoopTypes, LoopTypes', Written, Within, [Next]_vars
    PROVE  Within'
  <1> SUFFICES ASSUME opts'.maxIterations # 0, ~stopped'
               PROVE  /\ InLegacy' => cur' <= opts'.maxIterations
                      /\ pc' \in {"update", "output", "iterate"} => cur' < opts'.maxIterations
                      /\ InClean' => cur' < opts'.maxIterations
                                     + MinOf(opts'.outputPeriod, opts'.logPeriod)
    BY DEF Within
  <1>0. SameOptions
    BY TypesStep
  <1>1. /\ opts'.maxIterations = opts.maxIterations /\ ~stopped
        /\ opts'.outputPeriod = opts.outputPeriod /\ opts'.logPeriod = opts.logPeriod
    BY <1>0 DEF SameOptions
  <1>2. /\ opts.outputPeriod \in Nat \ {0} /\ opts.logPeriod \in Nat \ {0}
        /\ opts.maxIterations \in Nat \ {0} /\ cur \in Nat
    BY <1>1, OptionTypes DEF LoopTypes
  <1>3. /\ InLegacy => cur <= opts.maxIterations
        /\ pc \in {"update", "output", "iterate"} => cur < opts.maxIterations
        /\ InClean => cur < opts.maxIterations + MinOf(opts.outputPeriod, opts.logPeriod)
    BY <1>1, <1>2 DEF Within
  <1> USE DEF InClean, InLegacy, Limited
  <1>4. CASE Stop
    BY <1>4 DEF Stop
  <1>5. CASE UwrapcStart
    BY <1>5 DEF UwrapcStart
  <1>6. CASE Begin
    BY <1>1, <1>2, <1>6 DEF Begin, MinOf
  <1>7. CASE CleanRound
    <2>1. /\ cur < opts.maxIterations /\ pc' = "clean"
          /\ cur' = cur + MinOf(ToNext(opts.outputPeriod), ToNext(opts.logPeriod))
      BY <1>2, <1>7 DEF CleanRound, ShortestRound
    <2>2. /\ ToNext(opts.outputPeriod) \in 1 .. opts.outputPeriod
          /\ ToNext(opts.logPeriod) \in 1 .. opts.logPeriod
      BY <1>2, RoundLength
    <2> QED
      BY <1>1, <1>2, <2>1, <2>2 DEF MinOf
  <1>8. CASE CleanEnd
    BY <1>8 DEF CleanEnd, NextRun
  <1>9. CASE FirstIteration
    BY <1>1, <1>2, <1>9 DEF FirstIteration, loopVars, Written
  <1>10. CASE Accumulate
    BY <1>1, <1>2, <1>3, <1>10 DEF Accumulate, LoopOver
  <1>11. CASE LoopExit
    BY <1>1, <1>3, <1>11 DEF LoopExit, loopVars
  <1>12. CASE UpdateSupport
    BY <1>1, <1>3, <1>12 DEF UpdateSupport
  <1>13. CASE WriteImages
    BY <1>1, <1>3, <1>13 DEF WriteImages
  <1>14. CASE IterateInLoop
    BY <1>1, <1>2, <1>3, <1>14 DEF IterateInLoop
  <1>15. CASE LegacyEnd
    BY <1>15 DEF LegacyEnd, NextRun
  <1>16. CASE DoubleFree
    BY <1>16 DEF DoubleFree
  <1>17. CASE UNCHANGED vars
    BY <1>1, <1>3, <1>17 DEF vars, loopVars
  <1> QED
    BY <1>4, <1>5, <1>6, <1>7, <1>8, <1>9, <1>10, <1>11, <1>12, <1>13, <1>14, <1>15,
       <1>16, <1>17 DEF Next, Step

\* Whatever the limit and the periods: the legacy loop never passes a limit
\* that nobody changed, the clean loop by less than the shorter period.
THEOREM NoOverrun == Spec => []BoundedOverrun
  <1>1. Init => LoopTypes /\ Written /\ Within
    <2>1. Init => Within
      BY DEF Init, Within, InClean, InLegacy
    <2> QED
      BY <2>1, TypesInit, WrittenInit
  <1>2. LoopTypes /\ Written /\ Within /\ [Next]_vars => LoopTypes' /\ Written' /\ Within'
    BY TypesStep, WrittenStep, WithinStep
  <1>3. Within => BoundedOverrun
    BY DEF Within, BoundedOverrun
  <1> QED
    BY <1>1, <1>2, <1>3, PTL DEF Spec

----------------------------------------------------------------------------
(* The images that are averaged before an update of the support.           *)

\* Of the first r iterations of a period of n, those among its last avg.
Averaged(r, n, avg) == MaxOf(0, r - MaxOf(n - avg, 0))

Window ==
    LET n == opts.iterations
        avg == opts.averaging
    IN  /\ pc = "first" => sumN = 0
        /\ pc = "head" => sumN = Averaged(cur % n, n, avg)
        /\ pc = "update" => LastOf(n) /\ sumN = Averaged(n, n, avg)
        /\ pc \in {"output", "iterate"} =>
               sumN = IF LastOf(n) THEN 0 ELSE Averaged((cur % n) + 1, n, avg)

LEMMA WindowStep ==
    ASSUME LoopTypes, LoopTypes', Written, Window, [Next]_vars
    PROVE  Window'
  <1> DEFINE n == opts.iterations
             avg == opts.averaging
             r == cur % n
  <1>1. SameOptions
    BY TypesStep
  <1>2. opts'.iterations = n /\ opts'.averaging = avg
    BY <1>1 DEF SameOptions
  <1>3. n \in Nat \ {0} /\ avg \in Nat /\ cur \in Nat /\ sumN \in Nat
    BY OptionTypes DEF LoopTypes
  <1>4. r \in 0 .. n - 1
    BY <1>3, DivMod
  <1>5. LastOf(n) <=> r = n - 1
    BY DEF LastOf
  <1>6. /\ pc = "first" => cur = 0 /\ sumN = 0
        /\ pc = "head" => sumN = Averaged(r, n, avg)
        /\ pc = "update" => r = n - 1 /\ sumN = Averaged(n, n, avg)
        /\ pc \in {"output", "iterate"} =>
               sumN = IF r = n - 1 THEN 0 ELSE Averaged(r + 1, n, avg)
    BY <1>5 DEF Window, Written
  <1> SUFFICES
        /\ pc' = "first" => sumN' = 0
        /\ pc' = "head" => sumN' = Averaged(cur' % n, n, avg)
        /\ pc' = "update" => cur' % n = n - 1 /\ sumN' = Averaged(n, n, avg)
        /\ pc' \in {"output", "iterate"} =>
               sumN' = IF cur' % n = n - 1 THEN 0 ELSE Averaged((cur' % n) + 1, n, avg)
    BY <1>2 DEF Window, LastOf
  <1>7. Averaged(0, n, avg) = 0
    BY <1>3 DEF Averaged, MaxOf
  <1> HIDE DEF n, avg, r
  <1>8. CASE Stop
    BY <1>6, <1>8 DEF Stop, loopVars, r
  <1>9. CASE UwrapcStart
    BY <1>9 DEF UwrapcStart
  <1>10. CASE Begin
    BY <1>10 DEF Begin
  <1>11. CASE CleanRound
    BY <1>11 DEF CleanRound
  <1>12. CASE CleanEnd
    BY <1>12 DEF CleanEnd, NextRun
  <1>13. CASE FirstIteration
    <2>1. 0 % n = 0
      BY <1>3, NoneYet
    <2> QED
      BY <1>6, <1>7, <1>13, <2>1 DEF FirstIteration, loopVars
  <1>14. CASE Accumulate
    <2>1. /\ pc = "head" /\ cur' = cur
          /\ sumN' = IF n - r <= avg THEN sumN + 1 ELSE sumN
          /\ pc' = IF r = n - 1 THEN "update" ELSE "output"
      BY <1>5, <1>14 DEF Accumulate, n, avg, r
    <2>2. sumN' = Averaged(r + 1, n, avg)
      BY <1>3, <1>4, <1>6, <2>1 DEF Averaged, MaxOf
    <2>3. cur' % n = r
      BY <2>1 DEF r
    <2>4. CASE r = n - 1
      <3>1. r + 1 = n
        BY <1>3, <2>4
      <3> QED
        BY <2>1, <2>2, <2>3, <2>4, <3>1
    <2>5. CASE r # n - 1
      BY <2>1, <2>2, <2>3, <2>5
    <2> QED
      BY <2>4, <2>5
  <1>15. CASE LoopExit
    BY <1>15 DEF LoopExit
  <1>16. CASE UpdateSupport
    <2>1. cur' % n = r
      BY <1>16 DEF UpdateSupport, r
    <2> QED
      BY <1>6, <1>16, <2>1 DEF UpdateSupport
  <1>17. CASE WriteImages
    <2>1. cur' % n = r
      BY <1>17 DEF WriteImages, r
    <2> QED
      BY <1>6, <1>17, <2>1 DEF WriteImages
  <1>18. CASE IterateInLoop
    <2>1. pc = "iterate" /\ pc' = "head" /\ cur' = cur + 1 /\ sumN' = sumN
      BY <1>18 DEF IterateInLoop
    <2>2. CASE r = n - 1
      <3>1. 1 \in Nat \ {0} /\ 1 <= n - r /\ 1 = n - r
        BY <1>3, <1>4, <2>2
      <3>2. cur' % n = 0
        BY <1>3, <2>1, <3>1, Advance DEF r
      <3> QED
        BY <1>6, <1>7, <2>1, <2>2, <3>2
    <2>3. CASE r # n - 1
      <3>1. 1 \in Nat \ {0} /\ 1 <= n - r /\ 1 # n - r
        BY <1>3, <1>4, <2>3
      <3>2. cur' % n = r + 1
        BY <1>3, <2>1, <3>1, Advance DEF r
      <3> QED
        BY <1>6, <2>1, <2>3, <3>2
    <2> QED
      BY <2>2, <2>3
  <1>19. CASE LegacyEnd
    BY <1>19 DEF LegacyEnd, NextRun
  <1>20. CASE DoubleFree
    BY <1>20 DEF DoubleFree
  <1>21. CASE UNCHANGED vars
    BY <1>6, <1>21 DEF vars, loopVars, r
  <1> QED
    BY <1>8, <1>9, <1>10, <1>11, <1>12, <1>13, <1>14, <1>15, <1>16, <1>17, <1>18,
       <1>19, <1>20, <1>21 DEF Next, Step

\* Whatever the length of a period and the number of images to average: the
\* support is updated from all of them, or all the period has.
THEOREM WholeWindow == Spec => []AverageWindow
  <1>1. Init => LoopTypes /\ Written /\ Window
    <2>1. Init => Window
      BY DEF Init, Window
    <2> QED
      BY <2>1, TypesInit, WrittenInit
  <1>2. LoopTypes /\ Written /\ Window /\ [Next]_vars => LoopTypes' /\ Written' /\ Window'
    BY TypesStep, WrittenStep, WindowStep
  <1>3. LoopTypes /\ Window => AverageWindow
    <2> SUFFICES ASSUME LoopTypes, Window, pc = "update"
                 PROVE  sumN = MinOf(opts.averaging, opts.iterations)
      BY DEF AverageWindow
    <2>1. sumN = Averaged(opts.iterations, opts.iterations, opts.averaging)
      BY DEF Window
    <2> QED
      BY <2>1, OptionTypes DEF Averaged, MaxOf, MinOf
  <1> QED
    BY <1>1, <1>2, <1>3, PTL DEF Spec

----------------------------------------------------------------------------
(* Sums.  The induction is over a set of numbers.                          *)

LEMMA Least ==
    ASSUME NEW S \in SUBSET Nat, S # {}
    PROVE  \E m \in S : \A k \in S : m <= k
  <1> DEFINE R == OpToRel(<, Nat)
  <1>1. IsWellFoundedOn(R, Nat)
    BY NatLessThanWellFounded
  <1>2. \A x, y \in Nat : x < y => <<x, y>> \in R
    BY DEF OpToRel
  <1> HIDE DEF R
  <1>3. PICK m \in S : \A y \in S : ~(<<y, m>> \in R)
    BY <1>1, WFMin
  <1>4. ASSUME NEW k \in S PROVE m <= k
    <2>1. ~(k < m)
      BY <1>2, <1>3
    <2> QED
      BY <2>1
  <1> QED
    BY <1>3, <1>4

LEMMA Induct ==
    ASSUME NEW S, 0 \in S, \A n \in Nat : n \in S => n + 1 \in S
    PROVE  \A n \in Nat : n \in S
  <1> SUFFICES ASSUME Nat \ S # {} PROVE FALSE
    OBVIOUS
  <1>1. PICK m \in Nat \ S : \A k \in Nat \ S : m <= k
    BY Least
  <1>2. m - 1 \in Nat
    BY <1>1
  <1> QED
    BY <1>1, <1>2

\* The element a sum over a set takes first.
Chosen(s) == CHOOSE x \in s : TRUE

LEMMA ChosenIsIn == ASSUME NEW s, s # {} PROVE Chosen(s) \in s
  BY DEF Chosen

Sums(g, f, S) ==
    g = [s \in SUBSET S |-> IF s = {} THEN 0 ELSE f[Chosen(s)] + g[s \ {Chosen(s)}]]

LEMMA SumIs ==
    ASSUME NEW f, NEW S
    PROVE  SumFunctionOnSet(f, S) = (CHOOSE g : Sums(g, f, S))[S]
  BY DEF SumFunctionOnSet, FoldFunctionOnSet, MapThenFoldSet, Sums, Chosen

\* The subsets with at most n elements.
UpTo(S, n) == {s \in SUBSET S : Cardinality(s) <= n}

SumsUpTo(h, f, S, n) ==
    \A s \in UpTo(S, n) :
        h[s] = IF s = {} THEN 0 ELSE f[Chosen(s)] + h[s \ {Chosen(s)}]

LEMMA Smaller ==
    ASSUME NEW S, IsFiniteSet(S), NEW s \in SUBSET S
    PROVE  /\ IsFiniteSet(s) /\ Cardinality(s) \in Nat
           /\ Cardinality(s) = 0 => s = {}
           /\ \A x \in s : /\ s \ {x} \in SUBSET S /\ IsFiniteSet(s \ {x})
                           /\ Cardinality(s \ {x}) = Cardinality(s) - 1
  <1>1. IsFiniteSet(s)
    BY FS_Subset
  <1>2. Cardinality(s) \in Nat /\ (Cardinality(s) = 0 => s = {})
    BY <1>1, FS_CardinalityType, FS_EmptySet
  <1>3. ASSUME NEW x \in s
        PROVE  s \ {x} \in SUBSET S /\ IsFiniteSet(s \ {x})
               /\ Cardinality(s \ {x}) = Cardinality(s) - 1
    BY <1>1, FS_RemoveElement
  <1> QED
    BY <1>1, <1>2, <1>3

LEMMA SumsExist ==
    ASSUME NEW S, IsFiniteSet(S), NEW f, \A x \in S : f[x] \in Nat
    PROVE  \E g \in [SUBSET S -> Nat] : Sums(g, f, S)
  <1> DEFINE T == {n \in Nat : \E h \in [UpTo(S, n) -> Nat] : SumsUpTo(h, f, S, n)}
  <1>1. 0 \in T
    <2> DEFINE h == [s \in UpTo(S, 0) |-> 0]
    <2>1. h \in [UpTo(S, 0) -> Nat]
      OBVIOUS
    <2>2. \A s \in UpTo(S, 0) : s = {}
      BY Smaller DEF UpTo
    <2>3. SumsUpTo(h, f, S, 0)
      BY <2>2 DEF SumsUpTo
    <2> HIDE DEF h
    <2> QED
      BY <2>1, <2>3
  <1>2. ASSUME NEW n \in Nat, n \in T
        PROVE  n + 1 \in T
    <2>1. PICK h \in [UpTo(S, n) -> Nat] : SumsUpTo(h, f, S, n)
      BY <1>2
    <2> DEFINE k == [s \in UpTo(S, n + 1) |->
                        IF s = {} THEN 0 ELSE f[Chosen(s)] + h[s \ {Chosen(s)}]]
    <2>2. ASSUME NEW s \in UpTo(S, n + 1), s # {}
          PROVE  Chosen(s) \in S /\ s \ {Chosen(s)} \in UpTo(S, n)
      <3>1. Chosen(s) \in s /\ s \in SUBSET S /\ Cardinality(s) <= n + 1
        BY <2>2, ChosenIsIn DEF UpTo
      <3>2. Cardinality(s) \in Nat /\ Cardinality(s \ {Chosen(s)}) = Cardinality(s) - 1
            /\ s \ {Chosen(s)} \in SUBSET S
        BY <3>1, Smaller
      <3> QED
        BY <3>1, <3>2 DEF UpTo
    <2>3. UpTo(S, n) \subseteq UpTo(S, n + 1)
      BY Smaller DEF UpTo
    <2>4. k \in [UpTo(S, n + 1) -> Nat]
      BY <2>2
    <2>5. \A s \in UpTo(S, n) : k[s] = h[s]
      BY <2>1, <2>3 DEF SumsUpTo
    <2>6. \A s \in UpTo(S, n + 1) :
              k[s] = IF s = {} THEN 0 ELSE f[Chosen(s)] + h[s \ {Chosen(s)}]
      OBVIOUS
    <2> HIDE DEF k
    <2>7. SumsUpTo(k, f, S, n + 1)
      BY <2>2, <2>5, <2>6 DEF SumsUpTo
    <2> QED
      BY <2>4, <2>7
  <1> HIDE DEF T
  <1>3. \A n \in Nat : n \in T
    BY <1>1, <1>2, Induct
  <1>4. Cardinality(S) \in Nat
    BY FS_CardinalityType
  <1>5. PICK g \in [UpTo(S, Cardinality(S)) -> Nat] : SumsUpTo(g, f, S, Cardinality(S))
    BY <1>3, <1>4 DEF T
  <1>6. UpTo(S, Cardinality(S)) = SUBSET S
    BY FS_Subset DEF UpTo
  <1>7. g \in [SUBSET S -> Nat]
    BY <1>5, <1>6
  <1>8. \A s \in SUBSET S :
            g[s] = IF s = {} THEN 0 ELSE f[Chosen(s)] + g[s \ {Chosen(s)}]
    BY <1>5, <1>6 DEF SumsUpTo
  <1>9. Sums(g, f, S)
    BY <1>7, <1>8 DEF Sums
  <1> QED
    BY <1>7, <1>9

LEMMA SumsAlike ==
    ASSUME NEW S, IsFiniteSet(S), NEW f, NEW g, Sums(g, f, S),
           NEW R \in SUBSET S, NEW h, Sums(h, f, R)
    PROVE  h[R] = g[R]
  <1> DEFINE T == {n \in Nat : \A s \in SUBSET R : Cardinality(s) = n => h[s] = g[s]}
  <1>1. ASSUME NEW s \in SUBSET R
        PROVE  /\ g[s] = IF s = {} THEN 0 ELSE f[Chosen(s)] + g[s \ {Chosen(s)}]
               /\ h[s] = IF s = {} THEN 0 ELSE f[Chosen(s)] + h[s \ {Chosen(s)}]
    <2>1. s \in SUBSET S
      OBVIOUS
    <2> QED
      BY <2>1 DEF Sums
  <1>2. IsFiniteSet(R)
    BY FS_Subset
  <1>3. 0 \in T
    <2>1. \A s \in SUBSET R : Cardinality(s) = 0 => s = {}
      BY <1>2, Smaller
    <2>2. \A s \in SUBSET R : s = {} => h[s] = g[s]
      BY <1>1
    <2> QED
      BY <2>1, <2>2
  <1>4. ASSUME NEW n \in Nat, n \in T
        PROVE  n + 1 \in T
    <2> SUFFICES ASSUME NEW s \in SUBSET R, Cardinality(s) = n + 1
                 PROVE  h[s] = g[s]
      OBVIOUS
    <2>1. s # {}
      BY FS_EmptySet
    <2>2. Chosen(s) \in s
      BY <2>1, ChosenIsIn
    <2>3. s \ {Chosen(s)} \in SUBSET R /\ Cardinality(s \ {Chosen(s)}) = n
      BY <1>2, <2>2, Smaller
    <2>4. h[s \ {Chosen(s)}] = g[s \ {Chosen(s)}]
      BY <1>4, <2>3
    <2> QED
      BY <1>1, <2>1, <2>4
  <1>5. Cardinality(R) \in Nat
    BY <1>2, FS_CardinalityType
  <1> HIDE DEF T
  <1>6. Cardinality(R) \in T
    BY <1>3, <1>4, <1>5, Induct
  <1> QED
    BY <1>6 DEF T

\* The sums of the model, of numbers over finite sets.
Sum(f, S) == SumFunctionOnSet(f, S)

LEMMA SumStep ==
    ASSUME NEW S, IsFiniteSet(S), NEW f, \A x \in S : f[x] \in Nat
    PROVE  /\ Sum(f, S) \in Nat /\ (S = {} => Sum(f, S) = 0)
           /\ S # {} => Sum(f, S) = f[Chosen(S)] + Sum(f, S \ {Chosen(S)})
  <1>1. PICK g \in [SUBSET S -> Nat] : Sums(g, f, S)
    BY SumsExist
  <1>2. ASSUME NEW R \in SUBSET S
        PROVE  Sum(f, R) = g[R]
    <2>1. IsFiniteSet(R) /\ \A x \in R : f[x] \in Nat
      BY FS_Subset
    <2>2. \E h : Sums(h, f, R)
      BY <2>1, SumsExist
    <2>3. PICK h : h = (CHOOSE k : Sums(k, f, R)) /\ Sums(h, f, R)
      BY <2>2
    <2>4. h[R] = g[R]
      BY <1>1, <2>3, SumsAlike
    <2> QED
      BY <2>3, <2>4, SumIs DEF Sum
  <1>3. S \in SUBSET S /\ S \ {Chosen(S)} \in SUBSET S
    OBVIOUS
  <1>4. g[S] = IF S = {} THEN 0 ELSE f[Chosen(S)] + g[S \ {Chosen(S)}]
    BY <1>1, <1>3 DEF Sums
  <1>5. g[S] \in Nat
    BY <1>1, <1>3
  <1> QED
    BY <1>2, <1>3, <1>4, <1>5

LEMMA SumOne ==
    ASSUME NEW S, IsFiniteSet(S), NEW f, \A x \in S : f[x] \in Nat, NEW y \in S
    PROVE  Sum(f, S) = f[y] + Sum(f, S \ {y})
  <1> DEFINE T == {n \in Nat : \A s \in SUBSET S : Cardinality(s) = n =>
                                  \A x \in s : Sum(f, s) = f[x] + Sum(f, s \ {x})}
  <1>1. 0 \in T
    <2>1. \A s \in SUBSET S : Cardinality(s) = 0 => s = {}
      BY Smaller
    <2> QED
      BY <2>1
  <1>2. ASSUME NEW n \in Nat, n \in T
        PROVE  n + 1 \in T
    <2> SUFFICES ASSUME NEW s \in SUBSET S, Cardinality(s) = n + 1, NEW x \in s
                 PROVE  Sum(f, s) = f[x] + Sum(f, s \ {x})
      OBVIOUS
    <2>1. PICK z \in s : z = Chosen(s)
      BY ChosenIsIn
    <2>2. IsFiniteSet(s) /\ \A i \in s : f[i] \in Nat
      BY Smaller
    <2>3. Sum(f, s) = f[z] + Sum(f, s \ {z})
      BY <2>1, <2>2, SumStep
    <2>4. CASE x = z
      BY <2>3, <2>4
    <2>5. CASE x # z
      <3>1. /\ s \ {z} \in SUBSET S /\ Cardinality(s \ {z}) = n /\ x \in s \ {z}
            /\ s \ {x} \in SUBSET S /\ Cardinality(s \ {x}) = n /\ z \in s \ {x}
        BY <2>5, Smaller
      <3>2. /\ Sum(f, s \ {z}) = f[x] + Sum(f, (s \ {z}) \ {x})
            /\ Sum(f, s \ {x}) = f[z] + Sum(f, (s \ {x}) \ {z})
        BY <1>2, <3>1
      <3>3. (s \ {z}) \ {x} = (s \ {x}) \ {z}
        OBVIOUS
      <3>4. Sum(f, (s \ {z}) \ {x}) \in Nat
        <4>1. IsFiniteSet((s \ {z}) \ {x}) /\ \A i \in (s \ {z}) \ {x} : f[i] \in Nat
          BY <2>2, FS_RemoveElement
        <4> QED
          BY <4>1, SumStep
      <3> QED
        BY <2>2, <2>3, <3>2, <3>3, <3>4
    <2> QED
      BY <2>4, <2>5
  <1>3. Cardinality(S) \in Nat
    BY FS_CardinalityType
  <1> HIDE DEF T
  <1>4. Cardinality(S) \in T
    BY <1>1, <1>2, <1>3, Induct
  <1> QED
    BY <1>4 DEF T

\* A sum does not depend on what its terms are called.
LEMMA SumRenamed ==
    ASSUME NEW S, IsFiniteSet(S), NEW f, \A x \in S : f[x] \in Nat,
           NEW b, NEW g, \A x \in S : g[b[x]] = f[x],
           \A x, y \in S : b[x] = b[y] => x = y
    PROVE  Sum(g, {b[x] : x \in S}) = Sum(f, S)
  <1> DEFINE T == {n \in Nat : \A s \in SUBSET S : Cardinality(s) = n =>
                                  /\ IsFiniteSet({b[x] : x \in s})
                                  /\ Sum(g, {b[x] : x \in s}) = Sum(f, s)}
  <1>1. 0 \in T
    <2>1. \A s \in SUBSET S : Cardinality(s) = 0 => s = {} /\ {b[x] : x \in s} = {}
      BY Smaller
    <2>2. IsFiniteSet({}) /\ Sum(g, {}) = 0 /\ Sum(f, {}) = 0
      BY FS_EmptySet, SumStep
    <2> QED
      BY <2>1, <2>2
  <1>2. ASSUME NEW n \in Nat, n \in T
        PROVE  n + 1 \in T
    <2> SUFFICES ASSUME NEW s \in SUBSET S, Cardinality(s) = n + 1
                 PROVE  /\ IsFiniteSet({b[x] : x \in s})
                        /\ Sum(g, {b[x] : x \in s}) = Sum(f, s)
      OBVIOUS
    <2>1. PICK y : y \in s
      BY FS_EmptySet
    <2> DEFINE r == s \ {y}
               B == {b[x] : x \in s}
               C == {b[x] : x \in r}
    <2>2. r \in SUBSET S /\ Cardinality(r) = n /\ IsFiniteSet(s)
      BY <2>1, Smaller
    <2>3. IsFiniteSet(C) /\ Sum(g, C) = Sum(f, r)
      BY <1>2, <2>2
    <2>4. B = C \cup {b[y]} /\ B \ {b[y]} = C /\ b[y] \in B
      BY <2>1
    <2>5. \A z \in B : g[z] \in Nat
      OBVIOUS
    <2>6. Sum(f, s) = f[y] + Sum(f, r)
      BY <2>1, <2>2, SumOne
    <2> HIDE DEF r, B, C
    <2>7. IsFiniteSet(B)
      BY <2>3, <2>4, FS_AddElement
    <2>8. Sum(g, B) = g[b[y]] + Sum(g, B \ {b[y]})
      BY <2>4, <2>5, <2>7, SumOne
    <2>9. Sum(g, B) = Sum(f, s)
      BY <2>1, <2>3, <2>4, <2>6, <2>8
    <2> QED
      BY <2>7, <2>9 DEF B
  <1>3. Cardinality(S) \in Nat
    BY FS_CardinalityType
  <1> HIDE DEF T
  <1>4. Cardinality(S) \in T
    BY <1>1, <1>2, <1>3, Induct
  <1> QED
    BY <1>4 DEF T

----------------------------------------------------------------------------
(* The places of the ring.                                                 *)

LEMMA OtherPlace ==
    ASSUME NEW p \in Nat \ {0}, NEW a \in Nat, NEW b \in Nat, a < b, b < a + p
    PROVE  a % p # b % p
  <1> SUFFICES ASSUME a % p = b % p
               PROVE  FALSE
    OBVIOUS
  <1>1. PICK q \in Nat, r \in 0 .. p - 1 : q = a \div p /\ r = a % p /\ a = q * p + r
    BY DivMod
  <1>2. PICK s \in Nat : s = b \div p /\ b = s * p + r
    <2>1. b \div p \in Nat /\ b = (b \div p) * p + (b % p)
      BY DivMod
    <2>2. b % p = r
      BY <1>1
    <2> QED
      BY <2>1, <2>2
  <1>3. PICK x \in Nat, y \in Nat : x = q * p /\ y = s * p
    OBVIOUS
  <1>4. q < s => x + p <= y
    BY <1>3, Larger
  <1>5. s <= q => y <= x
    BY <1>3, Larger
  <1>6. a = x + r /\ b = y + r
    BY <1>1, <1>2, <1>3
  <1> QED
    BY <1>4, <1>5, <1>6

LEMMA EveryPlace ==
    ASSUME NEW p \in Nat \ {0}, NEW a \in Nat, NEW r \in 0 .. p - 1
    PROVE  \E k \in 0 .. p - 1 : (a + k) % p = r
  <1>1. PICK q \in Nat, m \in 0 .. p - 1 : a = q * p + m
    BY DivMod
  <1>2. CASE m <= r
    <2>1. PICK k \in 0 .. p - 1 : k = r - m
      BY <1>2
    <2>2. PICK c \in Nat : c = a + k /\ c = q * p + r
      BY <1>1, <2>1
    <2>3. c % p = r
      BY <1>1, <2>2, PlaceOf
    <2> QED
      BY <2>2, <2>3
  <1>3. CASE r < m
    <2>1. PICK k \in 0 .. p - 1 : k = r - m + p
      BY <1>3
    <2>2. PICK n \in Nat : n = q + 1 /\ n * p = q * p + p
      BY <1>1
    <2>3. PICK x \in Nat : x = q * p
      BY <1>1
    <2>4. PICK c \in Nat : c = a + k /\ c = n * p + r
      BY <1>1, <2>1, <2>2, <2>3
    <2>5. c = n * p + r
      BY <2>4
    <2>6. c % p = r
      BY <2>5, PlaceOf
    <2> QED
      BY <2>4, <2>6
  <1> QED
    BY <1>2, <1>3

----------------------------------------------------------------------------
(* The lines of this run and their places.                                 *)

Old == IF flog THEN logFile ELSE <<>>

\* The number of line k, when the first d lines are numbered 0.
Number(k, d) == MaxOf(k - d, 0)

Numbered(d) ==
    \A k \in 1 .. Len(Old) : Old[k].step \div opts.logPeriod = Number(k, d)

\* The ring holds the newest lines; only the very first may have been
\* written over by another with its number.
Placed(d) ==
    \A k \in 1 .. Len(Old) :
        Len(Old) < k + RunAvgLen /\ (d = 2 => k # 1) =>
            ring[Slot(Number(k, d))] = Old[k].size

Averaging ==
    flog => average = Mean(ring, MinOf(Old[Len(Old)].step \div opts.logPeriod, RunAvgLen))

RingTypes ==
    /\ ring \in [0 .. RunAvgLen - 1 -> Sizes \cup {0}]
    /\ average \in [sum : Nat, n : Nat \ {0}]
    /\ growth \in {-1, 0, 1} /\ ereal \in Nat /\ finished \in BOOLEAN

LEMMA NumberNat ==
    ASSUME NEW k \in Nat, NEW d \in Nat
    PROVE  Number(k, d) \in Nat /\ k - d <= Number(k, d)
  BY DEF Number, MaxOf

LEMMA SlotType ==
    ASSUME NEW n \in Nat
    PROVE  Slot(n) \in 0 .. RunAvgLen - 1
  BY DivMod, ReconstructionAssumption DEF Slot

LEMMA SizesAreNumbers ==
    ASSUME NEW s \in Sizes \cup {0}
    PROVE  s \in Nat /\ (s \in Sizes => s \in Nat \ {0})
  <1>1. Sizes \subseteq Nat \ {0}
    BY ReconstructionAssumption
  <1> QED
    BY <1>1

LEMMA MeanType ==
    ASSUME NEW list \in [0 .. RunAvgLen - 1 -> Sizes \cup {0}], NEW n \in 0 .. RunAvgLen
    PROVE  /\ Mean(list, n) = [sum |-> Sum(list, 0 .. n - 1), n |-> MaxOf(n, 1)]
           /\ Sum(list, 0 .. n - 1) \in Nat /\ MaxOf(n, 1) \in Nat \ {0}
           /\ Mean(list, n) \in [sum : Nat, n : Nat \ {0}]
  <1>1. RunAvgLen \in Nat /\ n \in Nat /\ n <= RunAvgLen
    BY ReconstructionAssumption
  <1>2. IsFiniteSet(0 .. n - 1)
    BY <1>1, FS_Interval
  <1>3. ASSUME NEW x \in 0 .. n - 1 PROVE list[x] \in Nat
    <2>1. x \in 0 .. RunAvgLen - 1
      BY <1>1
    <2>2. list[x] \in Sizes \cup {0}
      BY <2>1
    <2> QED
      BY <2>2, SizesAreNumbers
  <1>4. Sum(list, 0 .. n - 1) \in Nat
    BY <1>2, <1>3, SumStep
  <1>5. MaxOf(n, 1) \in Nat \ {0}
    BY <1>1 DEF MaxOf
  <1>6. Mean(list, n) = [sum |-> Sum(list, 0 .. n - 1), n |-> MaxOf(n, 1)]
    BY DEF Mean, Sum
  <1> QED
    BY <1>4, <1>5, <1>6

\* The average of no place at all.
LEMMA MeanOfNone ==
    ASSUME NEW list \in [0 .. RunAvgLen - 1 -> Sizes \cup {0}]
    PROVE  Mean(list, 0) = [sum |-> 0, n |-> 1]
  <1>1. 0 \in 0 .. RunAvgLen /\ 0 .. 0 - 1 = {}
    BY ReconstructionAssumption
  <1>2. Sum(list, {}) = 0
    BY SumStep, FS_EmptySet
  <1>3. MaxOf(0, 1) = 1
    BY DEF MaxOf
  <1> QED
    BY <1>1, <1>2, <1>3, MeanType

\* And that of the first place.
LEMMA MeanOfOne ==
    ASSUME NEW list \in [0 .. RunAvgLen - 1 -> Sizes \cup {0}]
    PROVE  Mean(list, 1) = [sum |-> list[0], n |-> 1] /\ list[0] \in Nat
  <1>1. 1 \in 0 .. RunAvgLen /\ 0 .. 1 - 1 = {0} /\ list[0] \in Nat
    <2>1. 0 \in 0 .. RunAvgLen - 1 /\ 1 \in 0 .. RunAvgLen
      BY ReconstructionAssumption
    <2>2. list[0] \in Sizes \cup {0}
      BY <2>1
    <2>3. list[0] \in Nat
      BY <2>2, SizesAreNumbers
    <2>4. 0 .. 1 - 1 = {0}
      OBVIOUS
    <2> QED
      BY <2>1, <2>3, <2>4
  <1>2. Sum(list, {0}) = list[0]
    <2>1. IsFiniteSet({0}) /\ \A x \in {0} : list[x] \in Nat
      BY <1>1, FS_Singleton
    <2>2. 0 \in {0} /\ {0} \ {0} = {}
      OBVIOUS
    <2>3. Sum(list, {0}) = list[0] + Sum(list, {0} \ {0})
      BY <2>1, <2>2, SumOne
    <2>4. Sum(list, {}) = 0
      BY SumStep, FS_EmptySet
    <2>5. Sum(list, {0}) = list[0] + 0
      BY <2>2, <2>3, <2>4
    <2> QED
      BY <1>1, <2>5
  <1>3. MaxOf(1, 1) = 1
    BY DEF MaxOf
  <1> QED
    BY <1>1, <1>2, <1>3, MeanType
\* What a line does, whatever its number.
LEMMA NewLine ==
    ASSUME LoopTypes, NEW step \in Nat, OutputToLog(step)
    PROVE  \E s \in Sizes, m \in Nat :
               /\ m = step \div opts.logPeriod
               /\ Len(Old) \in Nat /\ Len(Old') = Len(Old) + 1
               /\ \A k \in 1 .. Len(Old) : Old'[k] = Old[k]
               /\ Old'[Len(Old) + 1] = [step |-> step, size |-> s]
               /\ ring' = [ring EXCEPT ![Slot(m)] = s]
               /\ average' = Mean(ring', MinOf(m, RunAvgLen))
               /\ growth' = Sign(average'.sum * average.n - average.sum * average'.n)
               /\ flog' = TRUE /\ ereal' \in Errors
               /\ (finished \in BOOLEAN => finished' \in BOOLEAN)
  <1>1. PICK m \in Nat : m = step \div opts.logPeriod
    BY OptionTypes, DivMod
  <1>2. PICK e \in Errors, s \in Sizes :
            /\ flog' = TRUE
            /\ logFile' = Append(Old, [step |-> step, size |-> s])
            /\ ring' = [ring EXCEPT ![Slot(m)] = s]
            /\ average' = Mean(ring', MinOf(m, RunAvgLen))
            /\ growth' = Sign(average'.sum * average.n - average.sum * average'.n)
            /\ ereal' = e
            /\ finished' = (finished \/ e < opts.tolerance)
    BY <1>1 DEF OutputToLog, Old
  <1> DEFINE line == [step |-> step, size |-> s]
             old == Old
  <1>3. old \in Lines /\ line \in [step : Nat, size : Sizes]
    BY DEF LoopTypes, Lines, Old
  <1>4. Old' = logFile'
    BY <1>2 DEF Old
  <1>5. logFile' = Append(old, line)
    BY <1>2
  <1> HIDE DEF old, line
  <1>6. /\ Len(logFile') = Len(old) + 1 /\ Len(old) \in Nat
        /\ \A k \in 1 .. Len(old) : logFile'[k] = old[k]
        /\ logFile'[Len(old) + 1] = line
    BY <1>3, <1>5, AppendProperties DEF Lines
  <1>7. /\ Len(Old) \in Nat /\ Len(Old') = Len(Old) + 1
        /\ \A k \in 1 .. Len(Old) : Old'[k] = Old[k]
        /\ Old'[Len(Old) + 1] = [step |-> step, size |-> s]
    BY <1>4, <1>6 DEF old, line
  <1>8. ereal' \in Errors /\ (finished \in BOOLEAN => finished' \in BOOLEAN)
    BY <1>2
  <1> QED
    BY <1>1, <1>2, <1>7, <1>8

LEMMA SignIs ==
    ASSUME NEW i \in Int
    PROVE  Sign(i) \in {-1, 0, 1} /\ (i > 0 => Sign(i) = 1) /\ (i = 0 => Sign(i) = 0)
  BY DEF Sign

LEMMA RingTypesKept ==
    ASSUME LoopTypes, RingTypes, NEW step \in Nat, OutputToLog(step)
    PROVE  RingTypes'
  <1>1. PICK s \in Sizes, m \in Nat :
            /\ ring' = [ring EXCEPT ![Slot(m)] = s]
            /\ average' = Mean(ring', MinOf(m, RunAvgLen))
            /\ growth' = Sign(average'.sum * average.n - average.sum * average'.n)
            /\ ereal' \in Errors
            /\ (finished \in BOOLEAN => finished' \in BOOLEAN)
    BY NewLine
  <1>2. ring' \in [0 .. RunAvgLen - 1 -> Sizes \cup {0}]
    BY <1>1, SlotType DEF RingTypes
  <1>3. MinOf(m, RunAvgLen) \in 0 .. RunAvgLen
    BY ReconstructionAssumption DEF MinOf
  <1>4. average' \in [sum : Nat, n : Nat \ {0}]
    <2>1. PICK list \in [0 .. RunAvgLen - 1 -> Sizes \cup {0}], w \in 0 .. RunAvgLen :
              list = ring' /\ w = MinOf(m, RunAvgLen)
      BY <1>2, <1>3
    <2>2. average' = Mean(list, w)
      BY <1>1, <2>1
    <2>3. Mean(list, w) \in [sum : Nat, n : Nat \ {0}]
      BY MeanType
    <2> QED
      BY <2>2, <2>3
  <1>5. growth' \in {-1, 0, 1}
    <2>1. PICK a \in Nat, b \in Nat, c \in Nat, d \in Nat :
              a = average'.sum /\ b = average.n /\ c = average.sum /\ d = average'.n
      BY <1>4 DEF RingTypes
    <2>2. PICK i \in Int : i = a * b - c * d
      OBVIOUS
    <2>3. growth' = Sign(i)
      BY <1>1, <2>1, <2>2
    <2> QED
      BY <2>3, SignIs
  <1>6. ereal' \in Nat /\ finished' \in BOOLEAN
    BY <1>1, ReconstructionAssumption DEF RingTypes
  <1> QED
    BY <1>2, <1>4, <1>5, <1>6 DEF RingTypes

\* Two of the newest lines never share a place, but for the very first two
\* when both are numbered 0.
LEMMA OwnPlace ==
    ASSUME NEW d \in 0 .. 2, NEW n \in Nat, NEW k \in 1 .. n - 1,
           n < k + RunAvgLen, d = 2 => k # 1
    PROVE  Slot(Number(k, d)) # Slot(Number(n, d))
  <1>0. d \in Nat /\ k \in Nat /\ n \in Nat
    OBVIOUS
  <1>1. PICK a \in Nat, b \in Nat : a = Number(k, d) /\ b = Number(n, d)
    BY <1>0, NumberNat
  <1>2. a = k - d /\ b = n - d
    BY <1>1 DEF Number, MaxOf
  <1>3. RunAvgLen \in Nat \ {0} /\ a < b /\ b < a + RunAvgLen
    BY <1>2, ReconstructionAssumption
  <1>4. a % RunAvgLen # b % RunAvgLen
    BY <1>3, OtherPlace
  <1> QED
    BY <1>1, <1>4 DEF Slot

\* A line that carries the next number leaves the lines where they are.
LEMMA LineKept ==
    ASSUME LoopTypes, RingTypes, NEW d \in 0 .. 2, Numbered(d), Placed(d),
           NEW step \in Nat, OutputToLog(step),
           step \div opts.logPeriod = Number(Len(Old) + 1, d),
           opts'.logPeriod = opts.logPeriod
    PROVE  Numbered(d)' /\ Placed(d)' /\ Averaging'
  <1>1. PICK s \in Sizes, m \in Nat :
            /\ m = step \div opts.logPeriod
            /\ Len(Old) \in Nat /\ Len(Old') = Len(Old) + 1
            /\ \A k \in 1 .. Len(Old) : Old'[k] = Old[k]
            /\ Old'[Len(Old) + 1] = [step |-> step, size |-> s]
            /\ ring' = [ring EXCEPT ![Slot(m)] = s]
            /\ average' = Mean(ring', MinOf(m, RunAvgLen))
            /\ flog' = TRUE
    BY NewLine
  <1>2. PICK n \in Nat : n = Len(Old) + 1 /\ m = Number(n, d)
    BY <1>1
  <1>3. Slot(m) \in 0 .. RunAvgLen - 1
    BY SlotType
  <1>4. Len(Old') = n /\ Old'[n] = [step |-> step, size |-> s] /\ n >= 1
        /\ \A k \in 1 .. n - 1 : k \in 1 .. Len(Old) /\ Old'[k] = Old[k]
    BY <1>1, <1>2
  <1>5. ASSUME NEW k \in 1 .. n
        PROVE  Old'[k].step \div opts'.logPeriod = Number(k, d)
    <2>1. CASE k = n
      BY <1>1, <1>2, <1>4, <2>1
    <2>2. CASE k # n
      <3>1. k \in 1 .. Len(Old) /\ Old'[k] = Old[k]
        BY <1>4, <2>2
      <3> QED
        BY <3>1 DEF Numbered
    <2> QED
      BY <2>1, <2>2
  <1>6. ASSUME NEW k \in 1 .. n, n < k + RunAvgLen, d = 2 => k # 1
        PROVE  ring'[Slot(Number(k, d))] = Old'[k].size
    <2>1. CASE k = n
      BY <1>1, <1>2, <1>3, <1>4, <2>1 DEF RingTypes
    <2>2. CASE k # n
      <3>1. k \in 1 .. n - 1 /\ k \in 1 .. Len(Old) /\ Old'[k] = Old[k]
        BY <1>4, <2>2
      <3>2. Slot(Number(k, d)) # Slot(m)
        BY <1>2, <1>6, <3>1, OwnPlace
      <3>3. Len(Old) < k + RunAvgLen
        BY <1>1, <1>2, <1>6, <3>1, ReconstructionAssumption
      <3>4. ring[Slot(Number(k, d))] = Old[k].size
        BY <1>6, <3>1, <3>3 DEF Placed
      <3>5. Slot(Number(k, d)) \in 0 .. RunAvgLen - 1
        <4>1. d \in Nat /\ k \in Nat
          BY <3>1
        <4>2. PICK a \in Nat : a = Number(k, d)
          BY <4>1, NumberNat
        <4> QED
          BY <4>2, SlotType
      <3> QED
        BY <1>1, <3>1, <3>2, <3>4, <3>5 DEF RingTypes
    <2> QED
      BY <2>1, <2>2
  <1>7. Averaging'
    <2>1. Old'[Len(Old')].step \div opts'.logPeriod = m
      BY <1>1, <1>4
    <2> QED
      BY <1>1, <2>1 DEF Averaging
  <1>8. Numbered(d)'
    BY <1>4, <1>5 DEF Numbered
  <1>9. Placed(d)'
    BY <1>4, <1>6 DEF Placed
  <1> QED
    BY <1>7, <1>8, <1>9
\* The lines numbered 0: the legacy loop numbers from the current iteration.
FirstLines == IF opts.logPeriod = 1 THEN 2 ELSE 1

Lined ==
    \E d \in 0 .. 2 :
        /\ InClean => d = 0
        /\ InLegacy \/ pc = "first" => d = FirstLines
        /\ Numbered(d) /\ Placed(d)

\* How many lines there are at each point.
LEMMA LineCount ==
    ASSUME LoopTypes, Written
    PROVE  /\ pc = "first" => Len(Old) = 0
           /\ InClean => Len(Old) = cur \div opts.logPeriod
           /\ InLegacy => Len(Old) = (cur \div opts.logPeriod) + FirstLines - 1
  <1>1. PICK p \in Nat \ {0}, q \in Nat :
            p = opts.logPeriod /\ q = cur \div opts.logPeriod
    <2>1. opts.logPeriod \in Nat \ {0} /\ cur \in Nat
      BY OptionTypes DEF LoopTypes
    <2> QED
      BY <2>1, DivMod
  <1>2. ~flog => Len(Old) = 0
    BY DEF Old
  <1>3. flog => Len(Old) = Len(Steps)
    BY DEF Old, Steps, LoopTypes, Lines
  <1>4. CASE pc = "first"
    BY <1>2, <1>4 DEF Written, InClean, InLegacy
  <1>5. CASE InClean
    <2>1. flog => Len(Steps) = q
      BY <1>1, <1>5 DEF Written, Grid
    <2>2. ~flog => q = 0
      BY <1>1, <1>5 DEF Written
    <2> QED
      BY <1>1, <1>2, <1>3, <1>5, <2>1, <2>2 DEF InClean, InLegacy
  <1>6. CASE InLegacy
    <2>1. flog => Len(Steps) = q + FirstLines - 1
      <3>1. flog => Steps = OpenLine(p) \o Grid(q, p, 1)
        BY <1>1, <1>6 DEF Written
      <3>2. Grid(q, p, 1) \in Seq(Int) /\ Len(Grid(q, p, 1)) = q
        BY DEF Grid
      <3>3. OpenLine(p) \in Seq(Int) /\ Len(OpenLine(p)) = FirstLines - 1
        BY <1>1 DEF OpenLine, FirstLines
      <3> QED
        BY <1>1, <3>1, <3>2, <3>3, ConcatProperties
    <2>2. ~flog => q = 0 /\ FirstLines = 1
      BY <1>1, <1>6 DEF Written, FirstLines
    <2> QED
      BY <1>1, <1>2, <1>3, <1>6, <2>1, <2>2 DEF InClean, InLegacy
  <1> QED
    BY <1>4, <1>5, <1>6

\* What writes no line changes nothing of the log but the algorithm.
LEMMA LinesRest ==
    ASSUME NEW d \in 0 .. 2, Numbered(d), Placed(d), UNCHANGED <<flog, logFile, ring>>,
           opts'.logPeriod = opts.logPeriod
    PROVE  Numbered(d)' /\ Placed(d)'
  <1>1. Old' = Old
    BY DEF Old
  <1> QED
    BY <1>1 DEF Numbered, Placed

LEMMA AveragingRests ==
    ASSUME Averaging, UNCHANGED logVars, opts'.logPeriod = opts.logPeriod
    PROVE  Averaging'
  <1>1. Old' = Old
    BY DEF Old, logVars
  <1> QED
    BY <1>1 DEF Averaging, logVars

\* The line an iteration of the legacy loop writes carries the next number.
LEMMA LegacyNumber ==
    ASSUME LoopTypes, Written, pc \in {"first", "iterate"}, LastOf(opts.logPeriod)
    PROVE  cur \div opts.logPeriod = Number(Len(Old) + 1, FirstLines)
  <1>1. PICK p \in Nat \ {0}, q \in Nat :
            p = opts.logPeriod /\ q = cur \div opts.logPeriod
    <2>1. opts.logPeriod \in Nat \ {0} /\ cur \in Nat
      BY OptionTypes DEF LoopTypes
    <2> QED
      BY <2>1, DivMod
  <1>2. FirstLines \in 1 .. 2
    BY DEF FirstLines
  <1>3. CASE pc = "first"
    <2>1. cur = 0 /\ Len(Old) = 0
      BY <1>3, LineCount DEF Written
    <2>2. q = 0
      BY <1>1, <2>1, NoneYet
    <2> QED
      BY <1>1, <1>2, <2>1, <2>2 DEF Number, MaxOf
  <1>4. CASE pc = "iterate"
    <2>1. Len(Old) = q + FirstLines - 1
      BY <1>1, <1>4, LineCount DEF InLegacy
    <2>2. PICK d \in 1 .. 2 : d = FirstLines
      BY <1>2
    <2>3. Len(Old) + 1 = q + d
      BY <2>1, <2>2
    <2>4. Number(q + d, d) = q
      BY DEF Number, MaxOf
    <2> QED
      BY <1>1, <2>2, <2>3, <2>4
  <1> QED
    BY <1>3, <1>4

LEMMA LegacyLined ==
    ASSUME LoopTypes, RingTypes, Written, Lined, Averaging,
           pc \in {"first", "iterate"}, Iterate
    PROVE  Numbered(FirstLines)' /\ Placed(FirstLines)' /\ Averaging'
  <1>1. PICK d \in 0 .. 2 : d = FirstLines /\ Numbered(d) /\ Placed(d)
    BY DEF Lined, InLegacy
  <1>2. opts'.logPeriod = opts.logPeriod
    BY DEF Iterate, LoopTypes, Options
  <1>3. FirstLines' = d
    BY <1>1, <1>2 DEF FirstLines
  <1>4. Numbered(d)' /\ Placed(d)' /\ Averaging'
    <2>1. CASE LastOf(opts.logPeriod)
      <3>1. PICK step \in Nat : step = cur /\ OutputToLog(step)
        BY <2>1 DEF Iterate, LoopTypes
      <3>2. step \div opts.logPeriod = Number(Len(Old) + 1, d)
        BY <1>1, <2>1, <3>1, LegacyNumber
      <3> QED
        BY <1>1, <1>2, <3>1, <3>2, LineKept
    <2>2. CASE ~LastOf(opts.logPeriod)
      <3>1. UNCHANGED logVars
        BY <2>2 DEF Iterate
      <3>2. UNCHANGED <<flog, logFile, ring>>
        BY <3>1 DEF logVars
      <3> QED
        BY <1>1, <1>2, <3>1, <3>2, LinesRest, AveragingRests
    <2> QED
      BY <2>1, <2>2
  <1> QED
    BY <1>3, <1>4 DEF Numbered, Placed

LEMMA CleanLined ==
    ASSUME LoopTypes, LoopTypes', RingTypes, Written, Lined, Averaging, CleanRound
    PROVE  Numbered(0)' /\ Placed(0)' /\ Averaging'
  <1> DEFINE op == opts.outputPeriod
             lp == opts.logPeriod
             n == ShortestRound(ToNext(op), ToNext(lp))
  <1>1. op \in Nat \ {0} /\ lp \in Nat \ {0} /\ cur \in Nat
    BY OptionTypes DEF LoopTypes
  <1>2. /\ InClean /\ cur' = cur + n /\ opts' = opts /\ cur' \in Nat
        /\ IF n = ToNext(lp) THEN OutputToLog(cur') ELSE UNCHANGED logVars
    BY DEF CleanRound, InClean, LoopTypes
  <1>3. /\ ToNext(op) \in 1 .. op
        /\ ToNext(lp) \in 1 .. lp /\ ToNext(lp) = lp - (cur % lp)
    BY <1>1, RoundLength
  <1>4. n \in Nat \ {0} /\ n <= ToNext(lp)
    BY <1>3 DEF ShortestRound, MinOf
  <1>5. Numbered(0) /\ Placed(0) /\ Len(Old) = cur \div lp
    BY <1>2, LineCount DEF Lined
  <1>6. opts'.logPeriod = opts.logPeriod /\ 0 \in 0 .. 2
    BY <1>2
  <1> HIDE DEF op, lp, n
  <1>7. CASE n = ToNext(lp)
    <2>1. cur' \div lp = cur \div lp + 1
      <3>1. n <= lp - (cur % lp) /\ n = lp - (cur % lp)
        BY <1>3, <1>7
      <3>2. (cur + n) \div lp = cur \div lp + 1
        BY <1>1, <1>4, <3>1, Advance
      <3> QED
        BY <1>2, <3>2
    <2>2. cur' \div lp = Number(Len(Old) + 1, 0)
      <3>1. PICK q \in Nat : q = cur \div lp
        BY <1>1, DivMod
      <3> QED
        BY <1>5, <2>1, <3>1 DEF Number, MaxOf
    <2>3. PICK step \in Nat : step = cur' /\ OutputToLog(step)
      BY <1>2, <1>7
    <2>4. step \div opts.logPeriod = Number(Len(Old) + 1, 0)
      BY <2>2, <2>3 DEF lp
    <2> QED
      BY <1>5, <1>6, <2>3, <2>4, LineKept
  <1>8. CASE n # ToNext(lp)
    <2>1. UNCHANGED logVars
      BY <1>2, <1>8
    <2>2. UNCHANGED <<flog, logFile, ring>>
      BY <2>1 DEF logVars
    <2> QED
      BY <1>5, <1>6, <2>1, <2>2, LinesRest, AveragingRests
  <1> QED
    BY <1>7, <1>8
RingInv == RingTypes /\ Lined /\ Averaging

LEMMA EmptyLog ==
    /\ [i \in 0 .. RunAvgLen - 1 |-> 0] \in [0 .. RunAvgLen - 1 -> Sizes \cup {0}]
    /\ [sum |-> 0, n |-> 1] \in [sum : Nat, n : Nat \ {0}]
    /\ -1 \in {-1, 0, 1} /\ 1 \in Nat
  OBVIOUS

LEMMA RingInit == Init => RingInv
  <1> SUFFICES ASSUME Init PROVE RingInv
    OBVIOUS
  <1>1. RingTypes
    <2>1. /\ ring = [i \in 0 .. RunAvgLen - 1 |-> 0] /\ average = [sum |-> 0, n |-> 1]
          /\ growth = -1 /\ ereal = 1
      BY DEF Init
    <2>2. finished \in BOOLEAN
      BY DEF Init
    <2> QED
      BY <2>1, <2>2, EmptyLog DEF RingTypes
  <1>2. flog = FALSE /\ pc = "start" /\ Len(Old) = 0
    BY DEF Init, Old
  <1>3. Numbered(0) /\ Placed(0)
    BY <1>2 DEF Numbered, Placed
  <1>4. Lined
    BY <1>2, <1>3 DEF Lined, InClean, InLegacy
  <1>5. Averaging
    BY <1>2 DEF Averaging
  <1> QED
    BY <1>1, <1>4, <1>5 DEF RingInv

\* A step that writes no line and starts no run.
LEMMA RingRests ==
    ASSUME RingInv, UNCHANGED logVars, opts'.logPeriod = opts.logPeriod,
           InClean' => InClean, InLegacy' \/ pc' = "first" => InLegacy \/ pc = "first"
    PROVE  RingInv'
  <1>1. PICK d \in 0 .. 2 :
            /\ InClean => d = 0
            /\ InLegacy \/ pc = "first" => d = FirstLines
            /\ Numbered(d) /\ Placed(d)
    BY DEF RingInv, Lined
  <1>2. UNCHANGED <<flog, logFile, ring>>
    BY DEF logVars
  <1>3. Numbered(d)' /\ Placed(d)'
    BY <1>1, <1>2, LinesRest
  <1>4. FirstLines' = FirstLines
    BY DEF FirstLines
  <1>5. Lined'
    BY <1>1, <1>3, <1>4 DEF Lined
  <1>6. Averaging'
    BY AveragingRests DEF RingInv
  <1>7. RingTypes'
    BY DEF RingInv, RingTypes, logVars
  <1> QED
    BY <1>5, <1>6, <1>7 DEF RingInv

LEMMA IterateRing ==
    ASSUME LoopTypes, RingInv, Written, pc \in {"first", "iterate"}, pc' = "head", Iterate
    PROVE  RingInv'
  <1>1. PICK d \in 0 .. 2 : d = FirstLines'
    BY DEF FirstLines
  <1>2. Numbered(FirstLines)' /\ Placed(FirstLines)' /\ Averaging'
    BY LegacyLined DEF RingInv
  <1>3. Lined'
    <2>1. Numbered(d)' /\ Placed(d)'
      BY <1>1, <1>2 DEF Numbered, Placed
    <2>2. ~InClean'
      BY DEF InClean
    <2> QED
      BY <1>1, <2>1, <2>2 DEF Lined
  <1>4. RingTypes'
    <2>1. CASE LastOf(opts.logPeriod)
      <3>1. OutputToLog(cur) /\ cur \in Nat
        BY <2>1 DEF Iterate, LoopTypes
      <3> QED
        BY <3>1, RingTypesKept DEF RingInv
    <2>2. CASE ~LastOf(opts.logPeriod)
      BY <2>2 DEF Iterate, RingInv, RingTypes, logVars
    <2> QED
      BY <2>1, <2>2
  <1> QED
    BY <1>2, <1>3, <1>4 DEF RingInv

LEMMA RingStep ==
    ASSUME LoopTypes, LoopTypes', Written, RingInv, [Next]_vars
    PROVE  RingInv'
  <1>0. SameOptions /\ opts'.logPeriod = opts.logPeriod
    BY TypesStep DEF SameOptions
  <1> USE DEF InClean, InLegacy
  <1>1. CASE Stop
    BY <1>0, <1>1, RingRests DEF Stop
  <1>2. CASE UwrapcStart
    BY <1>0, <1>2, RingRests DEF UwrapcStart
  <1>3. CASE Begin
    <2>1. /\ flog' = FALSE /\ average' = [sum |-> 0, n |-> 1] /\ growth' = -1 /\ ereal' = 1
          /\ ring' = [i \in 0 .. RunAvgLen - 1 |-> 0]
          /\ pc' \in {"clean", "first"} /\ (finished' = finished \/ finished' = FALSE)
      BY <1>3 DEF Begin, InitLog
    <2>2. RingTypes'
      <3>1. finished' \in BOOLEAN
        <4>1. finished \in BOOLEAN
          BY DEF RingInv, RingTypes
        <4> QED
          BY <2>1, <4>1
      <3> QED
        BY <2>1, <3>1, EmptyLog DEF RingTypes
    <2>3. Len(Old') = 0
      BY <2>1 DEF Old
    <2>4. ASSUME NEW d \in 0 .. 2 PROVE Numbered(d)' /\ Placed(d)'
      BY <2>3 DEF Numbered, Placed
    <2>5. Lined'
      <3>1. PICK f \in 0 .. 2 : f = FirstLines'
        BY DEF FirstLines
      <3>2. CASE pc' = "clean"
        <4>1. 0 \in 0 .. 2 /\ Numbered(0)' /\ Placed(0)'
          BY <2>4
        <4> QED
          BY <3>2, <4>1 DEF Lined
      <3>3. CASE pc' = "first"
        <4>1. Numbered(f)' /\ Placed(f)'
          BY <2>4
        <4> QED
          BY <3>1, <3>3, <4>1 DEF Lined
      <3> QED
        BY <2>1, <3>2, <3>3
    <2>6. Averaging'
      BY <2>1 DEF Averaging
    <2> QED
      BY <2>2, <2>5, <2>6 DEF RingInv
  <1>4. CASE CleanRound
    <2>1. Numbered(0)' /\ Placed(0)' /\ Averaging' /\ 0 \in 0 .. 2
      BY <1>4, CleanLined DEF RingInv
    <2>2. pc' = "clean"
      BY <1>4 DEF CleanRound
    <2>3. Lined'
      BY <2>1, <2>2 DEF Lined
    <2>4. RingTypes'
      <3>1. CASE OutputToLog(cur')
        <4>1. PICK step \in Nat : step = cur' /\ OutputToLog(step)
          BY <3>1 DEF LoopTypes
        <4> QED
          BY <4>1, RingTypesKept DEF RingInv
      <3>2. CASE UNCHANGED logVars
        BY <3>2 DEF RingInv, RingTypes, logVars
      <3> QED
        BY <1>4, <3>1, <3>2 DEF CleanRound
    <2> QED
      BY <2>1, <2>3, <2>4 DEF RingInv
  <1>5. CASE CleanEnd
    BY <1>0, <1>5, RingRests DEF CleanEnd, NextRun
  <1>6. CASE FirstIteration
    BY <1>6, IterateRing DEF FirstIteration
  <1>7. CASE Accumulate
    BY <1>0, <1>7, RingRests DEF Accumulate
  <1>8. CASE LoopExit
    BY <1>0, <1>8, RingRests DEF LoopExit
  <1>9. CASE UpdateSupport
    <2>1. UNCHANGED logVars /\ pc = "update" /\ pc' \in {"exited", "end", "output"}
      BY <1>9 DEF UpdateSupport
    <2> QED
      BY <1>0, <2>1, RingRests
  <1>10. CASE WriteImages
    BY <1>0, <1>10, RingRests DEF WriteImages
  <1>11. CASE IterateInLoop
    BY <1>11, IterateRing DEF IterateInLoop
  <1>12. CASE LegacyEnd
    BY <1>0, <1>12, RingRests DEF LegacyEnd, NextRun
  <1>13. CASE DoubleFree
    BY <1>0, <1>13, RingRests DEF DoubleFree
  <1>14. CASE UNCHANGED vars
    BY <1>0, <1>14, RingRests DEF vars
  <1> QED
    BY <1>1, <1>2, <1>3, <1>4, <1>5, <1>6, <1>7, <1>8, <1>9, <1>10, <1>11, <1>12,
       <1>13, <1>14 DEF Next, Step

\* The sum over the ring is the sum over the lines it holds.
LEMMA RingSum ==
    ASSUME NEW d \in 0 .. 2, NEW n \in Nat, n >= d + RunAvgLen,
           NEW f, \A k \in n - RunAvgLen + 1 .. n : f[k] \in Nat,
           NEW list, \A k \in n - RunAvgLen + 1 .. n : list[Slot(Number(k, d))] = f[k]
    PROVE  Sum(list, 0 .. RunAvgLen - 1) = Sum(f, n - RunAvgLen + 1 .. n)
  <1>1. PICK p \in Nat \ {0} : p = RunAvgLen
    BY ReconstructionAssumption
  <1>2. PICK a \in Nat : a = n - p + 1 - d
    BY <1>1
  <1> DEFINE S == n - p + 1 .. n
             b == [k \in S |-> (k - d) % p]
             B == {b[k] : k \in S}
  <1>3. ASSUME NEW k \in S
        PROVE  k - d \in Nat /\ k \in Nat /\ Slot(Number(k, d)) = b[k]
    <2>1. k \in Nat /\ k - d > 0 /\ k - d \in Nat
      BY <1>1
    <2>2. Number(k, d) = k - d
      BY <2>1 DEF Number, MaxOf
    <2> QED
      BY <1>1, <2>1, <2>2 DEF Slot
  <1>4. \A k \in S : list[b[k]] = f[k]
    BY <1>1, <1>3
  <1>5. ASSUME NEW x \in S, NEW y \in S, b[x] = b[y]
        PROVE  x = y
    <2>1. PICK u \in Nat, v \in Nat : u = x - d /\ v = y - d
      BY <1>3
    <2>2. u % p = v % p
      BY <1>5, <2>1
    <2>3. u < v + p /\ v < u + p
      BY <2>1
    <2>4. ~(u < v) /\ ~(v < u)
      BY <2>2, <2>3, OtherPlace
    <2> QED
      BY <2>1, <2>4
  <1>6. B = 0 .. p - 1
    <2>1. ASSUME NEW k \in S PROVE b[k] \in 0 .. p - 1
      <3>1. PICK u \in Nat : u = k - d
        BY <1>3
      <3>2. u % p \in 0 .. p - 1
        BY DivMod
      <3> QED
        BY <3>1, <3>2
    <2>2. ASSUME NEW r \in 0 .. p - 1 PROVE r \in B
      <3>1. PICK j \in 0 .. p - 1 : (a + j) % p = r
        BY EveryPlace
      <3>2. PICK k \in S : k = a + j + d /\ k - d = a + j
        BY <1>2
      <3>3. b[k] = r
        BY <3>1, <3>2
      <3> QED
        BY <3>3
    <2> QED
      BY <2>1, <2>2
  <1>7. IsFiniteSet(S)
    BY <1>1, FS_Interval
  <1>8. \A k \in S : f[k] \in Nat
    BY <1>1
  <1> HIDE DEF b, S
  <1>9. Sum(list, B) = Sum(f, S)
    BY <1>4, <1>5, <1>7, <1>8, SumRenamed
  <1> QED
    BY <1>1, <1>6, <1>9 DEF S
LEMMA RingSuffices ==
    ASSUME LoopTypes, RingInv
    PROVE  RunningAverageExact
  <1> SUFFICES ASSUME NEW n \in Nat, n = Len(logFile), flog, n > 0,
                      logFile[n].step \div opts.logPeriod >= RunAvgLen
               PROVE  average = [sum |-> SumFunctionOnSet(
                                             [i \in 1 .. n |-> logFile[i].size],
                                             n - RunAvgLen + 1 .. n),
                                 n |-> RunAvgLen]
    <2>1. Len(logFile) \in Nat
      BY DEF LoopTypes, Lines
    <2> QED
      BY <2>1 DEF RunningAverageExact
  <1>1. PICK p \in Nat \ {0} : p = RunAvgLen
    BY ReconstructionAssumption
  <1>2. PICK d \in 0 .. 2 : Numbered(d) /\ Placed(d)
    BY DEF RingInv, Lined
  <1>3. Old = logFile /\ Len(Old) = n
    BY DEF Old
  <1>4. PICK m \in Nat : m = logFile[n].step \div opts.logPeriod /\ m = Number(n, d)
    <2>1. n \in 1 .. Len(Old)
      BY <1>3
    <2>2. logFile[n].step \div opts.logPeriod = Number(n, d)
      BY <1>2, <1>3, <2>1 DEF Numbered
    <2>3. d \in Nat
      OBVIOUS
    <2>4. Number(n, d) \in Nat
      BY <2>3, NumberNat
    <2> QED
      BY <2>2, <2>4
  <1>5. m >= p
    BY <1>1, <1>4
  <1>6. n >= d + p
    BY <1>1, <1>4, <1>5 DEF Number, MaxOf
  <1> DEFINE f == [i \in 1 .. n |-> logFile[i].size]
  <1>7. ASSUME NEW k \in n - p + 1 .. n
        PROVE  f[k] \in Nat /\ ring[Slot(Number(k, d))] = f[k]
    <2>1. k \in 1 .. n /\ n < k + p /\ k > d
      BY <1>1, <1>6
    <2>2. logFile[k] \in [step : Nat, size : Sizes]
      BY <1>3, <2>1, ElementOfSeq DEF LoopTypes, Lines
    <2>3. logFile[k].size \in Nat
      BY <2>2, SizesAreNumbers
    <2>4. ring[Slot(Number(k, d))] = logFile[k].size
      BY <1>1, <1>2, <1>3, <2>1 DEF Placed
    <2> QED
      BY <2>1, <2>3, <2>4
  <1> HIDE DEF f
  <1>8. PICK list \in [0 .. RunAvgLen - 1 -> Sizes \cup {0}] : list = ring
    BY DEF RingInv, RingTypes
  <1>9. Sum(list, 0 .. p - 1) = Sum(f, n - p + 1 .. n)
    <2>1. n >= d + RunAvgLen
      BY <1>1, <1>6
    <2>2. \A k \in n - RunAvgLen + 1 .. n : f[k] \in Nat
      BY <1>1, <1>7
    <2>3. \A k \in n - RunAvgLen + 1 .. n : list[Slot(Number(k, d))] = f[k]
      BY <1>1, <1>7, <1>8
    <2>4. Sum(list, 0 .. RunAvgLen - 1) = Sum(f, n - RunAvgLen + 1 .. n)
      BY <2>1, <2>2, <2>3, RingSum
    <2> QED
      BY <1>1, <2>4
  <1>10. average = Mean(list, p)
    <2>1. average = Mean(ring, MinOf(m, p))
      BY <1>1, <1>3, <1>4 DEF RingInv, Averaging
    <2>2. MinOf(m, p) = p
      BY <1>1, <1>5 DEF MinOf
    <2> QED
      BY <1>8, <2>1, <2>2
  <1>11. Mean(list, p) = [sum |-> Sum(list, 0 .. p - 1), n |-> MaxOf(p, 1)]
    <2>1. p \in 0 .. RunAvgLen
      BY <1>1
    <2> QED
      BY <2>1, MeanType
  <1>12. MaxOf(p, 1) = p
    BY <1>1 DEF MaxOf
  <1> QED
    BY <1>1, <1>9, <1>10, <1>11, <1>12 DEF f, Sum

\* Whatever the length of the ring and the log period, in both loops: once the
\* ring is full, the running average is the mean of the sizes on the newest
\* lines, in spite of the count that lags behind by one.
THEOREM AverageOfTheNewest == Spec => []RunningAverageExact
  <1>1. Init => LoopTypes /\ Written /\ RingInv
    BY TypesInit, WrittenInit, RingInit
  <1>2. LoopTypes /\ Written /\ RingInv /\ [Next]_vars => LoopTypes' /\ Written' /\ RingInv'
    BY TypesStep, WrittenStep, RingStep
  <1>3. LoopTypes /\ RingInv => RunningAverageExact
    BY RingSuffices
  <1> QED
    BY <1>1, <1>2, <1>3, PTL DEF Spec

----------------------------------------------------------------------------
(* The switch from HIO to RAAR.                                            *)

NoAverage == [sum |-> 0, n |-> 1]
LastNumber == logFile[Len(logFile)].step \div opts.logPeriod

\* With no line, and with lines numbered 0 only, the average is empty.
NotYet == opts.algorithm = "HIO" /\ growth \in {-1, 0} /\ average = NoAverage

Switching ==
    opts.automatic =>
        /\ pc = "first" => NotYet
        /\ InLegacy /\ ~flog => NotYet
        /\ InLegacy /\ flog =>
               /\ ring[0] \in Sizes
               /\ LastNumber = 0 => NotYet
               /\ LastNumber = 1 => growth = 1
               /\ LastNumber > 1 => opts.algorithm = "RAAR"

\* What a line of number m does to the switch.
LEMMA SwitchLine ==
    ASSUME LoopTypes, RingTypes, NEW step \in Nat, OutputToLog(step),
           NEW m \in Nat, m = step \div opts.logPeriod, m # 0 => ring[0] \in Sizes,
           m = 1 => average = NoAverage, m = 0 => average = NoAverage
    PROVE  /\ ring'[0] \in Sizes
           /\ m = 0 => growth' = 0 /\ average' = NoAverage
           /\ m = 1 => growth' = 1
  <1>1. PICK s \in Sizes :
            /\ ring' = [ring EXCEPT ![Slot(m)] = s]
            /\ average' = Mean(ring', MinOf(m, RunAvgLen))
            /\ growth' = Sign(average'.sum * average.n - average.sum * average'.n)
    BY NewLine
  <1>2. PICK p \in Nat \ {0} : p = RunAvgLen
    BY ReconstructionAssumption
  <1>3. 0 \in 0 .. RunAvgLen - 1 /\ Slot(m) \in 0 .. RunAvgLen - 1
    BY <1>2, SlotType
  <1>4. PICK list \in [0 .. RunAvgLen - 1 -> Sizes \cup {0}] : list = ring'
    BY <1>1, <1>3 DEF RingTypes
  <1>5. Slot(0) = 0
    BY <1>2, NoneYet DEF Slot
  <1>6. list[0] \in Sizes
    <2>1. CASE m = 0
      BY <1>1, <1>3, <1>4, <1>5, <2>1 DEF RingTypes
    <2>2. CASE m # 0
      BY <1>1, <1>3, <1>4, <2>2 DEF RingTypes
    <2> QED
      BY <2>1, <2>2
  <1>7. ASSUME m = 0
        PROVE  growth' = 0 /\ average' = NoAverage
    <2>1. MinOf(m, RunAvgLen) = 0
      BY <1>2, <1>7 DEF MinOf
    <2>2. average' = NoAverage
      BY <1>1, <1>4, <2>1, MeanOfNone DEF NoAverage
    <2>3. average = NoAverage
      BY <1>7
    <2>4. average'.sum * average.n - average.sum * average'.n = 0
      BY <2>2, <2>3 DEF NoAverage
    <2> QED
      BY <1>1, <2>2, <2>4 DEF Sign
  <1>8. ASSUME m = 1
        PROVE  growth' = 1
    <2>1. MinOf(m, RunAvgLen) = 1
      BY <1>2, <1>8 DEF MinOf
    <2>2. average' = [sum |-> list[0], n |-> 1]
      BY <1>1, <1>4, <2>1, MeanOfOne
    <2>3. PICK t \in Nat \ {0} : t = list[0]
      <3>1. list[0] \in Sizes \cup {0}
        BY <1>6
      <3> QED
        BY <1>6, <3>1, SizesAreNumbers
    <2>4. average = NoAverage
      BY <1>8
    <2>5. average'.sum * average.n - average.sum * average'.n = t
      BY <2>2, <2>3, <2>4 DEF NoAverage
    <2> QED
      BY <1>1, <2>5 DEF Sign
  <1> QED
    BY <1>4, <1>6, <1>7, <1>8
\* The legacy loop has a log file only with a line in it.
LEMMA LinesThere ==
    ASSUME LoopTypes, Written, InLegacy, flog
    PROVE  Len(Old) \in Nat /\ Len(Old) > 0
  <1>1. PICK d \in 1 .. 2 : d = FirstLines
    BY DEF FirstLines
  <1>2. PICK q \in Nat : q = cur \div opts.logPeriod
    <2>1. opts.logPeriod \in Nat \ {0} /\ cur \in Nat
      BY OptionTypes DEF LoopTypes
    <2> QED
      BY <2>1, DivMod
  <1>3. Len(Old) = q + d - 1
    BY <1>1, <1>2, LineCount
  <1>4. q > 0 \/ d = 2
    BY <1>1, <1>2 DEF Written, FirstLines
  <1> QED
    BY <1>3, <1>4

\* The number of the last line, and of the one that is due.
LEMMA Numbers ==
    ASSUME LoopTypes, Written, RingInv, InLegacy, flog
    PROVE  \E n \in Nat, m \in Nat :
               /\ n = LastNumber /\ m = Number(Len(Old) + 1, FirstLines)
               /\ m \in {n, n + 1} /\ (n > 0 => m = n + 1)
  <1>1. PICK d \in 1 .. 2 : d = FirstLines /\ Numbered(d)
    BY DEF RingInv, Lined, FirstLines
  <1>2. PICK k \in Nat : k = Len(Old) /\ k = Len(logFile) /\ k > 0
    BY LinesThere DEF Old
  <1>3. LastNumber = Number(k, d)
    <2>1. k \in 1 .. Len(Old)
      BY <1>2
    <2>2. Old[k].step \div opts.logPeriod = Number(k, d)
      BY <1>1, <2>1 DEF Numbered
    <2> QED
      BY <1>2, <2>2 DEF LastNumber, Old
  <1>4. PICK n \in Nat, m \in Nat : n = Number(k, d) /\ m = Number(k + 1, d)
    <2>1. d \in Nat /\ k + 1 \in Nat
      OBVIOUS
    <2> QED
      BY <2>1, NumberNat
  <1>5. m \in {n, n + 1} /\ (n > 0 => m = n + 1)
    BY <1>4 DEF Number, MaxOf
  <1> QED
    BY <1>1, <1>2, <1>3, <1>4, <1>5

\* What an iteration does to the algorithm.
LEMMA NextAlgorithm ==
    ASSUME LoopTypes, Iterate, opts.automatic
    PROVE  /\ opts'.algorithm = IF growth > 0 THEN "RAAR" ELSE opts.algorithm
           /\ opts'.logPeriod = opts.logPeriod /\ opts'.automatic
  <1>1. opts' = [opts EXCEPT !.algorithm = GetAlgorithm] /\ opts \in Options
    BY DEF Iterate, LoopTypes
  <1>2. /\ opts'.algorithm = GetAlgorithm /\ opts'.logPeriod = opts.logPeriod
        /\ opts'.automatic = opts.automatic
    BY <1>1 DEF Options
  <1> QED
    BY <1>2 DEF GetAlgorithm

\* An iteration that writes no line.
LEMMA SwitchQuiet ==
    ASSUME LoopTypes, Written, Switching, opts.automatic,
           pc \in {"first", "iterate"}, Iterate, ~LastOf(opts.logPeriod)
    PROVE  /\ ~flog' => NotYet'
           /\ flog' => /\ ring'[0] \in Sizes
                       /\ LastNumber' = 0 => NotYet'
                       /\ LastNumber' = 1 => growth' = 1
                       /\ LastNumber' > 1 => opts'.algorithm = "RAAR"
  <1>1. /\ opts'.algorithm = IF growth > 0 THEN "RAAR" ELSE opts.algorithm
        /\ opts'.logPeriod = opts.logPeriod
    BY NextAlgorithm
  <1>2. UNCHANGED logVars
    BY DEF Iterate
  <1>3. /\ flog' = flog /\ ring' = ring /\ growth' = growth /\ average' = average
        /\ LastNumber' = LastNumber
    BY <1>1, <1>2 DEF logVars, LastNumber
  <1>4. NotYet => NotYet'
    BY <1>1, <1>3 DEF NotYet
  <1>5. CASE ~flog
    <2>1. NotYet
      BY <1>5 DEF Switching, InLegacy
    <2> QED
      BY <1>3, <1>4, <1>5, <2>1
  <1>6. CASE flog
    <2>1. pc = "iterate"
      BY <1>6 DEF Written
    <2>2. /\ ring[0] \in Sizes
          /\ LastNumber = 0 => NotYet
          /\ LastNumber = 1 => growth = 1
          /\ LastNumber > 1 => opts.algorithm = "RAAR"
      BY <1>6, <2>1 DEF Switching, InLegacy
    <2> QED
      BY <1>1, <1>3, <1>4, <1>6, <2>2
  <1> QED
    BY <1>5, <1>6

\* An iteration that writes one.
LEMMA SwitchLogged ==
    ASSUME LoopTypes, Written, RingInv, Switching, opts.automatic,
           pc \in {"first", "iterate"}, Iterate, LastOf(opts.logPeriod)
    PROVE  /\ flog' /\ ring'[0] \in Sizes
           /\ LastNumber' = 0 => NotYet'
           /\ LastNumber' = 1 => growth' = 1
           /\ LastNumber' > 1 => opts'.algorithm = "RAAR"
  <1>1. /\ opts'.algorithm = IF growth > 0 THEN "RAAR" ELSE opts.algorithm
        /\ opts'.logPeriod = opts.logPeriod
    BY NextAlgorithm
  <1>2. PICK step \in Nat : step = cur /\ OutputToLog(step)
    BY DEF Iterate, LoopTypes
  <1>3. PICK m \in Nat : m = step \div opts.logPeriod /\ m = Number(Len(Old) + 1, FirstLines)
    <2>1. opts.logPeriod \in Nat \ {0}
      BY OptionTypes
    <2>2. step \div opts.logPeriod \in Nat
      BY <2>1, DivMod
    <2> QED
      BY <1>2, <2>2, LegacyNumber
  <1>4. flog' /\ LastNumber' = m
    <2>1. PICK s \in Sizes :
              /\ Len(Old) \in Nat /\ Len(Old') = Len(Old) + 1
              /\ Old'[Len(Old) + 1] = [step |-> step, size |-> s]
              /\ flog' = TRUE
      BY <1>2, NewLine
    <2>2. Old' = logFile'
      BY <2>1 DEF Old
    <2>3. logFile'[Len(logFile')].step = step
      BY <2>1, <2>2
    <2> QED
      BY <1>1, <1>3, <2>1, <2>3 DEF LastNumber
  <1>5. /\ m # 0 => ring[0] \in Sizes
        /\ m \in {0, 1} => NotYet
        /\ m > 1 => growth = 1 \/ opts.algorithm = "RAAR"
    <2>1. CASE ~flog
      <3>1. m = 0
        <4>1. Len(Old) = 0
          BY <2>1 DEF Old
        <4>2. Number(0 + 1, FirstLines) = 0
          BY DEF Number, MaxOf, FirstLines
        <4> QED
          BY <1>3, <4>1, <4>2
      <3>2. NotYet
        BY <2>1 DEF Switching, InLegacy
      <3> QED
        BY <3>1, <3>2
    <2>2. CASE flog
      <3>1. pc = "iterate"
        BY <2>2 DEF Written
      <3>2. PICK n \in Nat : n = LastNumber /\ m \in {n, n + 1} /\ (n > 0 => m = n + 1)
        BY <1>3, <2>2, <3>1, Numbers DEF InLegacy
      <3>3. /\ ring[0] \in Sizes
            /\ n = 0 => NotYet
            /\ n = 1 => growth = 1
            /\ n > 1 => opts.algorithm = "RAAR"
        BY <2>2, <3>1, <3>2 DEF Switching, InLegacy
      <3>4. (m \in {0, 1} => n = 0) /\ (m > 1 => n >= 1)
        BY <3>2
      <3> QED
        BY <3>3, <3>4
    <2> QED
      BY <2>1, <2>2
  <1>6. m \in {0, 1} => average = NoAverage
    BY <1>5 DEF NotYet
  <1>7. /\ ring'[0] \in Sizes
        /\ m = 0 => growth' = 0 /\ average' = NoAverage
        /\ m = 1 => growth' = 1
    BY <1>2, <1>3, <1>5, <1>6, SwitchLine DEF RingInv
  <1>8. m = 0 => NotYet'
    BY <1>1, <1>5, <1>7 DEF NotYet, NoAverage
  <1>9. m > 1 => opts'.algorithm = "RAAR"
    BY <1>1, <1>5
  <1> QED
    BY <1>4, <1>7, <1>8, <1>9

LEMMA SwitchIteration ==
    ASSUME LoopTypes, Written, RingInv, Switching, SameOptions,
           pc \in {"first", "iterate"}, pc' = "head", Iterate
    PROVE  Switching'
  <1>1. CASE ~opts.automatic
    BY <1>1 DEF Switching, SameOptions
  <1>2. CASE opts.automatic
    <2>1. /\ ~flog' => NotYet'
          /\ flog' => /\ ring'[0] \in Sizes
                      /\ LastNumber' = 0 => NotYet'
                      /\ LastNumber' = 1 => growth' = 1
                      /\ LastNumber' > 1 => opts'.algorithm = "RAAR"
      <3>1. CASE LastOf(opts.logPeriod)
        BY <1>2, <3>1, SwitchLogged
      <3>2. CASE ~LastOf(opts.logPeriod)
        BY <1>2, <3>2, SwitchQuiet
      <3> QED
        BY <3>1, <3>2
    <2> QED
      BY <2>1 DEF Switching
  <1> QED
    BY <1>1, <1>2

\* A step that writes no line and chooses no algorithm.
LEMMA SwitchRests ==
    ASSUME Switching, UNCHANGED logVars, opts'.algorithm = opts.algorithm,
           opts'.logPeriod = opts.logPeriod, opts'.automatic = opts.automatic,
           InLegacy' => InLegacy, pc' = "first" => pc = "first"
    PROVE  Switching'
  <1>1. /\ flog' = flog /\ ring' = ring /\ growth' = growth /\ average' = average
        /\ LastNumber' = LastNumber
    BY DEF logVars, LastNumber
  <1>2. NotYet' = NotYet
    BY <1>1 DEF NotYet, NoAverage
  <1> QED
    BY <1>1, <1>2 DEF Switching

LEMMA SwitchStep ==
    ASSUME LoopTypes, LoopTypes', Written, RingInv, Switching, [Next]_vars
    PROVE  Switching'
  <1>0. SameOptions
    BY TypesStep
  <1> USE DEF InLegacy
  <1>a. ASSUME UNCHANGED logVars, opts' = opts, InLegacy' => InLegacy, pc' # "first"
        PROVE  Switching'
    BY <1>a, SwitchRests
  <1>1. CASE Stop
    <2>1. opts' = [opts EXCEPT !.maxIterations = 1] /\ opts \in Options
      BY <1>1 DEF Stop, LoopTypes
    <2>2. /\ opts'.algorithm = opts.algorithm /\ opts'.logPeriod = opts.logPeriod
          /\ opts'.automatic = opts.automatic
      BY <2>1 DEF Options
    <2> QED
      BY <1>1, <2>2, SwitchRests DEF Stop
  <1>2. CASE UwrapcStart
    BY <1>2, <1>a DEF UwrapcStart
  <1>3. CASE Begin
    <2>1. pc' = "clean" \/ (pc' = "first" /\ (opts.automatic => opts'.algorithm = "HIO"))
      BY <1>3 DEF Begin, LoopTypes, Options
    <2>2. growth' = -1 /\ average' = [sum |-> 0, n |-> 1]
      BY <1>3 DEF Begin, InitLog
    <2>3. opts'.automatic = opts.automatic
      BY <1>0 DEF SameOptions
    <2> QED
      BY <2>1, <2>2, <2>3 DEF Switching, NotYet, NoAverage
  <1>4. CASE CleanRound
    BY <1>4 DEF CleanRound, Switching
  <1>5. CASE CleanEnd
    BY <1>5, <1>a DEF CleanEnd, NextRun
  <1>6. CASE FirstIteration
    BY <1>0, <1>6, SwitchIteration DEF FirstIteration
  <1>7. CASE Accumulate
    BY <1>7, <1>a DEF Accumulate
  <1>8. CASE LoopExit
    BY <1>8, <1>a DEF LoopExit
  <1>9. CASE UpdateSupport
    <2>1. /\ UNCHANGED logVars /\ opts' = opts /\ pc = "update"
          /\ pc' \in {"exited", "end", "output"}
      BY <1>9 DEF UpdateSupport
    <2> QED
      BY <1>a, <2>1
  <1>10. CASE WriteImages
    BY <1>10, <1>a DEF WriteImages
  <1>11. CASE IterateInLoop
    BY <1>0, <1>11, SwitchIteration DEF IterateInLoop
  <1>12. CASE LegacyEnd
    BY <1>12, <1>a DEF LegacyEnd, NextRun
  <1>13. CASE DoubleFree
    BY <1>13, <1>a DEF DoubleFree
  <1>14. CASE UNCHANGED vars
    BY <1>14, SwitchRests DEF vars
  <1> QED
    BY <1>1, <1>2, <1>3, <1>4, <1>5, <1>6, <1>7, <1>8, <1>9, <1>10, <1>11, <1>12,
       <1>13, <1>14 DEF Next, Step
\* Whatever the data, the lengths and the tolerance: the automatic mode stays
\* with HIO as long as its lines are numbered 0, always finds that the support
\* has grown at the line numbered 1, and is with RAAR from then on.
THEOREM SwitchIgnoresData == Spec => []SwitchIsBlind
  <1>1. Init => LoopTypes /\ Written /\ RingInv /\ Switching
    <2>1. Init => Switching
      BY DEF Init, Switching, InLegacy
    <2> QED
      BY <2>1, TypesInit, WrittenInit, RingInit
  <1>2. LoopTypes /\ Written /\ RingInv /\ Switching /\ [Next]_vars
        => LoopTypes' /\ Written' /\ RingInv' /\ Switching'
    BY TypesStep, WrittenStep, RingStep, SwitchStep
  <1>3. LoopTypes /\ Written /\ RingInv /\ Switching => SwitchIsBlind
    <2> SUFFICES ASSUME LoopTypes, Written, RingInv, Switching, InLegacy, opts.automatic,
                        NEW n, n = Len(logFile)
                 PROVE  /\ ~flog \/ logFile[n].step < opts.logPeriod => opts.algorithm = "HIO"
                        /\ flog /\ logFile[n].step \div opts.logPeriod = 1 => growth = 1
                        /\ flog /\ logFile[n].step \div opts.logPeriod > 1
                               => opts.algorithm = "RAAR"
      BY DEF SwitchIsBlind
    <2>1. ~flog => opts.algorithm = "HIO"
      BY DEF Switching, NotYet
    <2>2. CASE flog
      <3>1. /\ LastNumber = 0 => opts.algorithm = "HIO"
            /\ LastNumber = 1 => growth = 1
            /\ LastNumber > 1 => opts.algorithm = "RAAR"
        BY <2>2 DEF Switching, NotYet
      <3>2. LastNumber = logFile[n].step \div opts.logPeriod
        BY DEF LastNumber
      <3>3. logFile[n].step < opts.logPeriod => LastNumber = 0
        <4>1. PICK p \in Nat \ {0} : p = opts.logPeriod
          BY OptionTypes
        <4>2. n \in 1 .. Len(logFile)
          <5>1. Len(Old) \in Nat /\ Len(Old) > 0
            BY <2>2, LinesThere
          <5> QED
            BY <2>2, <5>1 DEF Old
        <4>3. logFile[n] \in [step : Nat, size : Sizes]
          BY <4>2, ElementOfSeq DEF LoopTypes, Lines
        <4>4. PICK s \in Nat : s = logFile[n].step
          BY <4>3
        <4>5. ASSUME s < p PROVE s \div p = 0
          <5>1. s = 0 * p + s /\ s \in 0 .. p - 1 /\ 0 \in Nat
            BY <4>5
          <5> QED
            BY <5>1, PlaceOf
        <4> QED
          BY <3>2, <4>1, <4>4, <4>5
      <3> QED
        BY <2>2, <3>1, <3>2, <3>3
    <2> QED
      BY <2>1, <2>2
  <1> QED
    BY <1>1, <1>2, <1>3, PTL DEF Spec

----------------------------------------------------------------------------
(* Types.                                                                  *)

Rest ==
    /\ run \in 0 .. MaxRuns /\ (pc \notin Ended => run < MaxRuns)
    /\ realIn \in {"image", "freed"} /\ stalled \in Nat /\ images \in Seq(Nat)

LEMMA NextRunTypes ==
    ASSUME run \in 0 .. MaxRuns, run < MaxRuns, NextRun
    PROVE  run' \in 0 .. MaxRuns /\ (pc' \notin Ended => run' < MaxRuns)
  BY ReconstructionAssumption DEF NextRun, Ended

LEMMA RestStep ==
    ASSUME LoopTypes, LoopTypes', Rest, [Next]_vars
    PROVE  Rest'
  <1> USE DEF Rest, Ended
  <1>1. CASE Stop
    BY <1>1 DEF Stop, loopVars
  <1>2. CASE UwrapcStart
    BY <1>2 DEF UwrapcStart, loopVars
  <1>3. CASE Begin
    <2>1. <<>> \in Seq(Nat)
      OBVIOUS
    <2>2. /\ pc = "begin" /\ run' = run /\ realIn' = "image" /\ stalled' = 0 /\ images' = <<>>
      BY <1>3 DEF Begin
    <2> QED
      BY <2>1, <2>2
  <1>4. CASE CleanRound
    <2>1. /\ pc = "clean" /\ pc' = "clean" /\ run' = run /\ realIn' = realIn
          /\ stalled' = stalled
          /\ cur' = cur + ShortestRound(ToNext(opts.outputPeriod), ToNext(opts.logPeriod))
          /\ images' = Append(images, cur' - 1) \/ images' = images
      BY <1>4 DEF CleanRound
    <2>2. cur' - 1 \in Nat
      <3>1. /\ ToNext(opts.outputPeriod) \in 1 .. opts.outputPeriod
            /\ ToNext(opts.logPeriod) \in 1 .. opts.logPeriod
            /\ opts.outputPeriod \in Nat /\ opts.logPeriod \in Nat /\ cur \in Nat
        BY OptionTypes, RoundLength DEF LoopTypes
      <3>2. PICK o \in Nat \ {0}, l \in Nat \ {0} :
                o = ToNext(opts.outputPeriod) /\ l = ToNext(opts.logPeriod)
        BY <3>1
      <3>3. PICK n \in Nat \ {0} : n = ShortestRound(o, l)
        BY DEF ShortestRound, MinOf
      <3>4. cur' = cur + n
        BY <2>1, <3>2, <3>3
      <3> QED
        BY <3>1, <3>4
    <2>3. images' \in Seq(Nat)
      BY <2>1, <2>2, AppendProperties
    <2> QED
      BY <2>1, <2>3
  <1>5. CASE CleanEnd
    BY <1>5, NextRunTypes DEF CleanEnd, loopVars
  <1>6. CASE FirstIteration
    BY <1>6 DEF FirstIteration, loopVars
  <1>7. CASE Accumulate
    BY <1>7 DEF Accumulate
  <1>8. CASE LoopExit
    BY <1>8 DEF LoopExit, loopVars
  <1>9. CASE UpdateSupport
    BY <1>9 DEF UpdateSupport
  <1>10. CASE WriteImages
    <2>1. /\ pc = "output" /\ run' = run /\ realIn' = realIn /\ stalled' = stalled
          /\ images' = Append(images, cur) \/ images' = images
      BY <1>10 DEF WriteImages
    <2>2. cur \in Nat /\ images \in Seq(Nat)
      BY DEF LoopTypes
    <2>3. images' \in Seq(Nat)
      BY <2>1, <2>2, AppendProperties
    <2> QED
      BY <2>1, <2>3
  <1>11. CASE IterateInLoop
    BY <1>11 DEF IterateInLoop
  <1>12. CASE LegacyEnd
    BY <1>12, NextRunTypes DEF LegacyEnd, loopVars
  <1>13. CASE DoubleFree
    BY <1>13 DEF DoubleFree, loopVars
  <1>14. CASE UNCHANGED vars
    BY <1>14 DEF vars, loopVars
  <1> QED
    BY <1>1, <1>2, <1>3, <1>4, <1>5, <1>6, <1>7, <1>8, <1>9, <1>10, <1>11, <1>12,
       <1>13, <1>14 DEF Next, Step

\* Every variable keeps its type, the ring and the average among them, and no
\* automatic reconstruction makes more runs than it may.
THEOREM TypeCorrect == Spec => []TypeOK
  <1>1. Init => LoopTypes /\ Written /\ RingInv /\ Rest
    <2>1. Init => Rest
      BY ReconstructionAssumption DEF Init, Rest
    <2> QED
      BY <2>1, TypesInit, WrittenInit, RingInit
  <1>2. LoopTypes /\ Written /\ RingInv /\ Rest /\ [Next]_vars
        => LoopTypes' /\ Written' /\ RingInv' /\ Rest'
    BY TypesStep, WrittenStep, RingStep, RestStep
  <1>3. LoopTypes /\ RingInv /\ Rest => TypeOK
    BY DEF LoopTypes, Lines, RingInv, RingTypes, Rest, TypeOK
  <1> QED
    BY <1>1, <1>2, <1>3, PTL DEF Spec

----------------------------------------------------------------------------
(* The end of a reconstruction that was stopped.                           *)

\* A stop leaves a limit of one iteration.
Stops == stopped => opts.maxIterations = 1

LEMMA StopsStep ==
    ASSUME LoopTypes, Stops, [Next]_vars
    PROVE  Stops'
  <1> USE DEF Stops
  <1>1. CASE Stop
    BY <1>1 DEF Stop, LoopTypes, Options
  <1>2. CASE Begin
    BY <1>2 DEF Begin, LoopTypes, Options
  <1>3. ASSUME Iterate PROVE opts'.maxIterations = opts.maxIterations
    BY <1>3 DEF Iterate, LoopTypes, Options
  <1>4. CASE FirstIteration \/ IterateInLoop
    BY <1>3, <1>4 DEF FirstIteration, IterateInLoop
  <1>5. CASE UwrapcStart \/ CleanRound \/ CleanEnd \/ Accumulate \/ LoopExit
    BY <1>5 DEF UwrapcStart, CleanRound, CleanEnd, Accumulate, LoopExit
  <1>6. CASE UpdateSupport \/ WriteImages \/ LegacyEnd \/ DoubleFree \/ UNCHANGED vars
    BY <1>6 DEF UpdateSupport, WriteImages, LegacyEnd, DoubleFree, vars
  <1> QED
    BY <1>1, <1>2, <1>4, <1>5, <1>6 DEF Next, Step

\* How many steps a run that was stopped has before it at most: once an
\* iteration is done, the head of either loop leads to its end.
Rank ==
    CASE pc = "start" -> 11
      [] pc = "begin" -> 10
      [] pc = "first" -> 9
      [] pc = "head" -> IF cur = 0 THEN 8 ELSE 2
      [] pc = "update" -> 7
      [] pc = "output" -> 6
      [] pc = "iterate" -> 5
      [] pc = "clean" -> IF cur = 0 THEN 4 ELSE 3
      [] pc = "end" -> 1
      [] OTHER -> 0

\* An automatic reconstruction has the runs it has not begun before it as well.
StepsLeft == (MaxRuns - run) * 11 + Rank

\* A round is never empty.
LEMMA RoundsAdvance ==
    ASSUME LoopTypes, CleanRound
    PROVE  cur' > 0
  <1>1. /\ ToNext(opts.outputPeriod) \in 1 .. opts.outputPeriod
        /\ ToNext(opts.logPeriod) \in 1 .. opts.logPeriod
        /\ opts.outputPeriod \in Nat /\ opts.logPeriod \in Nat /\ cur \in Nat
    BY OptionTypes, RoundLength DEF LoopTypes
  <1>2. PICK o \in Nat \ {0}, l \in Nat \ {0} :
            o = ToNext(opts.outputPeriod) /\ l = ToNext(opts.logPeriod)
    BY <1>1
  <1>3. PICK n \in Nat \ {0} : n = ShortestRound(o, l)
    BY DEF ShortestRound, MinOf
  <1>4. cur' = cur + n
    BY <1>2, <1>3 DEF CleanRound
  <1> QED
    BY <1>1, <1>4

LEMMA Difference == \A n \in Nat : \A m \in 0 .. n : n - m \in Nat
  OBVIOUS

LEMMA StepsAreNumbers ==
    ASSUME LoopTypes, Rest
    PROVE  StepsLeft \in Nat /\ Rank \in 0 .. 11 /\ MaxRuns - run \in Nat
  <1>1. Rank \in 0 .. 11
    BY DEF Rank, LoopTypes, Ended
  <1>2. MaxRuns - run \in Nat
    BY ReconstructionAssumption DEF Rest
  <1> QED
    BY <1>1, <1>2 DEF StepsLeft

\* Within a run the rank falls ...
LEMMA RankFalls ==
    ASSUME LoopTypes, LoopTypes', Stops, stopped, Step, ~CleanEnd, ~LegacyEnd
    PROVE  run' = run /\ Rank' < Rank
  <1> USE DEF Rank
  <1>0. cur \in Nat /\ (Limited <=> cur > 0)
    BY DEF Limited, Stops, LoopTypes
  <1>1. CASE UwrapcStart
    BY <1>1 DEF UwrapcStart
  <1>2. CASE Begin
    <2>1. pc = "begin" /\ pc' \in {"clean", "first"} /\ cur' = 0 /\ run' = run
      BY <1>2 DEF Begin
    <2> QED
      BY <2>1
  <1>3. CASE CleanRound
    <2>1. pc = "clean" /\ pc' = "clean" /\ cur = 0 /\ run' = run
      BY <1>0, <1>3 DEF CleanRound
    <2>2. cur' > 0 /\ cur' \in Nat
      BY <1>3, RoundsAdvance DEF LoopTypes
    <2> QED
      BY <2>1, <2>2
  <1>4. CASE FirstIteration
    BY <1>4 DEF FirstIteration, loopVars
  <1>5. CASE Accumulate
    <2>1. pc = "head" /\ pc' \in {"update", "output"} /\ cur = 0 /\ run' = run
      BY <1>0, <1>5 DEF Accumulate, LoopOver
    <2> QED
      BY <2>1
  <1>6. CASE LoopExit
    BY <1>6 DEF LoopExit
  <1>7. CASE UpdateSupport
    <2>1. pc = "update" /\ pc' \in {"exited", "end", "output"} /\ run' = run
      BY <1>7 DEF UpdateSupport
    <2> QED
      BY <2>1
  <1>8. CASE WriteImages
    BY <1>8 DEF WriteImages
  <1>9. CASE IterateInLoop
    <2>1. pc = "iterate" /\ pc' = "head" /\ cur' = cur + 1 /\ run' = run
      BY <1>9 DEF IterateInLoop
    <2> QED
      BY <1>0, <2>1
  <1>10. CASE DoubleFree
    BY <1>10 DEF DoubleFree
  <1> QED
    BY <1>1, <1>2, <1>3, <1>4, <1>5, <1>6, <1>7, <1>8, <1>9, <1>10 DEF Step

\* ... and a new run begins at 10, but is one run less.
LEMMA StepsFall ==
    ASSUME LoopTypes, LoopTypes', Rest, Rest', Stops, stopped, Step
    PROVE  StepsLeft' \in Nat /\ StepsLeft' < StepsLeft
  <1>1. /\ StepsLeft' \in Nat /\ Rank \in 0 .. 11 /\ Rank' \in 0 .. 11
        /\ MaxRuns - run \in Nat
    <2>1. Rank' \in 0 .. 11
      BY DEF Rank, LoopTypes, Ended
    <2>2. MaxRuns - run' \in Nat
      BY ReconstructionAssumption, Difference DEF Rest
    <2>3. StepsLeft' \in Nat
      BY <2>1, <2>2 DEF StepsLeft
    <2> QED
      BY <2>1, <2>3, StepsAreNumbers
  <1>2. CASE CleanEnd \/ LegacyEnd
    <2>1. pc \in {"clean", "end"} /\ pc' \in {"begin", "done"} /\ run' = run + 1
      BY <1>2 DEF CleanEnd, LegacyEnd, NextRun
    <2>2. Rank > 0 /\ Rank' < 11
      BY <2>1 DEF Rank
    <2>3. run \in Nat /\ MaxRuns \in Nat
      BY ReconstructionAssumption DEF Rest
    <2>4. MaxRuns - run' = (MaxRuns - run) - 1
      BY <2>1, <2>3
    <2> QED
      BY <1>1, <2>2, <2>4 DEF StepsLeft
  <1>3. CASE ~CleanEnd /\ ~LegacyEnd
    <2>1. run' = run /\ Rank' < Rank
      BY <1>3, RankFalls
    <2> QED
      BY <1>1, <2>1 DEF StepsLeft
  <1> QED
    BY <1>2, <1>3

\* Once stopReconstruction has been called, every step of the program leaves
\* fewer to take: at most one iteration or one round of the run under way, and
\* as little of each automatic run that is left.  It cannot go on for ever.
THEOREM StopWindsDown ==
    Spec => [][stopped /\ Step => StepsLeft' \in Nat /\ StepsLeft' < StepsLeft]_vars
  <1>1. Init => LoopTypes /\ Rest /\ Stops
    <2>1. Init => Rest /\ Stops
      BY ReconstructionAssumption DEF Init, Rest, Stops
    <2> QED
      BY <2>1, TypesInit
  <1>2. LoopTypes /\ Rest /\ Stops /\ [Next]_vars => LoopTypes' /\ Rest' /\ Stops'
    BY TypesStep, RestStep, StopsStep
  <1>3. LoopTypes /\ LoopTypes' /\ Rest /\ Rest' /\ Stops
        => [stopped /\ Step => StepsLeft' \in Nat /\ StepsLeft' < StepsLeft]_vars
    BY StepsFall
  <1> QED
    BY <1>1, <1>2, <1>3, PTL DEF Spec

=============================================================================
