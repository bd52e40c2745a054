-------------------------- MODULE Displays_proofs --------------------------
(***************************************************************************)
(* Proofs about the images of remote runs and the plot of the log, for any *)
(* number of runs, lines, rounds, directories and socket addresses,        *)
(* addresses used again included.                                          *)
(*                                                                         *)
(* The plot of a local run is what was read of a file that holds one round *)
(* of its lines; that of a remote run together with the calls under way is *)
(* all the run has logged, which numbers the lines (Nth).                  *)
(***************************************************************************)
EXTENDS Displays, FiniteSetTheorems, SequenceTheorems, WellFoundedInduction, TLAPS

----------------------------------------------------------------------------
(* Types.                                                                  *)

RunStates ==
    [kind : {"none", "local", "remote"}, dir : Dirs \cup {Cwd}, alive : BOOLEAN,
     open : BOOLEAN, round : Int, lines : Int]

DisplayTypes ==
    /\ run \in [Runs -> RunStates]
    /\ DOMAIN wire = Runs /\ wire = [r \in Runs |-> wire[r]]
    /\ client \in [Runs -> Addresses \cup {NoClient}]
    /\ workDir \in [Addresses -> Dirs \cup {Cwd}]
    /\ notified = [a \in Addresses |-> notified[a]]
    /\ current \in Runs \cup {NoRun} /\ alone \in BOOLEAN /\ fresh \in BOOLEAN

\* Runs are started one after the other, with the next number.
Numbered == \E n \in 0 .. MaxRuns : Started = 1 .. n

LEMMA NotAddress == NoClient \notin Addresses /\ Cwd \notin Dirs
  BY NumberAssumption DEF NoClient, Cwd

LEMMA StartedNext ==
    ASSUME Numbered, Cardinality(Started) < MaxRuns
    PROVE  /\ Cardinality(Started) + 1 \in Runs /\ Cardinality(Started) + 1 \notin Started
           /\ Started \cup {Cardinality(Started) + 1} = 1 .. Cardinality(Started) + 1
           /\ Cardinality(Started) + 1 \in 0 .. MaxRuns
  <1>1. PICK n \in 0 .. MaxRuns : Started = 1 .. n
    BY DEF Numbered
  <1>2. Cardinality(Started) = n /\ n \in Nat
    <2>1. Cardinality(1 .. n) = IF 1 > n THEN 0 ELSE n - 1 + 1
      BY <1>1, NumberAssumption, FS_Interval
    <2> QED
      BY <1>1, <2>1, NumberAssumption
  <1> QED
    BY <1>1, <1>2, NumberAssumption DEF Runs

\* A step changes what runs have written, or whether they go on, and nothing
\* that tells them apart, unless it starts one or finds out where one works.
SameRuns ==
    \A r \in Runs : /\ run'[r].kind = run[r].kind /\ run'[r].dir = run[r].dir
                    /\ (run'[r].alive => run[r].alive)
                    /\ (run'[r].open => run[r].open \/ ~Remote(r))

LEMMA SameStarted ==
    ASSUME SameRuns, Numbered PROVE Started' = Started /\ Numbered'
  <1>1. Started' = Started
    BY DEF SameRuns, Started
  <1> QED
    BY <1>1 DEF Numbered

----------------------------------------------------------------------------
(* The steps, by what they change of the variables the images depend on.   *)

Unchanged ==
    UNCHANGED <<wire, client, workDir, notified, viewer, written, left, setting, recovered>>

LEMMA OneRunGoesOn ==
    ASSUME DisplayTypes, NEW r \in Runs, NEW s \in RunStates,
           s.kind = run[r].kind, s.dir = run[r].dir, s.alive => run[r].alive,
           s.open => run[r].open \/ ~Remote(r),
           run' = [run EXCEPT ![r] = s]
    PROVE  run' \in [Runs -> RunStates] /\ SameRuns
  BY DEF DisplayTypes, SameRuns

LEMMA LocalSteps ==
    ASSUME DisplayTypes, NEW r \in Started,
           OpenLog(r) \/ NextRound(r) \/ Ends(r)
    PROVE  /\ run' \in [Runs -> RunStates] /\ SameRuns /\ Unchanged
           /\ UNCHANGED <<current, alone, fresh>>
  <1>1. r \in Runs /\ run \in [Runs -> RunStates] /\ run[r] \in RunStates
    BY DEF Started, DisplayTypes
  <1>2. Unchanged /\ UNCHANGED <<current, alone, fresh>>
    BY DEF OpenLog, NextRound, Ends, Unchanged, rpcVars, imageVars
  <1>3. PICK s \in RunStates :
            /\ s.kind = run[r].kind /\ s.dir = run[r].dir /\ (s.alive => run[r].alive)
            /\ (s.open => run[r].open \/ ~Remote(r))
            /\ run' = [run EXCEPT ![r] = s]
    <2>1. CASE OpenLog(r)
      <3> DEFINE s == [run[r] EXCEPT !.open = TRUE]
      <3>1. s \in RunStates /\ s.kind = run[r].kind /\ s.dir = run[r].dir /\ s.alive = run[r].alive
        BY <1>1 DEF RunStates
      <3>2. run' = [run EXCEPT ![r] = s] /\ ~Remote(r)
        BY <2>1 DEF OpenLog
      <3> QED
        BY <3>1, <3>2
    <2>2. CASE NextRound(r)
      <3> DEFINE n == run[r].round + 1
                 s1 == [run[r] EXCEPT !.open = FALSE]
                 s2 == [s1 EXCEPT !.lines = 0]
                 s == [s2 EXCEPT !.round = n]
      <3>1. n \in Int
        BY <1>1 DEF RunStates
      <3>2. run' = [run EXCEPT ![r] = s]
        BY <1>1, <2>2 DEF NextRound
      <3> HIDE DEF n, s
      <3>3. /\ s1 \in RunStates /\ s1.kind = run[r].kind /\ s1.dir = run[r].dir
            /\ s1.alive = run[r].alive /\ ~s1.open
        BY <1>1 DEF RunStates
      <3> HIDE DEF s1
      <3>4. /\ s2 \in RunStates /\ s2.kind = s1.kind /\ s2.dir = s1.dir
            /\ s2.alive = s1.alive /\ s2.open = s1.open
        BY <3>3 DEF RunStates
      <3> HIDE DEF s2
      <3>5. /\ s \in RunStates /\ s.kind = s2.kind /\ s.dir = s2.dir
            /\ s.alive = s2.alive /\ s.open = s2.open
        BY <3>1, <3>4 DEF RunStates, s
      <3> QED
        BY <3>2, <3>3, <3>4, <3>5
    <2>3. CASE Ends(r)
      <3> DEFINE s == [run[r] EXCEPT !.alive = FALSE]
      <3>1. /\ s \in RunStates /\ s.kind = run[r].kind /\ s.dir = run[r].dir /\ ~s.alive
            /\ s.open = run[r].open
        BY <1>1 DEF RunStates
      <3>2. run' = [run EXCEPT ![r] = s]
        BY <2>3 DEF Ends
      <3> QED
        BY <3>1, <3>2
    <2> QED
      BY <2>1, <2>2, <2>3
  <1>4. run' \in [Runs -> RunStates] /\ SameRuns
    BY <1>1, <1>3, OneRunGoesOn
  <1> QED
    BY <1>2, <1>4

LEMMA PlotSteps ==
    ASSUME TryAddingPath \/ FileChanged
    PROVE  run' = run /\ Unchanged /\ UNCHANGED <<current, alone, fresh>>
  BY DEF TryAddingPath, FileChanged, ReadLine, Unchanged, rpcVars, imageVars

LEMMA MoreOutput ==
    ASSUME DisplayTypes, NEW r \in Started, run' = [run EXCEPT ![r].lines = @ + 1]
    PROVE  run' \in [Runs -> RunStates] /\ SameRuns
  <1>1. r \in Runs /\ run \in [Runs -> RunStates] /\ run[r] \in RunStates
    BY DEF Started, DisplayTypes
  <1> DEFINE n == run[r].lines + 1
             s == [run[r] EXCEPT !.lines = n]
  <1>2. n \in Int
    BY <1>1 DEF RunStates
  <1>3. run' = [run EXCEPT ![r] = s]
    BY <1>1 DEF RunStates
  <1> HIDE DEF n
  <1>4. /\ s \in RunStates /\ s.kind = run[r].kind /\ s.dir = run[r].dir
        /\ s.alive = run[r].alive /\ s.open = run[r].open
    BY <1>1, <1>2 DEF RunStates
  <1> QED
    BY <1>1, <1>3, <1>4, OneRunGoesOn

----------------------------------------------------------------------------
(* Where images go.                                                        *)

\* No two sockets have one address; the directory of an address is that of the
\* run that is there, unless the run has connected again.
Placed ==
    /\ Numbered
    /\ \A r \in Runs : run[r].open => ~Remote(r)
    /\ \A r \in Runs \ Started : client[r] = NoClient /\ \A w \in written : w[1] # r
    /\ \A r, s \in Runs : client[r] = client[s] /\ client[r] # NoClient => r = s
    /\ \A r \in Runs : client[r] # NoClient =>
           run[r].dir # Cwd /\ (r \notin recovered => workDir[client[r]] = run[r].dir)
    /\ \A w \in written :
           /\ w[1] \in Runs /\ (Remote(w[1]) => run[w[1]].dir # Cwd)
           /\ w[2] = run[w[1]].dir \/ w[1] \in recovered

LEMMA PlacedUnchanged ==
    ASSUME DisplayTypes, Placed, SameRuns, UNCHANGED <<client, workDir, written, recovered>>
    PROVE  Placed'
  <1>1. Started' = Started /\ Numbered'
    BY SameStarted DEF Placed
  <1> QED
    BY <1>1 DEF Placed, SameRuns, Remote

LEMMA Allocated ==
    ASSUME NEW a \in Free PROVE a \in Addresses /\ \A r \in Runs : client[r] # a
  BY DEF Free

LEMMA StartStep ==
    ASSUME DisplayTypes, Placed, NEW k \in {"local", "remote"}, NEW d \in Dirs \cup {Cwd},
           Start(k, d)
    PROVE  LET r == Cardinality(Started) + 1
           IN /\ r \in Runs /\ r \notin Started /\ Numbered' /\ Started' = Started \cup {r}
              /\ run' \in [Runs -> RunStates]
              /\ run'[r].kind = k /\ run'[r].dir = d /\ ~run'[r].open
              /\ \A q \in Runs \ {r} : /\ run'[q].kind = run[q].kind /\ run'[q].dir = run[q].dir
                                       /\ run'[q].alive = (run[q].alive /\ Remote(q))
                                       /\ run'[q].open = run[q].open
              /\ current' = r
              /\ alone' = (\A q \in Started :
                     Remote(q) => ~run[q].alive /\ wire[q] = <<>> /\ client[q] = NoClient)
              /\ fresh' = FALSE
              /\ UNCHANGED <<wire, client, workDir, notified, viewer, written, recovered>>
  <1> DEFINE r == Cardinality(Started) + 1
  <1>1. /\ r \in Runs /\ r \notin Started /\ Started \cup {r} = 1 .. r /\ r \in 0 .. MaxRuns
    BY StartedNext DEF Start, Placed
  <1>2. run' = [q \in Runs |->
              IF q = r THEN [NotStarted EXCEPT !.kind = k, !.dir = d, !.alive = TRUE]
              ELSE [run[q] EXCEPT !.alive = @ /\ Remote(q)]]
    BY DEF Start
  <1>3. /\ current' = r /\ fresh' = FALSE
        /\ alone' = (\A q \in Started :
               Remote(q) => ~run[q].alive /\ wire[q] = <<>> /\ client[q] = NoClient)
        /\ UNCHANGED <<wire, client, workDir, notified, viewer, written, recovered>>
    BY DEF Start, rpcVars
  <1> HIDE DEF r
  <1>4. ASSUME NEW q \in Runs \ {r}
        PROVE  /\ run'[q] \in RunStates /\ run'[q].kind = run[q].kind
               /\ run'[q].dir = run[q].dir /\ run'[q].alive = (run[q].alive /\ Remote(q))
               /\ run'[q].open = run[q].open
    <2>1. run'[q] = [run[q] EXCEPT !.alive = run[q].alive /\ Remote(q)] /\ run[q] \in RunStates
      BY <1>2 DEF DisplayTypes
    <2>2. (run[q].alive /\ Remote(q)) \in BOOLEAN
      OBVIOUS
    <2> QED
      BY <2>1, <2>2 DEF RunStates
  <1>5. run'[r] \in RunStates /\ run'[r].kind = k /\ run'[r].dir = d /\ ~run'[r].open
    <2>1. run'[r] = [kind |-> k, dir |-> d, alive |-> TRUE, open |-> FALSE, round |-> 1,
                     lines |-> 0]
      BY <1>1, <1>2 DEF NotStarted
    <2> QED
      BY <2>1 DEF RunStates
  <1>6. run' \in [Runs -> RunStates]
    BY <1>2, <1>4, <1>5
  <1>7. Started' = Started \cup {r}
    BY <1>1, <1>4, <1>5 DEF Started
  <1>8. Numbered'
    BY <1>1, <1>7 DEF Numbered
  <1> QED
    BY <1>1, <1>3, <1>4, <1>5, <1>6, <1>7, <1>8 DEF r

LEMMA PlacedStart ==
    ASSUME DisplayTypes, Placed, NEW k \in {"local", "remote"}, NEW d \in Dirs \cup {Cwd},
           Start(k, d)
    PROVE  Placed'
  <1> DEFINE r == Cardinality(Started) + 1
  <1>1. /\ r \in Runs /\ r \notin Started /\ Numbered' /\ Started' = Started \cup {r}
        /\ \A q \in Runs \ {r} : /\ run'[q].dir = run[q].dir /\ run'[q].kind = run[q].kind
                                 /\ run'[q].open = run[q].open
        /\ ~run'[r].open
        /\ UNCHANGED <<client, workDir, written, recovered>>
    BY StartStep
  <1> HIDE DEF r
  <1>2. client[r] = NoClient /\ \A w \in written : w[1] # r
    BY <1>1 DEF Placed
  <1>3. \A q \in Runs : run'[q].open => ~Remote(q)'
    BY <1>1 DEF Placed, Remote
  <1> QED
    BY <1>1, <1>2, <1>3 DEF Placed, Remote

\* The directories of the runs are among those the user may choose.
LEMMA HandleStep ==
    ASSUME DisplayTypes, NEW r \in Started, NEW a \in Addresses, NEW d \in Choice,
           HandleRemoteClient(r, a, d)
    PROVE  /\ r \in Runs /\ a \in Free /\ d \in Dirs /\ run[r].alive /\ Remote(r)
           /\ run[r].dir = Cwd
           /\ run' \in [Runs -> RunStates] /\ run'[r].dir = d
           /\ \A q \in Runs : /\ run'[q].kind = run[q].kind /\ run'[q].alive = run[q].alive
                              /\ run'[q].open = run[q].open
           /\ \A q \in Runs \ {r} : run'[q].dir = run[q].dir
           /\ client' = [client EXCEPT ![r] = a]
           /\ workDir' = [workDir EXCEPT ![a] = d]
           /\ fresh' = IF r = current THEN notified[a] = 0 ELSE fresh
           /\ UNCHANGED <<wire, recovered, notified, viewer, written, left, setting,
                          current, alone>>
  <1>1. /\ r \in Runs /\ d \in Dirs /\ run \in [Runs -> RunStates] /\ run[r] \in RunStates
    BY DEF Started, Choice, DisplayTypes
  <1> DEFINE s == [run[r] EXCEPT !.dir = d]
  <1>2. run' = [run EXCEPT ![r] = s]
    BY DEF HandleRemoteClient
  <1>3. /\ s \in RunStates /\ s.kind = run[r].kind /\ s.alive = run[r].alive
        /\ s.open = run[r].open /\ s.dir = d
    BY <1>1 DEF RunStates
  <1> HIDE DEF s
  <1>4. /\ run' \in [Runs -> RunStates] /\ run'[r] = s
        /\ \A q \in Runs \ {r} : run'[q] = run[q]
    BY <1>1, <1>2, <1>3
  <1>5. \A q \in Runs : /\ run'[q].kind = run[q].kind /\ run'[q].alive = run[q].alive
                        /\ run'[q].open = run[q].open
    BY <1>3, <1>4
  <1> QED
    BY <1>1, <1>3, <1>4, <1>5 DEF HandleRemoteClient, AddClient

LEMMA PlacedHandle ==
    ASSUME DisplayTypes, Placed, NEW r \in Started, NEW a \in Addresses, NEW d \in Choice,
           HandleRemoteClient(r, a, d)
    PROVE  Placed'
  <1>1. /\ r \in Runs /\ d \in Dirs /\ run[r].dir = Cwd /\ run'[r].dir = d /\ Remote(r)
        /\ \A q \in Runs : run'[q].kind = run[q].kind /\ run'[q].open = run[q].open
        /\ \A q \in Runs \ {r} : run'[q].dir = run[q].dir
        /\ client' = [client EXCEPT ![r] = a] /\ workDir' = [workDir EXCEPT ![a] = d]
        /\ UNCHANGED <<written, recovered>>
    BY HandleStep
  <1>2. a \in Addresses /\ \A q \in Runs : client[q] # a
    BY HandleStep, Allocated
  <1>3. Started' = Started
    BY <1>1 DEF Started
  <1>4. Numbered'
    BY <1>3 DEF Placed, Numbered
  <1>5. /\ client'[r] = a /\ \A q \in Runs \ {r} : client'[q] = client[q]
        /\ workDir'[a] = d /\ \A b \in Addresses \ {a} : workDir'[b] = workDir[b]
    BY <1>1 DEF DisplayTypes
  <1>6. \A q \in Runs \ {r} : client[q] # NoClient => client[q] \in Addresses \ {a}
    BY <1>2 DEF DisplayTypes
  <1>7. /\ \A q \in Runs \ Started' : client'[q] = NoClient /\ \A w \in written' : w[1] # q
        /\ \A q, s \in Runs : client'[q] = client'[s] /\ client'[q] # NoClient => q = s
    BY <1>1, <1>2, <1>3, <1>5 DEF Placed
  <1>8. \A q \in Runs : client'[q] # NoClient =>
            run'[q].dir # Cwd /\ (q \notin recovered' => workDir'[client'[q]] = run'[q].dir)
    <2>1. CASE Cwd # d
      BY <1>1, <1>5, <1>6, <2>1 DEF Placed
    <2> QED
      BY <1>1, <2>1, NotAddress
  <1>9. \A w \in written' : /\ w[1] \in Runs /\ (Remote(w[1])' => run'[w[1]].dir # Cwd)
                            /\ w[2] = run'[w[1]].dir \/ w[1] \in recovered'
    BY <1>1 DEF Placed, Remote
  <1>10. \A q \in Runs : run'[q].open => ~Remote(q)'
    BY <1>1 DEF Placed, Remote
  <1> QED
    BY <1>4, <1>7, <1>8, <1>9, <1>10 DEF Placed

LEMMA PlacedRecover ==
    ASSUME DisplayTypes, Placed, NEW r \in Started, NEW a \in Addresses, Recover(r, a)
    PROVE  Placed'
  <1>1. /\ run' = run /\ client' = [client EXCEPT ![r] = a] /\ client[r] # NoClient
        /\ a \in Free \cup {client[r]} /\ r \in Runs
        /\ recovered' = recovered \cup {r} /\ UNCHANGED <<workDir, written>>
    BY DEF Recover, imageVars, Started
  <1>2. Started' = Started
    BY <1>1 DEF Started
  <1>3. client'[r] = a /\ \A q \in Runs \ {r} : client'[q] = client[q] /\ client[q] # a
    BY <1>1, Allocated DEF Placed, DisplayTypes
  <1>4. Numbered'
    BY <1>2 DEF Placed, Numbered
  <1> QED
    BY <1>1, <1>2, <1>3, <1>4 DEF Placed, Remote

LEMMA PlacedLeaves ==
    ASSUME DisplayTypes, Placed, NEW r \in Started, ClientDisconnected(r)
    PROVE  Placed'
  <1>1. /\ run' = run /\ client' = [client EXCEPT ![r] = NoClient] /\ r \in Runs
        /\ UNCHANGED <<workDir, written, recovered>>
    BY DEF ClientDisconnected, imageVars, Started
  <1>2. Started' = Started
    BY <1>1 DEF Started
  <1>3. client'[r] = NoClient /\ \A q \in Runs \ {r} : client'[q] = client[q]
    BY <1>1 DEF DisplayTypes
  <1>4. Numbered'
    BY <1>2 DEF Placed, Numbered
  <1> QED
    BY <1>1, <1>2, <1>3, <1>4 DEF Placed, Remote

LEMMA PlacedImage ==
    ASSUME DisplayTypes, Placed, NEW r \in Started, ReceiveImageOutput(r)
    PROVE  Placed'
  <1>1. /\ run' = run /\ UNCHANGED <<client, workDir, recovered>> /\ client[r] # NoClient
        /\ written' = written \cup {<<r, workDir[client[r]], NextCall(r).image>>} /\ r \in Runs
    BY DEF ReceiveImageOutput, Incoming, Started
  <1>2. Started' = Started
    BY <1>1 DEF Started
  <1>3. Numbered'
    BY <1>2 DEF Placed, Numbered
  <1>4. /\ run[r].dir # Cwd
        /\ workDir[client[r]] = run[r].dir \/ r \in recovered
    BY <1>1 DEF Placed
  <1> QED
    BY <1>1, <1>2, <1>3, <1>4 DEF Placed, Remote

----------------------------------------------------------------------------
(* Every step.                                                             *)

LEMMA OutputStep ==
    ASSUME DisplayTypes, NEW r \in Started, WriteLine(r) \/ SendOutput(r)
    PROVE  /\ run' \in [Runs -> RunStates] /\ SameRuns
           /\ UNCHANGED <<client, workDir, notified, left, setting, recovered, current, alone,
                          fresh>>
           /\ run[r].alive
           /\ WriteLine(r) => run[r].open /\ wire' = wire
           /\ SendOutput(r) => /\ client[r] # NoClient /\ UNCHANGED <<viewer, written>>
                               /\ wire' = [wire EXCEPT ![r] = wire'[r]]
  <1>1. run' = [run EXCEPT ![r].lines = @ + 1]
    BY DEF WriteLine, SendOutput
  <1>2. run' \in [Runs -> RunStates] /\ SameRuns
    BY <1>1, MoreOutput
  <1>3. r \in Runs
    BY DEF Started
  <1>4. SendOutput(r) => wire' = [wire EXCEPT ![r] = wire'[r]]
    <2> SUFFICES ASSUME SendOutput(r) PROVE wire' = [wire EXCEPT ![r] = wire'[r]]
      OBVIOUS
    <2> DEFINE w == wire[r] \o NewLines(r) \o <<[image |-> run[r].lines + 1]>>
    <2>1. wire' = [wire EXCEPT ![r] = w]
      BY DEF SendOutput
    <2> HIDE DEF w
    <2> QED
      BY <1>3, <2>1 DEF DisplayTypes
  <1> QED
    BY <1>2, <1>4 DEF WriteLine, SendOutput, HasOutput, rpcVars, imageVars

LEMMA LogLineStep ==
    ASSUME DisplayTypes, NEW r \in Started, ReceiveLogLine(r)
    PROVE  /\ run' = run /\ client[r] # NoClient /\ wire' = [wire EXCEPT ![r] = wire'[r]]
           /\ UNCHANGED <<client, workDir, recovered, notified, viewer, written, left, setting,
                          fresh, current, alone>>
  BY DEF ReceiveLogLine, Received, Incoming, imageVars, DisplayTypes, Started

LEMMA LoadStep ==
    ASSUME NEW d, LoadUserSelectedLogFile(d)
    PROVE  run' = run /\ Unchanged /\ current' = NoRun /\ UNCHANGED <<alone, fresh>>
  BY DEF LoadUserSelectedLogFile, Unchanged, rpcVars, imageVars

LEMMA PlacedLine ==
    ASSUME DisplayTypes, Placed, NEW r \in Started, WriteLine(r)
    PROVE  Placed'
  <1> DEFINE w == <<r, run[r].dir, run[r].lines + 1>>
  <1>1. SameRuns /\ UNCHANGED <<client, workDir, recovered>> /\ r \in Runs
    BY OutputStep DEF Started
  <1>2. written' = written \cup {w} /\ ~Remote(r)
    <2>1. written' = written \cup {w} /\ run[r].open
      BY DEF WriteLine
    <2> QED
      BY <1>1, <2>1 DEF Placed
  <1>3. Started' = Started /\ Numbered'
    BY <1>1, SameStarted DEF Placed
  <1>4. w[1] = r /\ w[2] = run[r].dir
    OBVIOUS
  <1> HIDE DEF w
  <1> QED
    BY <1>1, <1>2, <1>3, <1>4 DEF Placed, SameRuns, Remote

LEMMA ElsewhereStep ==
    ASSUME NEW f, OnImageLoaded(f) \/ LoadUserSelectedImage(f)
    PROVE  /\ run' = run /\ left' = TRUE
           /\ UNCHANGED <<wire, client, listed, workDir, recovered, log, tailer, curves, plot,
                          torn, notified, written, fresh, setting, current, alone>>
  BY DEF OnImageLoaded, LoadUserSelectedImage, TakenTo, rpcVars, plotVars

LEMMA TypesStep ==
    ASSUME DisplayTypes, Placed, [Next]_vars
    PROVE  DisplayTypes'
  <1> USE DEF DisplayTypes, Unchanged
  <1>1. CASE TryAddingPath \/ FileChanged
    BY <1>1, PlotSteps
  <1>2. ASSUME NEW d \in Choice \cup {Cwd}, NEW k \in {"local", "remote"}, Start(k, d)
        PROVE  DisplayTypes'
    <2>1. d \in Dirs \cup {Cwd}
      BY DEF Choice
    <2> QED
      BY <1>2, <2>1, StartStep
  <1>3. ASSUME NEW d, LoadUserSelectedLogFile(d) PROVE DisplayTypes'
    BY <1>3, LoadStep
  <1>4. ASSUME NEW r \in Started, OpenLog(r) \/ NextRound(r) \/ Ends(r) PROVE DisplayTypes'
    BY <1>4, LocalSteps
  <1>5. ASSUME NEW r \in Started, WriteLine(r) PROVE DisplayTypes'
    BY <1>5, OutputStep
  <1>6. ASSUME NEW r \in Started, SendOutput(r) PROVE DisplayTypes'
    BY <1>6, OutputStep
  <1>7. ASSUME NEW r \in Started, ReceiveLogLine(r) PROVE DisplayTypes'
    BY <1>7, LogLineStep
  <1>8. ASSUME NEW r \in Started, ReceiveImageOutput(r) PROVE DisplayTypes'
    BY <1>8 DEF ReceiveImageOutput, Received
  <1>9. ASSUME NEW r \in Started, ClientDisconnected(r) PROVE DisplayTypes'
    BY <1>9 DEF ClientDisconnected, imageVars
  <1>10. ASSUME NEW r \in Started, NEW a \in Addresses, Recover(r, a) PROVE DisplayTypes'
    BY <1>10 DEF Recover, imageVars
  <1>11. ASSUME NEW r \in Started, NEW a \in Addresses, NEW d \in Choice,
                HandleRemoteClient(r, a, d)
         PROVE  DisplayTypes'
    <2>1. /\ run' \in [Runs -> RunStates] /\ client' = [client EXCEPT ![r] = a]
          /\ workDir' = [workDir EXCEPT ![a] = d] /\ d \in Dirs
          /\ fresh' = IF r = current THEN notified[a] = 0 ELSE fresh
          /\ UNCHANGED <<wire, notified, current, alone>>
      BY <1>11, HandleStep
    <2>2. fresh' \in BOOLEAN
      BY <2>1
    <2> QED
      BY <2>1, <2>2
  <1>12. CASE UNCHANGED vars
    BY <1>12 DEF vars, rpcVars, imageVars
  <1>13. ASSUME NEW f, OnImageLoaded(f) \/ LoadUserSelectedImage(f) PROVE DisplayTypes'
    BY <1>13, ElsewhereStep
  <1> QED
    BY <1>1, <1>2, <1>3, <1>4, <1>5, <1>6, <1>7, <1>8, <1>9, <1>10, <1>11, <1>12, <1>13 DEF Next

LEMMA PlacedStep ==
    ASSUME DisplayTypes, Placed, [Next]_vars
    PROVE  Placed'
  <1> USE DEF Unchanged
  <1>0. ASSUME run' = run PROVE SameRuns
    BY <1>0 DEF SameRuns
  <1>1. CASE TryAddingPath \/ FileChanged
    BY <1>0, <1>1, PlotSteps, PlacedUnchanged
  <1>2. ASSUME NEW d \in Choice \cup {Cwd}, NEW k \in {"local", "remote"}, Start(k, d)
        PROVE  Placed'
    <2>1. d \in Dirs \cup {Cwd}
      BY DEF Choice
    <2> QED
      BY <1>2, <2>1, PlacedStart
  <1>3. ASSUME NEW d, LoadUserSelectedLogFile(d) PROVE Placed'
    BY <1>0, <1>3, LoadStep, PlacedUnchanged
  <1>4. ASSUME NEW r \in Started, OpenLog(r) \/ NextRound(r) \/ Ends(r) PROVE Placed'
    BY <1>4, LocalSteps, PlacedUnchanged
  <1>5. ASSUME NEW r \in Started, SendOutput(r) PROVE Placed'
    BY <1>5, OutputStep, PlacedUnchanged
  <1>6. ASSUME NEW r \in Started, ReceiveLogLine(r) PROVE Placed'
    BY <1>0, <1>6, LogLineStep, PlacedUnchanged
  <1>7. CASE UNCHANGED vars
    BY <1>0, <1>7, PlacedUnchanged DEF vars, rpcVars, imageVars
  <1>8. ASSUME NEW f, OnImageLoaded(f) \/ LoadUserSelectedImage(f) PROVE Placed'
    BY <1>0, <1>8, ElsewhereStep, PlacedUnchanged
  <1> QED
    BY <1>1, <1>2, <1>3, <1>4, <1>5, <1>6, <1>7, <1>8, PlacedLine, PlacedImage, PlacedLeaves,
       PlacedRecover, PlacedHandle DEF Next

LEMMA DisplaysInit == Init => DisplayTypes /\ Placed
  <1> SUFFICES ASSUME Init PROVE DisplayTypes /\ Placed
    OBVIOUS
  <1> USE DEF Init
  <1>1. \A r \in Runs : run[r] = NotStarted
    OBVIOUS
  <1>2. NotStarted \in RunStates
    BY DEF NotStarted, RunStates
  <1>3. run \in [Runs -> RunStates]
    BY <1>2
  <1>4. DisplayTypes
    BY <1>3 DEF DisplayTypes
  <1>5. Started = {}
    BY <1>1 DEF Started, NotStarted
  <1>6. Numbered
    <2>1. 0 \in 0 .. MaxRuns /\ 1 .. 0 = {}
      BY NumberAssumption
    <2> QED
      BY <1>5, <2>1 DEF Numbered
  <1>7. \A r \in Runs : ~run[r].open
    BY <1>1 DEF NotStarted
  <1> QED
    BY <1>4, <1>5, <1>6, <1>7 DEF Placed

\* For any number of runs that share any number of directories, and sockets
\* allocated wherever earlier ones were: the images of a remote run are written
\* in its own directory (RPCImageLoader::receiveImageOutput, addClient).
THEOREM ImagesGoToTheirRun == Spec => []ImagesInWorkDir
  <1>1. DisplayTypes /\ Placed /\ [Next]_vars => DisplayTypes' /\ Placed'
    BY TypesStep, PlacedStep
  <1>2. Placed => ImagesInWorkDir
    BY DEF Placed, ImagesInWorkDir
  <1> QED
    BY DisplaysInit, <1>1, <1>2, PTL DEF Spec

----------------------------------------------------------------------------
(* The viewer.                                                             *)

\* Only remote runs have clients, only local ones an open log, and while the
\* displays are of one run no other goes on.
Single ==
    /\ \A q \in Runs : ~Remote(q) => client[q] = NoClient /\ wire[q] = <<>>
    /\ \A q \in Runs : run[q].open => ~Remote(q)
    /\ alone /\ current # NoRun => \A q \in Runs \ {current} :
           ~run[q].alive /\ wire[q] = <<>> /\ client[q] = NoClient

Follows == Single /\ RemoteViewerFollows

LEMMA FollowsUnchanged ==
    ASSUME DisplayTypes, Follows, SameRuns, Unchanged,
           UNCHANGED <<alone, fresh>>, current' \in {current, NoRun}
    PROVE  Follows'
  <1>1. Single'
    BY DEF Follows, Single, SameRuns, Unchanged, Remote
  <1>2. RemoteViewerFollows'
    <2> SUFFICES ASSUME current' = current, current \in Runs PROVE RemoteViewerFollows'
      BY DEF RemoteViewerFollows, DisplayTypes
    <2> QED
      BY DEF Follows, RemoteViewerFollows, SameRuns, Unchanged
  <1> QED
    BY <1>1, <1>2 DEF Follows

LEMMA FollowsStart ==
    ASSUME DisplayTypes, Placed, Follows, NEW k \in {"local", "remote"},
           NEW d \in Dirs \cup {Cwd}, Start(k, d)
    PROVE  Follows'
  <1> DEFINE r == Cardinality(Started) + 1
  <1>1. /\ r \in Runs /\ r \notin Started /\ ~run'[r].open
        /\ \A q \in Runs \ {r} : /\ run'[q].kind = run[q].kind
                                 /\ run'[q].alive = (run[q].alive /\ Remote(q))
                                 /\ run'[q].open = run[q].open
        /\ current' = r /\ ~fresh'
        /\ alone' = (\A q \in Started :
               Remote(q) => ~run[q].alive /\ wire[q] = <<>> /\ client[q] = NoClient)
        /\ UNCHANGED <<wire, client>>
    BY StartStep
  <1> HIDE DEF r
  <1>2. ~Remote(r)
    BY <1>1 DEF Started, Remote
  <1>3. \A q \in Runs : Remote(q) => q \in Started
    BY DEF Remote, Started
  <1>4. \A q \in Runs \ {r} : Remote(q)' <=> Remote(q)
    BY <1>1 DEF Remote
  <1>5. \A q \in Runs : ~Remote(q)' => client'[q] = NoClient /\ wire'[q] = <<>>
    BY <1>1, <1>2, <1>4 DEF Follows, Single
  <1>6. \A q \in Runs : run'[q].open => ~Remote(q)'
    BY <1>1, <1>4 DEF Follows, Single
  <1>7. ASSUME alone', NEW q \in Runs \ {r}
        PROVE  ~run'[q].alive /\ wire'[q] = <<>> /\ client'[q] = NoClient
    <2>1. CASE Remote(q)
      BY <1>1, <1>3, <1>7, <2>1
    <2>2. CASE ~Remote(q)
      BY <1>1, <2>2 DEF Follows, Single
    <2> QED
      BY <2>1, <2>2
  <1>8. Single'
    BY <1>1, <1>5, <1>6, <1>7 DEF Single
  <1> QED
    BY <1>1, <1>8 DEF Follows, RemoteViewerFollows

\* A run that goes on, or has a client, is the one the displays are of.
LEMMA IsCurrent ==
    ASSUME Follows, alone, current # NoRun, NEW r \in Runs,
           run[r].alive \/ client[r] # NoClient
    PROVE  r = current
  BY DEF Follows, Single

LEMMA FollowsOutput ==
    ASSUME DisplayTypes, Follows, NEW r \in Started, WriteLine(r) \/ SendOutput(r)
    PROVE  Follows'
  <1>1. /\ SameRuns /\ run[r].alive /\ r \in Runs
        /\ UNCHANGED <<client, workDir, notified, recovered, left, setting, current, alone,
                       fresh>>
        /\ WriteLine(r) => run[r].open /\ wire' = wire
        /\ SendOutput(r) => /\ client[r] # NoClient /\ viewer' = viewer
                            /\ wire' = [wire EXCEPT ![r] = wire'[r]]
    BY OutputStep DEF Started
  <1>2. \A q \in Runs : Remote(q)' <=> Remote(q)
    BY <1>1 DEF SameRuns, Remote
  <1>3. \A q \in Runs \ {r} : wire'[q] = wire[q]
    BY <1>1 DEF DisplayTypes
  <1>4. Remote(r) \/ wire' = wire
    BY <1>1 DEF Follows, Single
  <1>5. alone /\ current # NoRun => r = current
    BY <1>1, IsCurrent
  <1>6. Single'
    <2>1. \A q \in Runs : ~Remote(q)' => client'[q] = NoClient /\ wire'[q] = <<>>
      BY <1>1, <1>2, <1>3, <1>4 DEF Follows, Single
    <2>2. \A q \in Runs : run'[q].open => ~Remote(q)'
      BY <1>1, <1>2 DEF Follows, Single, SameRuns
    <2>3. alone' /\ current' # NoRun => \A q \in Runs \ {current'} :
              ~run'[q].alive /\ wire'[q] = <<>> /\ client'[q] = NoClient
      BY <1>1, <1>3, <1>5 DEF Follows, Single, SameRuns
    <2> QED
      BY <2>1, <2>2, <2>3 DEF Single
  <1>7. RemoteViewerFollows'
    <2> SUFFICES ASSUME current # NoRun, alone, fresh, client[current] # NoClient,
                        current \notin recovered, notified[client[current]] # 0,
                        setting.autoUpdate, ~left
                 PROVE  viewer' = <<run'[current].dir, notified[client[current]]>>
      BY <1>1 DEF RemoteViewerFollows
    <2>1. r = current
      BY <1>5
    <2>2. ~WriteLine(r)
      BY <1>1, <2>1 DEF Follows, Single
    <2>3. viewer' = viewer /\ run'[current].dir = run[current].dir
      BY <1>1, <2>1, <2>2 DEF SameRuns
    <2> QED
      BY <2>3 DEF Follows, RemoteViewerFollows
  <1> QED
    BY <1>6, <1>7 DEF Follows

LEMMA FollowsLogLine ==
    ASSUME DisplayTypes, Follows, NEW r \in Started, ReceiveLogLine(r)
    PROVE  Follows'
  <1>1. /\ run' = run /\ client[r] # NoClient /\ wire' = [wire EXCEPT ![r] = wire'[r]]
        /\ UNCHANGED <<client, recovered, notified, viewer, left, setting, fresh, current, alone>>
        /\ r \in Runs
    BY LogLineStep DEF Started
  <1>2. \A q \in Runs \ {r} : wire'[q] = wire[q]
    BY <1>1 DEF DisplayTypes
  <1>3. alone /\ current # NoRun => r = current
    BY <1>1, IsCurrent
  <1>4. Single'
    BY <1>1, <1>2, <1>3 DEF Follows, Single, Remote
  <1> QED
    BY <1>1, <1>4 DEF Follows, RemoteViewerFollows

LEMMA FollowsImage ==
    ASSUME DisplayTypes, Placed, Follows, NEW r \in Started, ReceiveImageOutput(r)
    PROVE  Follows'
  <1> DEFINE a == client[r]
             n == NextCall(r).image
  <1>1. /\ run' = run /\ a # NoClient /\ wire' = [wire EXCEPT ![r] = Tail(@)]
        /\ UNCHANGED <<client, workDir, recovered, fresh, setting, current, alone>>
        /\ notified' = [notified EXCEPT ![a] = n]
        /\ viewer' = IF \/ notified[a] = 0
                        \/ setting.autoUpdate /\ viewer = <<workDir[a], notified[a]>>
                     THEN <<workDir[a], n>> ELSE viewer
        /\ left' = (left /\ notified[a] # 0)
        /\ r \in Runs
    BY DEF ReceiveImageOutput, Received, Incoming, LastNotified, Started
  <1> HIDE DEF n
  <1>2. \A q \in Runs \ {r} : wire'[q] = wire[q]
    BY <1>1 DEF DisplayTypes
  <1>3. alone /\ current # NoRun => r = current
    BY <1>1, IsCurrent
  <1>4. Single'
    BY <1>1, <1>2, <1>3 DEF Follows, Single, Remote
  <1>5. RemoteViewerFollows'
    <2> SUFFICES ASSUME current # NoRun, alone, fresh, current \notin recovered,
                        setting.autoUpdate, ~left'
                 PROVE  viewer' = <<run[current].dir, notified'[client[current]]>>
      BY <1>1 DEF RemoteViewerFollows
    <2>1. r = current
      BY <1>3
    <2>2. workDir[a] = run[current].dir
      BY <1>1, <2>1 DEF Placed
    <2>3. a \in Addresses
      BY <1>1 DEF DisplayTypes
    <2>4. notified'[a] = n
      BY <1>1, <2>3 DEF DisplayTypes
    <2>5. viewer' = <<workDir[a], n>>
      BY <1>1, <2>1, <2>2 DEF Follows, RemoteViewerFollows
    <2> QED
      BY <2>1, <2>2, <2>4, <2>5
  <1> QED
    BY <1>4, <1>5 DEF Follows

LEMMA FollowsRecover ==
    ASSUME DisplayTypes, Follows, NEW r \in Started, NEW a \in Addresses, Recover(r, a)
    PROVE  Follows'
  <1>1. /\ run' = run /\ client' = [client EXCEPT ![r] = a] /\ client[r] # NoClient
        /\ recovered' = recovered \cup {r} /\ r \in Runs
        /\ UNCHANGED <<notified, viewer, left, setting, fresh, current, alone>>
    BY DEF Recover, imageVars, Started
  <1>2. \A q \in Runs \ {r} : wire'[q] = wire[q] /\ client'[q] = client[q]
    BY <1>1 DEF Recover, DisplayTypes
  <1>3. alone /\ current # NoRun => r = current
    BY <1>1, IsCurrent
  <1>4. Remote(r)
    BY <1>1 DEF Follows, Single
  <1>5. Single'
    BY <1>1, <1>2, <1>3, <1>4 DEF Follows, Single, Remote
  <1> QED
    BY <1>1, <1>3, <1>5 DEF Follows, RemoteViewerFollows

LEMMA FollowsLeaves ==
    ASSUME DisplayTypes, Follows, NEW r \in Started, ClientDisconnected(r)
    PROVE  Follows'
  <1>1. /\ run' = run /\ client' = [client EXCEPT ![r] = NoClient] /\ r \in Runs
        /\ UNCHANGED <<wire, recovered, notified, viewer, left, setting, fresh, current, alone>>
    BY DEF ClientDisconnected, imageVars, Started
  <1>2. client'[r] = NoClient /\ \A q \in Runs \ {r} : client'[q] = client[q]
    BY <1>1 DEF DisplayTypes
  <1>3. Single'
    BY <1>1, <1>2 DEF Follows, Single, Remote
  <1>4. RemoteViewerFollows'
    <2> SUFFICES ASSUME current # NoRun, alone, fresh, client'[current] # NoClient,
                        current \notin recovered, notified[client'[current]] # 0,
                        setting.autoUpdate, ~left
                 PROVE  viewer = <<run[current].dir, notified[client'[current]]>>
      BY <1>1 DEF RemoteViewerFollows
    <2>1. current \in Runs /\ client'[current] = client[current]
      BY <1>2 DEF DisplayTypes
    <2> QED
      BY <2>1 DEF Follows, RemoteViewerFollows
  <1> QED
    BY <1>3, <1>4 DEF Follows

LEMMA FollowsHandle ==
    ASSUME DisplayTypes, Placed, Follows, NEW r \in Started, NEW a \in Addresses,
           NEW d \in Choice, HandleRemoteClient(r, a, d)
    PROVE  Follows'
  <1>1. /\ r \in Runs /\ run[r].alive /\ Remote(r)
        /\ \A q \in Runs : /\ run'[q].kind = run[q].kind /\ run'[q].alive = run[q].alive
                           /\ run'[q].open = run[q].open
        /\ client' = [client EXCEPT ![r] = a]
        /\ fresh' = IF r = current THEN notified[a] = 0 ELSE fresh
        /\ UNCHANGED <<wire, recovered, notified, viewer, left, setting, current, alone>>
    BY HandleStep
  <1>2. client'[r] = a /\ \A q \in Runs \ {r} : client'[q] = client[q]
    BY <1>1 DEF DisplayTypes
  <1>3. alone /\ current # NoRun => r = current
    BY <1>1, IsCurrent
  <1>4. \A q \in Runs : Remote(q)' <=> Remote(q)
    BY <1>1 DEF Remote
  <1>5. Single'
    BY <1>1, <1>2, <1>3, <1>4 DEF Follows, Single
  <1> QED
    BY <1>1, <1>2, <1>3, <1>5 DEF Follows, RemoteViewerFollows

LEMMA FollowsStep ==
    ASSUME DisplayTypes, Placed, Follows, [Next]_vars
    PROVE  Follows'
  <1>0. ASSUME run' = run PROVE SameRuns
    BY <1>0 DEF SameRuns
  <1>1. CASE TryAddingPath \/ FileChanged
    BY <1>0, <1>1, PlotSteps, FollowsUnchanged
  <1>2. ASSUME NEW d \in Choice \cup {Cwd}, NEW k \in {"local", "remote"}, Start(k, d)
        PROVE  Follows'
    <2>1. d \in Dirs \cup {Cwd}
      BY DEF Choice
    <2> QED
      BY <1>2, <2>1, FollowsStart
  <1>3. ASSUME NEW d, LoadUserSelectedLogFile(d) PROVE Follows'
    BY <1>0, <1>3, LoadStep, FollowsUnchanged
  <1>4. ASSUME NEW r \in Started, OpenLog(r) \/ NextRound(r) \/ Ends(r) PROVE Follows'
    BY <1>4, LocalSteps, FollowsUnchanged
  <1>5. CASE UNCHANGED vars
    BY <1>0, <1>5, FollowsUnchanged DEF vars, rpcVars, imageVars, Unchanged
  <1>6. ASSUME NEW f, OnImageLoaded(f) \/ LoadUserSelectedImage(f) PROVE Follows'
    <2>1. run' = run /\ left' = TRUE /\ UNCHANGED <<wire, client, alone, current>>
      BY <1>6, ElsewhereStep
    <2> QED
      BY <2>1 DEF Follows, Single, RemoteViewerFollows, Remote
  <1> QED
    BY <1>1, <1>2, <1>3, <1>4, <1>5, <1>6, FollowsOutput, FollowsLogLine, FollowsImage,
       FollowsRecover, FollowsLeaves, FollowsHandle DEF Next

LEMMA FollowsInit == Init => Follows
  BY DEF Init, Follows, Single, RemoteViewerFollows, NotStarted, NoRun

\* Of any number of runs: while the displays are those of one remote run, whose
\* socket has an address no earlier client had, and Auto Reload is on, every image
\* of it that comes in is the one the viewer goes to, until Lock Browse or the user
\* takes it elsewhere (RPCImageLoader::receiveImageOutput,
\* ImageDisplay::updateLatestOutput, onImageLoaded).
THEOREM ViewerFollowsItsRun == Spec => []RemoteViewerFollows
  <1>1. /\ DisplayTypes /\ Placed /\ Follows /\ [Next]_vars
        => DisplayTypes' /\ Placed' /\ Follows'
    BY TypesStep, PlacedStep, FollowsStep
  <1>2. Follows => RemoteViewerFollows
    BY DEF Follows
  <1> QED
    BY DisplaysInit, FollowsInit, <1>1, <1>2, PTL DEF Spec
----------------------------------------------------------------------------
(* Numbers.  The induction is over a set of numbers.                       *)

LEMMA Least ==
    ASSUME NEW S \in SUBSET Nat, S # {}
    PROVE  \E m \in S : \A k \in S : m <= k
  <1> DEFINE R == OpToRel(<, Nat)
  <1>1. IsWellFoundedOn(R, Nat)
    BY NatLessThanWellFounded
  <1>2. \A x, y \in Nat : x < y => <<x, y>> \in R
    BY DEF OpToRel
  <1> HIDE DEF R
  <1>3. PICK m \in S : \A y \in S : ~(<<y, m>> \in R)
    BY <1>1, WFMin
  <1>4. ASSUME NEW k \in S PROVE m <= k
    <2>1. ~(k < m)
      BY <1>2, <1>3
    <2> QED
      BY <2>1
  <1> QED
    BY <1>3, <1>4

LEMMA Induct ==
    ASSUME NEW S, 0 \in S, \A n \in Nat : n \in S => n + 1 \in S
    PROVE  \A n \in Nat : n \in S
  <1> SUFFICES ASSUME Nat \ S # {} PROVE FALSE
    OBVIOUS
  <1>1. PICK m \in Nat \ S : \A k \in Nat \ S : m <= k
    BY Least
  <1>2. m - 1 \in Nat
    BY <1>1
  <1> QED
    BY <1>1, <1>2

LEMMA DivMod ==
    ASSUME NEW c \in Nat, NEW p \in Nat \ {0}
    PROVE  /\ c \div p \in Nat /\ c % p \in 0 .. p - 1
           /\ c = (c \div p) * p + (c % p)
  OBVIOUS

LEMMA Larger ==
    ASSUME NEW p \in Nat \ {0}, NEW a \in Nat, NEW b \in Nat, a < b
    PROVE  a * p + p <= b * p
  <1>1. PICK d \in Nat : b = a + 1 + d
    <2>1. b - a - 1 \in Nat /\ b = a + 1 + (b - a - 1)
      OBVIOUS
    <2> QED
      BY <2>1
  <1>2. b * p = a * p + p + d * p
    BY <1>1
  <1>3. d * p \in Nat /\ a * p \in Nat
    OBVIOUS
  <1> QED
    BY <1>2, <1>3

LEMMA Place ==
    ASSUME NEW p \in Nat \ {0}, NEW q \in Nat, NEW r \in 0 .. p - 1
    PROVE  (q * p + r) \div p = q /\ (q * p + r) % p = r
  <1> DEFINE c == q * p + r
             d == c \div p
  <1>1. c \in Nat
    OBVIOUS
  <1>2. d \in Nat /\ c % p \in 0 .. p - 1 /\ c = d * p + (c % p)
    BY <1>1, DivMod
  <1>3. /\ q < d => q * p + p <= d * p
        /\ d < q => d * p + p <= q * p
    BY <1>2, Larger
  <1>4. q * p \in Nat /\ d * p \in Nat /\ c = q * p + r
    BY <1>2
  <1> HIDE DEF c, d
  <1>5. d = q
    BY <1>2, <1>3, <1>4
  <1>6. c % p = r
    BY <1>2, <1>4, <1>5
  <1> QED
    BY <1>5, <1>6 DEF c, d

LEMMA PlaceOf ==
    ASSUME NEW p \in Nat \ {0}, NEW q \in Nat, NEW r \in 0 .. p - 1, NEW c, c = q * p + r
    PROVE  c \div p = q /\ c % p = r
  BY Place, Zenon

----------------------------------------------------------------------------
(* The lines a reader parses.                                              *)

\* What the plot shows after one more line.
Parsed(a, line) ==
    IF line.n = 0 THEN [a EXCEPT !.made = TRUE]
    ELSE IF a.made THEN [a EXCEPT !.shown = Append(@, line)] ELSE a

Parsing(f, a, ls, n) ==
    f = [i \in 0 .. n |-> IF i = 0 THEN a ELSE Parsed(f[i - 1], ls[i])]

LEMMA ParsingExists ==
    ASSUME NEW a, NEW ls PROVE \A n \in Nat : \E f : Parsing(f, a, ls, n)
  <1> DEFINE T == {n \in Nat : \E f : Parsing(f, a, ls, n)}
  <1>1. 0 \in T
    <2> DEFINE f == [i \in 0 .. 0 |-> a]
    <2>1. f = [i \in 0 .. 0 |-> IF i = 0 THEN a ELSE Parsed(f[i - 1], ls[i])]
      OBVIOUS
    <2> HIDE DEF f
    <2> QED
      BY <2>1 DEF Parsing
  <1>2. ASSUME NEW n \in Nat, n \in T PROVE n + 1 \in T
    <2>1. PICK f : Parsing(f, a, ls, n)
      BY <1>2
    <2> DEFINE g == [i \in 0 .. n + 1 |-> IF i = 0 THEN a ELSE Parsed(f[i - 1], ls[i])]
    <2>2. \A i \in 0 .. n : g[i] = f[i]
      BY <2>1 DEF Parsing
    <2>3. g = [i \in 0 .. n + 1 |-> IF i = 0 THEN a ELSE Parsed(g[i - 1], ls[i])]
      <3>1. \A i \in 0 .. n + 1 : i # 0 => i - 1 \in 0 .. n
        OBVIOUS
      <3>2. \A i \in 0 .. n + 1 :
                (IF i = 0 THEN a ELSE Parsed(f[i - 1], ls[i]))
                = (IF i = 0 THEN a ELSE Parsed(g[i - 1], ls[i]))
        BY <2>2, <3>1
      <3> QED
        BY <3>2
    <2> HIDE DEF g
    <2>4. \E h : Parsing(h, a, ls, n + 1)
      BY <2>3 DEF Parsing
    <2> QED
      BY <2>4
  <1> HIDE DEF T
  <1>3. \A n \in Nat : n \in T
    BY <1>1, <1>2, Induct
  <1> QED
    BY <1>3 DEF T

LEMMA ParseIs ==
    ASSUME NEW shown, NEW made, NEW ls, Len(ls) \in Nat, Parse(shown, made, ls)
    PROVE  \E f : /\ Parsing(f, [made |-> made, shown |-> shown], ls, Len(ls))
                  /\ curves' = f[Len(ls)].made /\ plot' = f[Len(ls)].shown
  <1> DEFINE a == [made |-> made, shown |-> shown]
             r == CHOOSE f : Parsing(f, a, ls, Len(ls))
  <1>1. Parsing(r, a, ls, Len(ls))
    BY ParsingExists
  <1>2. curves' = r[Len(ls)].made /\ plot' = r[Len(ls)].shown
    BY DEF Parse, Parsing, Parsed
  <1> QED
    BY <1>1, <1>2

IsRest(R, L, q) == R = SubSeq(L, q, Len(L))
FirstData(ls) == IF ls # <<>> /\ ls[1].n = 0 THEN 2 ELSE 1

LEMMA RestIs ==
    ASSUME NEW X, NEW ls \in Seq(X), NEW q \in 1 .. Len(ls) + 1, NEW R, IsRest(R, ls, q)
    PROVE  /\ R \in Seq(X) /\ Len(R) = Len(ls) - q + 1
           /\ \A j \in 1 .. Len(ls) - q + 1 : q + j - 1 \in 1 .. Len(ls) /\ R[j] = ls[q + j - 1]
  <1>1. Len(ls) \in Nat /\ \A i \in q .. Len(ls) : ls[i] \in X
    OBVIOUS
  <1>2. /\ R \in Seq(X) /\ Len(R) = Len(ls) - q + 1
        /\ \A j \in 1 .. Len(ls) - q + 1 : R[j] = ls[q + j - 1]
    BY <1>1, SubSeqProperties DEF IsRest
  <1>3. \A j \in 1 .. Len(ls) - q + 1 : q + j - 1 \in 1 .. Len(ls)
    BY <1>1
  <1> QED
    BY <1>2, <1>3

\* When there are curves, or the header comes first, all other lines go to the
\* plot, in order.
LEMMA ParsesAll ==
    ASSUME NEW X, NEW shown \in Seq(X), NEW made \in BOOLEAN, NEW ls \in Seq(X),
           \A i \in 2 .. Len(ls) : ls[i].n # 0,
           made \/ ls = <<>> \/ ls[1].n = 0,
           Parse(shown, made, ls)
    PROVE  /\ curves' = (made \/ ls # <<>>)
           /\ \E D : IsRest(D, ls, FirstData(ls)) /\ plot' = shown \o D
  <1> DEFINE a == [made |-> made, shown |-> shown]
             m == IF ls # <<>> /\ ls[1].n = 0 THEN 2 ELSE 1
             s(i) == [made |-> made \/ i > 0, shown |-> shown \o SubSeq(ls, m, i)]
  <1>1. PICK f : /\ Parsing(f, a, ls, Len(ls))
                 /\ curves' = f[Len(ls)].made /\ plot' = f[Len(ls)].shown
    BY ParseIs
  <1>2. m \in {1, 2} /\ Len(ls) \in Nat
    OBVIOUS
  <1> DEFINE T == {i \in Nat : i <= Len(ls) => f[i] = s(i)}
  <1>3. 0 \in T
    <2>1. f[0] = a
      BY <1>1 DEF Parsing
    <2>2. shown \o SubSeq(ls, m, 0) = shown
      <3>1. SubSeq(ls, m, 0) = <<>>
        BY <1>2
      <3> QED
        BY <3>1
    <2>3. a = s(0)
      BY <2>2
    <2> QED
      BY <2>1, <2>3
  <1>4. ASSUME NEW i \in Nat, i \in T PROVE i + 1 \in T
    <2> SUFFICES ASSUME i + 1 <= Len(ls) PROVE f[i + 1] = s(i + 1)
      OBVIOUS
    <2>1. f[i] = s(i)
      BY <1>2, <1>4
    <2>2. f[i + 1] = Parsed(s(i), ls[i + 1])
      <3>1. i + 1 \in 0 .. Len(ls) /\ i + 1 # 0 /\ i + 1 - 1 = i
        BY <1>2
      <3> QED
        BY <1>1, <2>1, <3>1 DEF Parsing
    <2>3. CASE ls[i + 1].n = 0
      <3>1. i = 0 /\ m = 2
        BY <2>3, <1>2
      <3>2. SubSeq(ls, m, 0) = <<>> /\ SubSeq(ls, m, 1) = <<>>
        BY <3>1
      <3>3. s(0) = [made |-> made, shown |-> shown] /\ s(1) = [made |-> TRUE, shown |-> shown]
        <4>1. shown \o <<>> = shown /\ (made \/ 0 > 0) = made /\ (made \/ 1 > 0) = TRUE
          OBVIOUS
        <4> QED
          BY <3>2, <4>1, Zenon
      <3>4. Parsed(s(0), ls[1]) = s(1)
        <4>1. ls[1].n = 0
          BY <2>3, <3>1
        <4> HIDE DEF s
        <4> QED
          BY <4>1, <3>3 DEF Parsed
      <3>5. f[i + 1] = Parsed(s(0), ls[1]) /\ s(i + 1) = s(1)
        BY <2>2, <3>1
      <3> QED
        BY <3>4, <3>5
    <2>4. CASE ls[i + 1].n # 0
      <3>1. m <= i + 1 /\ (made \/ i > 0)
        BY <2>4, <1>2
      <3>2. SubSeq(ls, m, i + 1) = Append(SubSeq(ls, m, i), ls[i + 1])
        BY <1>2, <3>1
      <3>3. shown \o SubSeq(ls, m, i + 1) = Append(shown \o SubSeq(ls, m, i), ls[i + 1])
        <4>1. PICK u \in Seq(X), e \in X : u = SubSeq(ls, m, i) /\ e = ls[i + 1]
          <5>1. \A j \in m .. i : ls[j] \in X
            BY <1>2
          <5>2. SubSeq(ls, m, i) \in Seq(X)
            <6>1. m \in Int /\ i \in Int
              BY <1>2
            <6> HIDE DEF m
            <6> QED
              BY <5>1, <6>1, SubSeqProperties
          <5>3. ls[i + 1] \in X
            BY <1>2
          <5> QED
            BY <5>2, <5>3
        <4>2. shown \o Append(u, e) = Append(shown \o u, e)
          OBVIOUS
        <4> QED
          BY <3>2, <4>1, <4>2
      <3>4. s(i) = [made |-> TRUE, shown |-> shown \o SubSeq(ls, m, i)]
        BY <3>1
      <3>5. s(i + 1) = [made |-> TRUE, shown |-> Append(shown \o SubSeq(ls, m, i), ls[i + 1])]
        <4>1. (made \/ i + 1 > 0) = TRUE
          OBVIOUS
        <4> QED
          BY <3>3, <4>1, Zenon
      <3>6. Parsed(s(i), ls[i + 1]) = s(i + 1)
        BY <2>4, <3>4, <3>5 DEF Parsed
      <3> QED
        BY <2>2, <3>6
    <2> QED
      BY <2>3, <2>4
  <1> HIDE DEF T
  <1>5. Len(ls) \in T
    BY <1>2, <1>3, <1>4, Induct
  <1>6. f[Len(ls)] = s(Len(ls)) /\ (Len(ls) > 0 <=> ls # <<>>)
    BY <1>2, <1>5 DEF T
  <1>7. PICK D : D = SubSeq(ls, m, Len(ls))
    OBVIOUS
  <1>8. curves' = (made \/ ls # <<>>) /\ plot' = shown \o D
    BY <1>1, <1>6, <1>7
  <1>9. IsRest(D, ls, FirstData(ls))
    BY <1>7 DEF IsRest, FirstData
  <1> QED
    BY <1>8, <1>9

----------------------------------------------------------------------------
(* The plot of a local run.                                                *)

Lines == [run : Runs, round : Nat, n : Nat, cut : BOOLEAN]
Line(r, round, n) == [run |-> r, round |-> round, n |-> n, cut |-> FALSE]

\* The log of a round with k lines.
File(r, round, k) ==
    [i \in 1 .. (IF k = 0 THEN 0 ELSE k + 1) |-> Line(r, round, i - 1)]

LEMMA LineFields ==
    ASSUME NEW r \in Runs, NEW round \in Nat, NEW n \in Nat
    PROVE  /\ Line(r, round, n) \in Lines /\ Line(r, round, n).run = r
           /\ Line(r, round, n).round = round /\ Line(r, round, n).n = n
           /\ DOMAIN Line(r, round, n) = {"run", "round", "n", "cut"}
  BY DEF Line, Lines

LEMMA FileIs ==
    ASSUME NEW r \in Runs, NEW round \in Nat, NEW k \in Nat
    PROVE  /\ File(r, round, k) \in Seq(Lines)
           /\ Len(File(r, round, k)) = IF k = 0 THEN 0 ELSE k + 1
           /\ \A i \in 1 .. Len(File(r, round, k)) : File(r, round, k)[i] = Line(r, round, i - 1)
  <1>1. \A i \in 1 .. (IF k = 0 THEN 0 ELSE k + 1) : i - 1 \in Nat
    OBVIOUS
  <1>2. \A i \in 1 .. (IF k = 0 THEN 0 ELSE k + 1) : Line(r, round, i - 1) \in Lines
    BY <1>1, LineFields
  <1> QED
    BY <1>2 DEF File

LEMMA TwoLines ==
    ASSUME NEW X, NEW a \in X, NEW b \in X PROVE <<a>> \o <<b>> = <<a, b>>
  <1>1. <<a>> \in Seq(X) /\ <<b>> \in Seq(X) /\ Len(<<a>>) = 1 /\ Len(<<b>>) = 1
    OBVIOUS
  <1>2. PICK u \in Seq(X), v \in Seq(X) :
            u = <<a>> /\ v = <<b>> /\ Len(u) = 1 /\ Len(v) = 1 /\ u[1] = a /\ v[1] = b
    BY <1>1
  <1>3. u \o v \in Seq(X) /\ Len(u \o v) = 2 /\ (u \o v)[1] = a /\ (u \o v)[2] = b
    BY <1>2
  <1>4. PICK w \in Seq(X) : w = u \o v /\ Len(w) = 2 /\ w[1] = a /\ w[2] = b
    BY <1>3
  <1>5. w = <<a, b>>
    <2>1. w = [i \in 1 .. 2 |-> w[i]]
      <3>1. w = [i \in 1 .. Len(w) |-> w[i]]
        OBVIOUS
      <3> QED
        BY <1>4, <3>1
    <2>2. <<a, b>> = [i \in 1 .. 2 |-> w[i]]
      BY <1>4
    <2> QED
      BY <2>1, <2>2
  <1> QED
    BY <1>2, <1>4, <1>5

LEMMA FileGrows ==
    ASSUME NEW r \in Runs, NEW round \in Nat, NEW k \in Nat
    PROVE  File(r, round, k + 1)
           = File(r, round, k)
             \o ((IF k = 0 THEN <<Line(r, round, 0)>> ELSE <<>>) \o <<Line(r, round, k + 1)>>)
  <1> DEFINE L == File(r, round, k)
             G == File(r, round, k + 1)
             N == (IF k = 0 THEN <<Line(r, round, 0)>> ELSE <<>>) \o <<Line(r, round, k + 1)>>
  <1>1. /\ G \in Seq(Lines) /\ Len(G) = k + 2
        /\ \A i \in 1 .. Len(G) : G[i] = Line(r, round, i - 1)
    <2>1. k + 1 \in Nat /\ k + 1 # 0
      OBVIOUS
    <2> QED
      BY <2>1, FileIs
  <1>2. /\ L \in Seq(Lines) /\ Len(L) = IF k = 0 THEN 0 ELSE k + 1
        /\ \A i \in 1 .. Len(L) : L[i] = Line(r, round, i - 1)
    BY FileIs
  <1>3. PICK a \in Lines, b \in Lines : a = Line(r, round, 0) /\ b = Line(r, round, k + 1)
    BY LineFields
  <1> HIDE DEF L, G
  <1>4. CASE k = 0
    <2>1. N = <<a, b>>
      <3>1. N = <<a>> \o <<b>>
        BY <1>3, <1>4
      <3>2. <<a>> \o <<b>> = <<a, b>>
        BY TwoLines
      <3> QED
        BY <3>1, <3>2
    <2>2. G = <<a, b>> /\ L = <<>>
      <3>1. 1 \in 1 .. Len(G) /\ 2 \in 1 .. Len(G)
        BY <1>1, <1>4
      <3>2. G[1] = Line(r, round, 1 - 1) /\ G[2] = Line(r, round, 2 - 1)
        BY <1>1, <3>1
      <3>3. G[1] = a /\ G[2] = b
        BY <3>2, <1>3, <1>4
      <3> QED
        BY <1>1, <1>2, <1>4, <3>3
    <2> HIDE DEF N
    <2>3. G = L \o N
      BY <2>1, <2>2
    <2> QED
      BY <2>3 DEF N, G, L
  <1>5. CASE k # 0
    <2>1. N = <<b>>
      BY <1>3, <1>5
    <2>2. G[k + 2] = b
      <3>1. k + 2 \in 1 .. Len(G) /\ k + 2 - 1 = k + 1
        BY <1>1
      <3> QED
        BY <1>1, <1>3, <3>1
    <2>3. \A i \in 1 .. Len(L) : G[i] = L[i]
      BY <1>1, <1>2, <1>5
    <2> HIDE DEF N
    <2>4. G = L \o N
      BY <1>1, <1>2, <1>5, <2>1, <2>2, <2>3
    <2> QED
      BY <2>4 DEF N, G, L
  <1> QED
    BY <1>4, <1>5

\* The lines of a run in order, up to those before line p of a round.
ShownTo(c, shown, round, p) ==
    /\ shown \in Seq(Lines)
    /\ \A i \in 1 .. Len(shown) :
           /\ shown[i].run = c
           /\ shown[i].round < round \/ (shown[i].round = round /\ shown[i].n < p)
    /\ \A i, j \in 1 .. Len(shown) : i < j => Before(shown[i], shown[j])

LEMMA LineTypes ==
    ASSUME NEW l \in Lines PROVE l.round \in Nat /\ l.n \in Nat /\ l.run \in Runs
  BY DEF Lines

\* More lines of the round go behind those that are shown.
LEMMA ShowsMore ==
    ASSUME NEW c \in Runs, NEW shown, NEW round \in Nat, NEW p \in Int,
           ShownTo(c, shown, round, p),
           NEW D \in Seq(Lines), NEW m \in Nat, p <= m + 1,
           \A j \in 1 .. Len(D) : D[j].run = c /\ D[j].round = round /\ D[j].n = m + j
    PROVE  ShownTo(c, shown \o D, round, m + Len(D) + 1)
  <1> DEFINE P == shown \o D
             a == Len(shown)
  <1>1. shown \in Seq(Lines) /\ a \in Nat /\ Len(D) \in Nat
    BY DEF ShownTo
  <1>2. /\ P \in Seq(Lines) /\ Len(P) = a + Len(D)
        /\ \A i \in 1 .. a : P[i] = shown[i]
        /\ \A i \in a + 1 .. a + Len(D) : P[i] = D[i - a]
    BY <1>1
  <1> HIDE DEF P, a
  <1>3. ASSUME NEW i \in 1 .. a
        PROVE  /\ P[i] \in Lines /\ P[i].run = c
               /\ P[i].round < round \/ (P[i].round = round /\ P[i].n < p)
    BY <1>1, <1>2 DEF ShownTo, a
  <1>4. ASSUME NEW i \in a + 1 .. a + Len(D)
        PROVE  /\ P[i] \in Lines /\ P[i].run = c /\ P[i].round = round
               /\ P[i].n = m + (i - a)
    <2>1. i - a \in 1 .. Len(D)
      BY <1>1
    <2> QED
      BY <1>2, <2>1
  <1>5. ASSUME NEW i \in 1 .. Len(P)
        PROVE  /\ P[i].run = c
               /\ P[i].round < round \/ (P[i].round = round /\ P[i].n < m + Len(D) + 1)
    <2>1. CASE i \in 1 .. a
      <3>1. P[i] \in Lines
        BY <1>3, <2>1
      <3> QED
        BY <1>1, <1>3, <2>1, <3>1, LineTypes
    <2>2. CASE i \in a + 1 .. a + Len(D)
      BY <1>1, <1>4, <2>2
    <2> QED
      BY <1>1, <1>2, <2>1, <2>2
  <1>6. ASSUME NEW i \in 1 .. Len(P), NEW j \in 1 .. Len(P), i < j
        PROVE  Before(P[i], P[j])
    <2>1. CASE j \in 1 .. a
      <3>1. i \in 1 .. a
        BY <1>6, <1>1, <2>1
      <3> QED
        BY <1>2, <1>6, <2>1, <3>1 DEF ShownTo, a
    <2>2. CASE i \in 1 .. a /\ j \in a + 1 .. a + Len(D)
      <3>1. PICK k \in Lines, l \in Lines : k = P[i] /\ l = P[j]
        BY <1>3, <1>4, <2>2
      <3>2. k.round < round \/ (k.round = round /\ k.n < p)
        BY <1>3, <2>2, <3>1
      <3>3. l.round = round /\ l.n >= m + 1
        BY <1>1, <1>4, <2>2, <3>1
      <3>4. Before(k, l)
        BY <3>2, <3>3, LineTypes DEF Before
      <3> QED
        BY <3>1, <3>4
    <2>3. CASE i \in a + 1 .. a + Len(D) /\ j \in a + 1 .. a + Len(D)
      <3>1. P[i].round = P[j].round /\ P[i].n < P[j].n
        BY <1>1, <1>4, <1>6, <2>3
      <3> QED
        BY <3>1 DEF Before
    <2> QED
      BY <1>1, <1>2, <1>6, <2>1, <2>2, <2>3
  <1>7. ShownTo(c, P, round, m + Len(D) + 1)
    BY <1>2, <1>5, <1>6 DEF ShownTo
  <1> QED
    BY <1>7 DEF P

IsLog(L, c, round, k) == L = File(c, round, k)

LEMMA LogIs ==
    ASSUME NEW c \in Runs, NEW round \in Nat, NEW k \in Nat, NEW L, IsLog(L, c, round, k)
    PROVE  /\ L \in Seq(Lines) /\ Len(L) \in Nat /\ Len(L) = IF k = 0 THEN 0 ELSE k + 1
           /\ \A i \in 1 .. Len(L) : L[i] \in Lines /\ L[i] = Line(c, round, i - 1)
  BY FileIs DEF IsLog

\* The log of a run, read up to p, and what the plot shows of it: all that was
\* read, unless the log was opened anew behind the reader.
FileShown(c, L, p, round, k, shown, reopened) ==
    /\ round \in Nat \ {0} /\ k \in 0 .. MaxLines /\ IsLog(L, c, round, k)
    /\ p = Unknown \/ p \in 0 .. Len(L)
    /\ ShownTo(c, shown, round, p)
    /\ ~reopened =>
           /\ p # Unknown /\ round = 1
           /\ shown = [i \in 1 .. (IF p = 0 THEN 0 ELSE p - 1) |-> Line(c, 1, i)]

LEMMA ShowsRest ==
    ASSUME NEW c \in Runs, NEW L, NEW p, NEW round, NEW k, NEW shown, NEW reopened,
           FileShown(c, L, p, round, k, shown, reopened),
           NEW D \in Seq(Lines), NEW m \in Nat, p <= m + 1, m + Len(D) + 1 = Len(L),
           \A j \in 1 .. Len(D) : D[j].run = c /\ D[j].round = round /\ D[j].n = m + j,
           ~reopened => /\ m = IF p = 0 THEN 0 ELSE p - 1
                        /\ \A j \in 1 .. Len(D) : D[j] = Line(c, 1, m + j)
    PROVE  FileShown(c, L, Len(L), round, k, shown \o D, reopened)
  <1>1. /\ round \in Nat \ {0} /\ k \in 0 .. MaxLines /\ IsLog(L, c, round, k) /\ p \in Int
        /\ Len(L) \in Nat /\ Len(D) \in Nat /\ shown \in Seq(Lines)
    <2>1. Len(L) \in Nat /\ Len(D) \in Nat
      <3>1. k \in Nat
        BY NumberAssumption DEF FileShown
      <3> QED
        BY <3>1, LogIs DEF FileShown
    <2> QED
      BY <2>1 DEF FileShown, ShownTo, Unknown
  <1>2. ShownTo(c, shown \o D, round, Len(L))
    <2>1. ShownTo(c, shown, round, p)
      BY DEF FileShown
    <2>2. ShownTo(c, shown \o D, round, m + Len(D) + 1)
      BY <1>1, <2>1, ShowsMore
    <2> QED
      BY <2>2
  <1>3. ASSUME ~reopened
        PROVE  /\ Len(L) # Unknown /\ round = 1
               /\ shown \o D = [i \in 1 .. (IF Len(L) = 0 THEN 0 ELSE Len(L) - 1) |-> Line(c, 1, i)]
    <2>1. round = 1 /\ shown = [i \in 1 .. m |-> Line(c, 1, i)]
      BY <1>3 DEF FileShown
    <2>2. Len(L) # 0 /\ Len(L) # Unknown /\ Len(L) - 1 = m + Len(D)
      BY <1>1 DEF Unknown
    <2>3. shown \o D = [i \in 1 .. m + Len(D) |-> Line(c, 1, i)]
      <3>1. Len(shown) = m
        BY <2>1
      <3>2. \A i \in 1 .. m : shown[i] = Line(c, 1, i)
        BY <2>1
      <3>3. \A i \in m + 1 .. m + Len(D) : i - m \in 1 .. Len(D) /\ D[i - m] = Line(c, 1, i)
        <4>1. ASSUME NEW i \in m + 1 .. m + Len(D)
              PROVE  i - m \in 1 .. Len(D) /\ m + (i - m) = i
          BY <1>1
        <4> QED
          BY <1>3, <4>1
      <3> DEFINE P == shown \o D
      <3>4. /\ P \in Seq(Lines) /\ Len(P) = m + Len(D)
            /\ \A i \in 1 .. m : P[i] = shown[i]
            /\ \A i \in m + 1 .. m + Len(D) : P[i] = D[i - m]
        <4>1. P \in Seq(Lines) /\ Len(P) = m + Len(D)
          BY <1>1, <3>1, ConcatProperties
        <4>2. \A i \in 1 .. m + Len(D) : P[i] = IF i <= m THEN shown[i] ELSE D[i - m]
          BY <1>1, <3>1, ConcatProperties
        <4> HIDE DEF P
        <4>3. \A i \in 1 .. m : i \in 1 .. m + Len(D) /\ i <= m
          BY <1>1
        <4>4. \A i \in m + 1 .. m + Len(D) : i \in 1 .. m + Len(D) /\ ~(i <= m)
          BY <1>1
        <4> QED
          BY <4>1, <4>2, <4>3, <4>4
      <3> HIDE DEF P
      <3>5. \A i \in 1 .. m + Len(D) : P[i] = Line(c, 1, i)
        <4>1. ASSUME NEW i \in 1 .. m + Len(D) PROVE P[i] = Line(c, 1, i)
          <5>1. CASE i \in 1 .. m
            BY <3>2, <3>4, <5>1
          <5>2. CASE i \in m + 1 .. m + Len(D)
            BY <3>3, <3>4, <5>2
          <5> QED
            BY <1>1, <5>1, <5>2
        <4> QED
          BY <4>1
      <3>6. P = [i \in 1 .. m + Len(D) |-> Line(c, 1, i)]
        BY <1>1, <3>4, <3>5
      <3> QED
        BY <3>6 DEF P
    <2> QED
      BY <2>1, <2>2, <2>3
  <1> QED
    BY <1>1, <1>2, <1>3 DEF FileShown

\* The rest of the log from line q on.
LEMMA RestOfFile ==
    ASSUME NEW c \in Runs, NEW round \in Nat, NEW k \in Nat, NEW L, IsLog(L, c, round, k),
           NEW q \in 1 .. Len(L) + 1, NEW R, IsRest(R, L, q)
    PROVE  /\ R \in Seq(Lines) /\ Len(R) = Len(L) - q + 1
           /\ \A j \in 1 .. Len(L) - q + 1 :
                  j + (q - 2) \in Nat /\ R[j] = Line(c, round, j + (q - 2))
  <1>1. /\ L \in Seq(Lines) /\ Len(L) \in Nat
        /\ \A i \in 1 .. Len(L) : L[i] \in Lines /\ L[i] = Line(c, round, i - 1)
    BY LogIs
  <1>2. \A i \in q .. Len(L) : L[i] \in Lines
    BY <1>1
  <1>3. /\ R \in Seq(Lines) /\ Len(R) = Len(L) - q + 1
        /\ \A j \in 1 .. Len(L) - q + 1 : R[j] = L[q + j - 1]
    BY <1>1, <1>2, SubSeqProperties DEF IsRest
  <1>4. ASSUME NEW j \in 1 .. Len(L) - q + 1
        PROVE  j + (q - 2) \in Nat /\ L[q + j - 1] = Line(c, round, j + (q - 2))
    <2>1. q + j - 1 \in 1 .. Len(L) /\ q + j - 1 - 1 = j + (q - 2) /\ j + (q - 2) \in Nat
      BY <1>1
    <2> QED
      BY <1>1, <2>1
  <1> QED
    BY <1>3, <1>4

Tailers ==
    [path : Dirs \cup {Cwd}, calls : BOOLEAN, timer : BOOLEAN, watching : BOOLEAN,
     changed : BOOLEAN, open : BOOLEAN, pos : Int]

\* What the reader may find when it does not know where it is: all lines from
\* some line behind the header on, the first of them maybe cut.
MaybeCut(ls, R) == ls = R \/ ls = [R EXCEPT ![1].cut = TRUE]

LEMMA FoundAt ==
    ASSUME NEW c \in Runs, NEW round \in Nat, NEW k \in Nat, NEW L, IsLog(L, c, round, k),
           NEW i \in 2 .. Len(L), NEW R, IsRest(R, L, i),
           NEW ls, MaybeCut(ls, R)
    PROVE  /\ ls \in Seq(Lines) /\ Len(ls) = Len(L) - i + 1
           /\ \A j \in 1 .. Len(ls) :
                  ls[j].run = c /\ ls[j].round = round /\ ls[j].n = i - 2 + j
  <1>2. Len(L) \in Nat
    BY LogIs
  <1>3. i \in 1 .. Len(L) + 1 /\ Len(L) - i + 1 \in Nat \ {0}
    BY <1>2
  <1>4. /\ R \in Seq(Lines) /\ Len(R) = Len(L) - i + 1
        /\ \A j \in 1 .. Len(L) - i + 1 :
               j + (i - 2) \in Nat /\ R[j] = Line(c, round, j + (i - 2))
    BY <1>3, RestOfFile
  <1>5. \A j \in 1 .. Len(R) :
            /\ R[j] \in Lines /\ R[j].run = c /\ R[j].round = round
            /\ R[j].n = j + (i - 2)
    <2>1. ASSUME NEW j \in 1 .. Len(R)
          PROVE  /\ R[j] \in Lines /\ R[j].run = c /\ R[j].round = round
                 /\ R[j].n = j + (i - 2)
      <3>1. PICK n \in Nat : n = j + (i - 2) /\ R[j] = Line(c, round, n)
        BY <1>4
      <3> QED
        BY <3>1, LineFields
    <2> QED
      BY <2>1
  <1>6. ASSUME ls = [R EXCEPT ![1].cut = TRUE]
        PROVE  /\ ls \in Seq(Lines) /\ Len(ls) = Len(R)
               /\ \A j \in 1 .. Len(ls) : /\ ls[j].run = R[j].run
                                          /\ ls[j].round = R[j].round
                                          /\ ls[j].n = R[j].n
    <2>1. PICK s \in Seq(Lines) : s = R /\ Len(s) \in Nat \ {0}
      BY <1>3, <1>4
    <2>2. 1 \in 1 .. Len(s) /\ s[1] \in Lines
      BY <2>1
    <2> DEFINE l == [s[1] EXCEPT !.cut = TRUE]
    <2>3. l \in Lines /\ l.run = s[1].run /\ l.round = s[1].round /\ l.n = s[1].n
      BY <2>2 DEF Lines
    <2>4. ls = [s EXCEPT ![1] = l]
      BY <1>6, <2>1, <2>2
    <2> HIDE DEF l
    <2>5. ls \in Seq(Lines) /\ Len(ls) = Len(s)
      BY <2>2, <2>3, <2>4, ExceptSeq
    <2>6. ls[1] = l /\ \A j \in 2 .. Len(s) : ls[j] = s[j]
      BY <2>2, <2>4
    <2>7. ASSUME NEW j \in 1 .. Len(s)
          PROVE  ls[j].run = s[j].run /\ ls[j].round = s[j].round /\ ls[j].n = s[j].n
      <3>1. CASE j = 1
        BY <2>3, <2>6, <3>1
      <3>2. CASE j # 1
        <4>1. j \in 2 .. Len(s)
          BY <3>2
        <4> QED
          BY <2>6, <4>1
      <3> QED
        BY <3>1, <3>2
    <2> QED
      BY <2>1, <2>5, <2>7
  <1>7. /\ ls \in Seq(Lines) /\ Len(ls) = Len(L) - i + 1
        /\ \A j \in 1 .. Len(ls) :
               ls[j].run = c /\ ls[j].round = round /\ ls[j].n = i - 2 + j
    <2>1. CASE ls = R
      <3>1. \A j \in 1 .. Len(ls) : j + (i - 2) = i - 2 + j
        BY <1>2
      <3> QED
        BY <1>4, <1>5, <2>1, <3>1
    <2>2. CASE ls = [R EXCEPT ![1].cut = TRUE]
      <3>1. \A j \in 1 .. Len(ls) : j + (i - 2) = i - 2 + j
        BY <1>2
      <3>2. Len(ls) = Len(R) /\ Len(R) = Len(L) - i + 1
        BY <1>4, <1>6, <2>2
      <3>3. \A j \in 1 .. Len(ls) : ls[j].run = c /\ ls[j].round = round /\ ls[j].n = j + (i - 2)
        BY <1>5, <1>6, <2>2, <3>2
      <3> QED
        BY <1>6, <2>2, <3>1, <3>2, <3>3
    <2> QED
      BY <2>1, <2>2 DEF MaybeCut
  <1> QED
    BY <1>7

LEMMA FoundBehind ==
    ASSUME NEW c \in Runs, NEW round \in Nat, NEW k \in Nat,
           tailer.pos = Unknown, log[tailer.path] = File(c, round, k),
           NEW ls \in Unread(tailer), ls # <<>>
    PROVE  \E i \in 2 .. Len(log[tailer.path]) :
               /\ ls \in Seq(Lines) /\ Len(ls) = Len(log[tailer.path]) - i + 1
               /\ \A j \in 1 .. Len(ls) :
                      ls[j].run = c /\ ls[j].round = round /\ ls[j].n = i - 2 + j
  <1> DEFINE L == log[tailer.path]
             Found(i) == {SubSeq(L, i, Len(L)), [SubSeq(L, i, Len(L)) EXCEPT ![1].cut = TRUE]}
             All == {Found(i) : i \in 2 .. Len(L)}
  <1>1. Unread(tailer) = IF tailer.pos # Unknown THEN {SubSeq(L, tailer.pos + 1, Len(L))}
                         ELSE {<<>>} \cup UNION All
    BY DEF Unread
  <1> HIDE DEF All
  <1>2. ls \in UNION All
    <2>1. Unread(tailer) = {<<>>} \cup UNION All
      BY <1>1
    <2> QED
      BY <2>1
  <1>3. PICK F \in All : ls \in F
    BY <1>2
  <1> HIDE DEF Found
  <1>4. PICK i \in 2 .. Len(L) : ls \in Found(i)
    BY <1>3 DEF All
  <1>5. PICK R : IsRest(R, L, i) /\ MaybeCut(ls, R)
    BY <1>4 DEF Found, IsRest, MaybeCut
  <1>6. IsLog(L, c, round, k)
    BY DEF IsLog
  <1> HIDE DEF L
  <1>7. /\ ls \in Seq(Lines) /\ Len(ls) = Len(L) - i + 1
        /\ \A j \in 1 .. Len(ls) :
               ls[j].run = c /\ ls[j].round = round /\ ls[j].n = i - 2 + j
    BY <1>5, <1>6, FoundAt
  <1> QED
    BY <1>7 DEF L

\* What is read, behind the header and all lines read before.
NewData(L, c, round, p, D, m) ==
    /\ D \in Seq(Lines) /\ m \in Nat /\ p <= m + 1
    /\ m + Len(D) + 1 = Len(L)
    /\ \A j \in 1 .. Len(D) : D[j].run = c /\ D[j].round = round /\ D[j].n = m + j
    /\ p # Unknown => /\ m = IF p = 0 THEN 0 ELSE p - 1
                      /\ \A j \in 1 .. Len(D) : D[j] = Line(c, round, m + j)

LEMMA RestFrom ==
    ASSUME NEW c \in Runs, NEW round \in Nat, NEW k \in Nat, NEW L, IsLog(L, c, round, k),
           NEW p \in 0 .. Len(L), NEW ls, IsRest(ls, L, p + 1)
    PROVE  /\ Len(L) \in Nat /\ p \in Nat
           /\ ls \in Seq(Lines) /\ Len(ls) \in Nat /\ p + Len(ls) = Len(L)
           /\ \A j \in 1 .. Len(ls) :
                  ls[j].n = j + p - 1 /\ ls[j].run = c /\ ls[j].round = round
                  /\ ls[j] = Line(c, round, j + p - 1)
  <1>1. Len(L) \in Nat /\ p + 1 \in 1 .. Len(L) + 1 /\ p \in Nat
    BY LogIs
  <1>2. PICK q \in 1 .. Len(L) + 1 : q = p + 1 /\ IsRest(ls, L, q)
    BY <1>1
  <1>3. /\ ls \in Seq(Lines) /\ Len(ls) = Len(L) - q + 1
        /\ \A j \in 1 .. Len(L) - q + 1 :
               j + (q - 2) \in Nat /\ ls[j] = Line(c, round, j + (q - 2))
    BY <1>2, RestOfFile
  <1>4. Len(ls) \in Nat /\ p + Len(ls) = Len(L)
    BY <1>1, <1>2, <1>3
  <1>5. \A j \in 1 .. Len(ls) :
            ls[j].n = j + p - 1 /\ ls[j].run = c /\ ls[j].round = round
            /\ ls[j] = Line(c, round, j + p - 1)
    <2>1. ASSUME NEW j \in 1 .. Len(ls)
          PROVE  ls[j].n = j + p - 1 /\ ls[j].run = c /\ ls[j].round = round
                 /\ ls[j] = Line(c, round, j + p - 1)
      <3>1. PICK n \in Nat : n = j + p - 1 /\ ls[j] = Line(c, round, n)
        BY <1>1, <1>2, <1>3
      <3> QED
        BY <1>1, <3>1, LineFields
    <2> QED
      BY <2>1
  <1> QED
    BY <1>1, <1>3, <1>4, <1>5

\* There are curves once anything was read.
CurvesAt(made, p) == made = (p # 0)

LEMMA ReadKnown ==
    ASSUME NEW c \in Runs, NEW round \in Nat, NEW k \in Nat, NEW L, IsLog(L, c, round, k),
           NEW p \in 0 .. Len(L), NEW shown \in Seq(Lines), NEW made \in BOOLEAN,
           CurvesAt(made, p),
           NEW ls, NEW next \in Nat, next = p + 1, IsRest(ls, L, next), Parse(shown, made, ls)
    PROVE  /\ p \in Nat /\ Len(ls) \in Nat /\ p + Len(ls) = Len(L) /\ CurvesAt(curves', Len(L))
           /\ Len(L) = 0 => plot' = shown
           /\ Len(L) # 0 => \E D, m : plot' = shown \o D /\ NewData(L, c, round, p, D, m)
  <1>1. /\ Len(L) \in Nat /\ p \in Nat
        /\ ls \in Seq(Lines) /\ Len(ls) \in Nat /\ p + Len(ls) = Len(L)
    BY RestFrom
  <1>3. ls \in Seq(Lines)
    BY <1>1
  <1>4. Len(ls) \in Nat /\ p + Len(ls) = Len(L)
    BY <1>1
  <1>5. \A j \in 1 .. Len(ls) :
            ls[j].n = j + p - 1 /\ ls[j].run = c /\ ls[j].round = round
            /\ ls[j] = Line(c, round, j + p - 1)
    BY RestFrom
  <1>6. \A i \in 2 .. Len(ls) : ls[i].n # 0
    <2>1. ASSUME NEW i \in 2 .. Len(ls) PROVE ls[i].n # 0
      <3>1. i \in 1 .. Len(ls) /\ i + p - 1 # 0
        BY <1>1
      <3> QED
        BY <1>5, <3>1
    <2> QED
      BY <2>1
  <1>0. made = (p # 0)
    BY DEF CurvesAt
  <1>7. made \/ ls = <<>> \/ ls[1].n = 0
    <2>1. CASE p = 0 /\ ls # <<>>
      <3>1. 1 \in 1 .. Len(ls)
        BY <1>3, <1>4, <2>1
      <3> QED
        BY <1>5, <2>1, <3>1
    <2> QED
      BY <1>0, <2>1
  <1>8. PICK D : /\ curves' = (made \/ ls # <<>>)
                 /\ IsRest(D, ls, FirstData(ls)) /\ plot' = shown \o D
    BY <1>3, <1>6, <1>7, ParsesAll, Zenon
  <1>9. (made \/ ls # <<>>) = (Len(L) # 0)
    <2>1. ls # <<>> <=> Len(ls) # 0
      BY <1>3
    <2>2. p # 0 \/ Len(ls) # 0 <=> Len(L) # 0
      BY <1>1
    <2>3. made <=> p # 0
      BY <1>0
    <2> QED
      BY <2>1, <2>2, <2>3, Zenon
  <1>10. ASSUME Len(L) = 0 PROVE plot' = shown
    <2>1. ls = <<>>
      BY <1>1, <1>3, <1>4, <1>10
    <2>2. D = <<>>
      <3>1. FirstData(ls) \in {1, 2} /\ D = SubSeq(ls, FirstData(ls), 0)
        BY <1>8, <2>1 DEF IsRest, FirstData
      <3> QED
        BY <3>1, SubSeqEmpty
    <2> QED
      BY <1>8, <2>2
  <1>11. ASSUME Len(L) # 0 PROVE \E m : NewData(L, c, round, p, D, m)
    <2>1. CASE p = 0
      <3>1. 1 \in 1 .. Len(ls) /\ FirstData(ls) = 2
        BY <1>1, <1>3, <1>4, <1>5, <1>11, <2>1 DEF FirstData
      <3>2. /\ D \in Seq(Lines) /\ Len(D) = Len(ls) - 1
            /\ \A j \in 1 .. Len(ls) - 1 : D[j] = ls[j + 1]
        <4>1. PICK q \in 1 .. Len(ls) + 1 : q = 2 /\ IsRest(D, ls, q)
          BY <1>4, <1>8, <3>1
        <4>2. /\ D \in Seq(Lines) /\ Len(D) = Len(ls) - q + 1
              /\ \A j \in 1 .. Len(ls) - q + 1 : D[j] = ls[q + j - 1]
          BY <1>3, <4>1, RestIs
        <4>3. Len(ls) - q + 1 = Len(ls) - 1 /\ \A j \in 1 .. Len(ls) - 1 : q + j - 1 = j + 1
          BY <1>4, <4>1
        <4> QED
          BY <4>2, <4>3
      <3>3. \A j \in 1 .. Len(D) : D[j].run = c /\ D[j].round = round /\ D[j].n = 0 + j
                                   /\ D[j] = Line(c, round, 0 + j)
        <4>1. ASSUME NEW j \in 1 .. Len(D)
              PROVE  D[j].run = c /\ D[j].round = round /\ D[j].n = 0 + j
                     /\ D[j] = Line(c, round, 0 + j)
          <5>1. j + 1 \in 1 .. Len(ls) /\ D[j] = ls[j + 1] /\ j + 1 + p - 1 = 0 + j
            BY <1>1, <1>4, <2>1, <3>2
          <5> QED
            BY <1>5, <5>1
        <4> QED
          BY <4>1
      <3>4. 0 \in Nat /\ p <= 0 + 1 /\ 0 + Len(D) + 1 = Len(L)
        BY <1>1, <1>4, <2>1, <3>1, <3>2
      <3>5. NewData(L, c, round, p, D, 0)
        BY <2>1, <3>2, <3>3, <3>4 DEF NewData
      <3> QED
        BY <3>5
    <2>2. CASE p # 0
      <3>1. D = ls
        <4>1. FirstData(ls) = 1
          <5>1. CASE ls # <<>>
            <6>1. 1 \in 1 .. Len(ls)
              BY <1>3, <1>4, <5>1
            <6> QED
              BY <1>1, <1>5, <2>2, <6>1 DEF FirstData
          <5> QED
            BY <5>1 DEF FirstData
        <4> QED
          <5>1. D = SubSeq(ls, 1, Len(ls))
            BY <1>8, <4>1 DEF IsRest
          <5> QED
            BY <1>3, <5>1
      <3>2. p - 1 \in Nat /\ p <= p - 1 + 1 /\ p - 1 + Len(D) + 1 = Len(L)
        BY <1>1, <1>4, <2>2, <3>1
      <3>3. \A j \in 1 .. Len(D) : j + p - 1 = p - 1 + j
        BY <1>1, <1>4, <3>1
      <3>4. NewData(L, c, round, p, D, p - 1)
        BY <1>3, <1>5, <2>2, <3>1, <3>2, <3>3 DEF NewData
      <3> QED
        BY <3>4
    <2> QED
      BY <2>1, <2>2
  <1>12. CurvesAt(curves', Len(L))
    BY <1>8, <1>9, Zenon DEF CurvesAt
  <1> QED
    BY <1>1, <1>8, <1>10, <1>11, <1>12

LEMMA ReadBehind ==
    ASSUME NEW shown \in Seq(Lines), NEW ls \in Seq(Lines),
           \A j \in 1 .. Len(ls) : ls[j].n # 0, Parse(shown, TRUE, ls)
    PROVE  curves' = TRUE /\ plot' = shown \o ls
  <1>1. Len(ls) \in Nat /\ \A i \in 2 .. Len(ls) : ls[i].n # 0
    OBVIOUS
  <1>2. PICK D : curves' = (TRUE \/ ls # <<>>) /\ IsRest(D, ls, FirstData(ls)) /\ plot' = shown \o D
    BY <1>1, ParsesAll
  <1>3. FirstData(ls) = 1
    <2>1. CASE ls # <<>>
      <3>1. 1 \in 1 .. Len(ls)
        BY <1>1, <2>1
      <3> QED
        BY <3>1 DEF FirstData
    <2> QED
      BY <2>1 DEF FirstData
  <1>4. D = ls
    BY <1>2, <1>3 DEF IsRest
  <1> QED
    BY <1>2, <1>4

LEMMA ShowsNew ==
    ASSUME NEW c \in Runs, NEW L, NEW p, NEW round, NEW k, NEW shown, NEW reopened,
           FileShown(c, L, p, round, k, shown, reopened),
           NEW D, NEW m, NewData(L, c, round, p, D, m)
    PROVE  FileShown(c, L, Len(L), round, k, shown \o D, reopened)
  <1>1. /\ D \in Seq(Lines) /\ m \in Nat /\ p <= m + 1 /\ m + Len(D) + 1 = Len(L)
        /\ \A j \in 1 .. Len(D) : D[j].run = c /\ D[j].round = round /\ D[j].n = m + j
        /\ p # Unknown => /\ m = IF p = 0 THEN 0 ELSE p - 1
                          /\ \A j \in 1 .. Len(D) : D[j] = Line(c, round, m + j)
    BY DEF NewData
  <1>2. ~reopened => p # Unknown /\ round = 1
    BY DEF FileShown
  <1> QED
    BY <1>1, <1>2, ShowsRest

\* ReadLine leaves the plot with all lines of the log behind those it had.
LEMMA ReadStep ==
    ASSUME NEW c \in Runs, tailer \in Tailers, NEW round, NEW k,
           FileShown(c, log[tailer.path], tailer.pos, round, k, plot, torn),
           CurvesAt(curves, tailer.pos), ReadLine(tailer, plot, curves)
    PROVE  /\ FileShown(c, log[tailer.path], tailer'.pos, round, k, plot', torn)
           /\ CurvesAt(curves', tailer'.pos) /\ (tailer'.pos = 0 => plot' = plot /\ tailer.pos = 0)
           /\ tailer' \in Tailers /\ tailer'.path = tailer.path
  <1> DEFINE L == log[tailer.path]
             p == tailer.pos
  <1>1. PICK ls \in Unread(tailer) :
            /\ Parse(plot, curves, ls)
            /\ tailer' = [tailer EXCEPT !.changed = FALSE, !.open = TRUE,
                              !.pos = IF @ # Unknown THEN @ + Len(ls)
                                      ELSE IF ls = <<>> THEN Unknown ELSE Len(log[tailer.path])]
    BY DEF ReadLine
  <1> DEFINE n == IF p # Unknown THEN p + Len(ls) ELSE IF ls = <<>> THEN Unknown ELSE Len(L)
  <1>2. tailer' = [tailer EXCEPT !.changed = FALSE, !.open = TRUE, !.pos = n]
    BY <1>1
  <1>3. /\ round \in Nat /\ k \in Nat /\ IsLog(L, c, round, k) /\ Len(L) \in Nat
        /\ p = Unknown \/ p \in 0 .. Len(L)
        /\ plot \in Seq(Lines) /\ p \in Int
    <2>1. round \in Nat /\ k \in Nat /\ IsLog(L, c, round, k) /\ plot \in Seq(Lines)
      BY NumberAssumption DEF FileShown, ShownTo
    <2>2. Len(L) \in Nat
      BY <2>1, LogIs
    <2> QED
      BY <2>1, <2>2 DEF FileShown, Unknown
  <1>4. FileShown(c, L, p, round, k, plot, torn) /\ CurvesAt(curves, p)
    OBVIOUS
  <1>5. /\ FileShown(c, L, n, round, k, plot', torn) /\ CurvesAt(curves', n) /\ n \in Int
        /\ n = 0 => plot' = plot /\ p = 0
    <2>1. CASE p # Unknown
      <3>1. IsRest(ls, L, p + 1)
        <4>1. ls \in {SubSeq(L, p + 1, Len(L))}
          BY <2>1 DEF Unread
        <4> QED
          BY <4>1 DEF IsRest
      <3>2. p \in 0 .. Len(L) /\ curves \in BOOLEAN /\ n = p + Len(ls)
        BY <1>3, <1>4, <2>1 DEF CurvesAt
      <3>3. Parse(plot, curves, ls)
        BY <1>1
      <3> HIDE DEF L, p, n
      <3>4. /\ p + Len(ls) = Len(L) /\ CurvesAt(curves', Len(L))
            /\ Len(L) = 0 => plot' = plot
            /\ Len(L) # 0 => \E D, m : plot' = plot \o D /\ NewData(L, c, round, p, D, m)
        <4>1. round \in Nat /\ k \in Nat /\ IsLog(L, c, round, k) /\ plot \in Seq(Lines)
          BY <1>3
        <4>2. CurvesAt(curves, p)
          BY <1>4
        <4>3. PICK x \in BOOLEAN, s \in Seq(Lines) :
                  x = curves /\ s = plot /\ CurvesAt(x, p) /\ Parse(s, x, ls)
          BY <3>2, <3>3, <4>1, <4>2
        <4>4. PICK q \in Nat : q = p + 1 /\ IsRest(ls, L, q)
          BY <1>3, <3>1, <3>2
        <4>5. p \in 0 .. Len(L)
          BY <3>2
        <4>6. /\ p + Len(ls) = Len(L) /\ CurvesAt(curves', Len(L))
              /\ Len(L) = 0 => plot' = s
              /\ Len(L) # 0 => \E D, m : plot' = s \o D /\ NewData(L, c, round, p, D, m)
          BY <4>1, <4>3, <4>4, <4>5, ReadKnown
        <4> QED
          BY <4>3, <4>6
      <3>5. CASE Len(L) = 0
        <4>1. p = 0 /\ n = 0
          BY <3>2, <3>4, <3>5
        <4> QED
          BY <1>4, <3>4, <3>5, <4>1
      <3>6. CASE Len(L) # 0
        <4>1. PICK D, m : plot' = plot \o D /\ NewData(L, c, round, p, D, m)
          BY <3>4, <3>6
        <4>2. FileShown(c, L, Len(L), round, k, plot \o D, torn)
          BY <1>4, <4>1, ShowsNew
        <4> QED
          BY <1>3, <3>2, <3>4, <3>6, <4>1, <4>2
      <3> QED
        BY <3>5, <3>6
    <2>2. CASE p = Unknown /\ ls = <<>>
      <3>1. n = Unknown /\ n # 0 /\ n \in Int /\ curves = TRUE
        <4>1. n = Unknown /\ n # 0 /\ n \in Int /\ p # 0
          BY <2>2 DEF Unknown
        <4>2. curves = TRUE
          BY <1>4, <4>1, Zenon DEF CurvesAt
        <4> QED
          BY <4>1, <4>2
      <3>2. ls \in Seq(Lines) /\ Len(ls) = 0
        BY <2>2
      <3>3. Parse(plot, TRUE, ls)
        BY <1>1, <3>1
      <3>4. curves' = TRUE /\ plot' = plot \o ls
        <4>1. plot \in Seq(Lines) /\ \A j \in 1 .. Len(ls) : ls[j].n # 0
          BY <1>3, <3>2
        <4> QED
          BY <3>2, <3>3, <4>1, ReadBehind, Zenon
      <3>5. plot' = plot
        BY <1>3, <2>2, <3>4
      <3>6. CurvesAt(curves', n)
        BY <3>1, <3>4, Zenon DEF CurvesAt
      <3> QED
        BY <1>4, <2>2, <3>1, <3>5, <3>6
    <2>3. CASE p = Unknown /\ ls # <<>>
      <3>1. n = Len(L) /\ curves = TRUE /\ p = -1
        <4>1. n = Len(L) /\ p = -1 /\ p # 0
          BY <2>3 DEF Unknown
        <4>2. curves = TRUE
          BY <1>4, <4>1, Zenon DEF CurvesAt
        <4> QED
          BY <4>1, <4>2
      <3>2. Parse(plot, TRUE, ls)
        BY <1>1, <3>1
      <3>3. log[tailer.path] = File(c, round, k)
        BY <1>3 DEF IsLog
      <3>4. PICK i \in 2 .. Len(L) :
                /\ ls \in Seq(Lines) /\ Len(ls) = Len(L) - i + 1
                /\ \A j \in 1 .. Len(ls) :
                       ls[j].run = c /\ ls[j].round = round /\ ls[j].n = i - 2 + j
        BY <1>3, <2>3, <3>3, FoundBehind
      <3> HIDE DEF L, p, n
      <3>5. i - 2 \in Nat /\ i - 2 + Len(ls) + 1 = Len(L) /\ p <= i - 2 + 1
        BY <1>3, <3>1, <3>4
      <3>6. \A j \in 1 .. Len(ls) : ls[j].n # 0
        <4>1. \A j \in 1 .. Len(ls) : i - 2 + j # 0
          BY <3>4, <3>5
        <4> QED
          BY <3>4, <4>1
      <3>7. curves' = TRUE /\ plot' = plot \o ls
        BY <1>3, <3>2, <3>4, <3>6, ReadBehind
      <3>8. NewData(L, c, round, p, ls, i - 2)
        BY <2>3, <3>4, <3>5 DEF NewData
      <3>9. FileShown(c, L, Len(L), round, k, plot \o ls, torn)
        BY <1>4, <3>8, ShowsNew
      <3>10. n # 0 /\ n \in Int
        BY <1>3, <3>1, <3>4
      <3>11. CurvesAt(curves', n)
        BY <3>7, <3>10, Zenon DEF CurvesAt
      <3> QED
        BY <3>1, <3>7, <3>9, <3>10, <3>11
    <2> QED
      BY <2>1, <2>2, <2>3
  <1> HIDE DEF n
  <1>6. tailer'.pos = n /\ tailer'.path = tailer.path /\ tailer' \in Tailers
    BY <1>2, <1>5 DEF Tailers
  <1> QED
    BY <1>5, <1>6

\* The log of a local run has been opened; the round it is of, and its lines.
Opened(r) == run[r].open \/ run[r].round > 1
FileRound(r) == IF run[r].open THEN run[r].round ELSE run[r].round - 1
FileLines(r) == IF run[r].open THEN run[r].lines ELSE MaxLines

Counts(c) == run[c].round \in Nat \ {0} /\ run[c].lines \in 0 .. MaxLines

OfFile(c) ==
    /\ tailer \in Tailers /\ tailer.path = run[c].dir /\ CurvesAt(curves, tailer.pos)
    /\ tailer.pos = 0 => plot = <<>>
    /\ ~run[c].open => run[c].lines = 0
    /\ ~Opened(c) => tailer.pos = 0 /\ ~tailer.changed /\ ~torn
    /\ Opened(c) =>
           /\ run[c].dir \in DOMAIN log
           /\ FileShown(c, log[run[c].dir], tailer.pos, FileRound(c), FileLines(c), plot, torn)

\* The state of a run is what it was but for what the step has changed.
LEMMA RunOpens ==
    ASSUME DisplayTypes, NEW c \in Runs, OpenLog(c)
    PROVE  /\ run'[c].open /\ ~run[c].open /\ run'[c].round = run[c].round
           /\ run'[c].lines = run[c].lines /\ run'[c].dir = run[c].dir
  <1>1. run[c] \in RunStates /\ run'[c] = [run[c] EXCEPT !.open = TRUE]
    BY DEF DisplayTypes, OpenLog
  <1>2. ~run[c].open
    BY DEF OpenLog
  <1> QED
    BY <1>1, <1>2 DEF RunStates

LEMMA RunLogs ==
    ASSUME DisplayTypes, NEW c \in Runs, run' = [run EXCEPT ![c].lines = @ + 1]
    PROVE  /\ run'[c].lines = run[c].lines + 1 /\ run'[c].round = run[c].round
           /\ run'[c].open = run[c].open /\ run'[c].dir = run[c].dir
  <1>1. run[c] \in RunStates /\ run'[c] = [run[c] EXCEPT !.lines = @ + 1]
    BY DEF DisplayTypes
  <1> QED
    BY <1>1 DEF RunStates

LEMMA RunGoesOn ==
    ASSUME DisplayTypes, NEW c \in Runs, NextRound(c)
    PROVE  /\ run[c].lines = MaxLines /\ run'[c].lines = 0 /\ ~run'[c].open
           /\ run'[c].round = run[c].round + 1 /\ run'[c].dir = run[c].dir
  <1>1. run[c] \in RunStates /\ run[c].lines = MaxLines
        /\ run'[c] = [run[c] EXCEPT !.open = FALSE, !.lines = 0, !.round = @ + 1]
    BY DEF DisplayTypes, NextRound
  <1> QED
    BY <1>1 DEF RunStates

LEMMA RunEnds ==
    ASSUME DisplayTypes, NEW c \in Runs, Ends(c)
    PROVE  /\ run'[c].lines = run[c].lines /\ run'[c].round = run[c].round
           /\ run'[c].open = run[c].open /\ run'[c].dir = run[c].dir
  <1>1. run[c] \in RunStates /\ run'[c] = [run[c] EXCEPT !.alive = FALSE]
    BY DEF DisplayTypes, Ends
  <1> QED
    BY <1>1 DEF RunStates

LEMMA FileTried ==
    ASSUME DisplayTypes, NEW c \in Runs, OfFile(c), TryAddingPath
    PROVE  OfFile(c)'
  <1>1. /\ UNCHANGED <<run, log, curves, plot, torn>>
        /\ tailer' = [tailer EXCEPT !.timer = FALSE, !.watching = TRUE]
    BY DEF TryAddingPath
  <1>2. /\ tailer' \in Tailers /\ tailer'.path = tailer.path /\ tailer'.pos = tailer.pos
        /\ tailer'.changed = tailer.changed
    BY <1>1 DEF OfFile, Tailers
  <1> QED
    BY <1>1, <1>2 DEF OfFile, Opened, FileRound, FileLines

LEMMA FileRead ==
    ASSUME DisplayTypes, NEW c \in Runs, OfFile(c), FileChanged
    PROVE  OfFile(c)'
  <1>1. /\ UNCHANGED <<run, log, torn>> /\ ReadLine(tailer, plot, curves) /\ tailer.changed
    BY DEF FileChanged
  <1>2. Opened(c)
    BY <1>1 DEF OfFile
  <1>3. PICK n, k : n = FileRound(c) /\ k = FileLines(c)
    OBVIOUS
  <1>4. /\ tailer \in Tailers /\ CurvesAt(curves, tailer.pos) /\ tailer.path = run[c].dir
        /\ FileShown(c, log[tailer.path], tailer.pos, n, k, plot, torn)
    BY <1>2, <1>3 DEF OfFile
  <1>5. /\ FileShown(c, log[tailer.path], tailer'.pos, n, k, plot', torn)
        /\ CurvesAt(curves', tailer'.pos) /\ (tailer'.pos = 0 => plot' = plot /\ tailer.pos = 0)
        /\ tailer' \in Tailers /\ tailer'.path = tailer.path
    BY <1>1, <1>4, ReadStep
  <1>6. tailer'.pos = 0 => plot' = <<>>
    BY <1>5 DEF OfFile
  <1>7. Opened(c)' /\ FileRound(c)' = n /\ FileLines(c)' = k
    BY <1>1, <1>2, <1>3 DEF Opened, FileRound, FileLines
  <1> QED
    BY <1>1, <1>2, <1>4, <1>5, <1>6, <1>7 DEF OfFile

LEMMA EmptyFile ==
    ASSUME NEW c \in Runs, NEW round \in Nat PROVE IsLog(<<>>, c, round, 0)
  BY DEF IsLog, File

LEMMA TouchedTailer ==
    ASSUME tailer \in Tailers, NEW d
    PROVE  /\ Touched(tailer, d) \in Tailers /\ Touched(tailer, d).path = tailer.path
           /\ Touched(tailer, d).pos = tailer.pos
           /\ Touched(tailer, d).calls = tailer.calls /\ Touched(tailer, d).timer = tailer.timer
           /\ Touched(tailer, d).watching = tailer.watching
           /\ ~tailer.watching => Touched(tailer, d) = tailer
  BY DEF Touched, Tailers

LEMMA LaterRound ==
    ASSUME NEW c, NEW shown, NEW n \in Nat, NEW p \in Int, NEW q \in Int,
           ShownTo(c, shown, n, p)
    PROVE  ShownTo(c, shown, n + 1, q)
  <1>1. ASSUME NEW i \in 1 .. Len(shown)
        PROVE  shown[i].run = c /\ shown[i].round < n + 1
    <2>1. shown[i] \in Lines
      BY DEF ShownTo
    <2>2. shown[i].round \in Nat
      BY <2>1, LineTypes
    <2> QED
      BY <2>2 DEF ShownTo
  <1> QED
    BY <1>1 DEF ShownTo

LEMMA FileOpens ==
    ASSUME DisplayTypes, NEW c \in Runs, Counts(c), torn \in BOOLEAN, OfFile(c), OpenLog(c)
    PROVE  OfFile(c)' /\ torn' \in BOOLEAN
  <1> DEFINE d == run[c].dir
             n == run[c].round
             p == IF tailer.pos # 0 THEN Unknown ELSE tailer.pos
  <1>1. /\ run'[c].open /\ ~run[c].open /\ run'[c].round = n
        /\ run'[c].lines = run[c].lines /\ run'[c].dir = d
    BY RunOpens
  <1>2. n \in Nat \ {0} /\ run[c].lines = 0 /\ tailer \in Tailers /\ tailer.path = d
        /\ tailer.pos \in Int
    BY <1>1 DEF Counts, OfFile, Tailers
  <1>3. /\ log' = Put(d, <<>>) /\ UNCHANGED <<curves, plot>>
        /\ tailer' = [Touched(tailer, d) EXCEPT !.pos = IF tailer.path = d /\ @ # 0 THEN Unknown ELSE @]
        /\ torn' = (torn \/ (tailer.path = d /\ (tailer.pos # 0 \/ n > 1)))
    BY DEF OpenLog
  <1>4. /\ tailer' \in Tailers /\ tailer'.path = d /\ tailer'.pos = p
    <2>1. PICK t \in Tailers : t = Touched(tailer, d) /\ t.path = d /\ t.pos = tailer.pos
      BY <1>2, TouchedTailer
    <2>2. tailer' = [t EXCEPT !.pos = p] /\ p \in Int
      <3>1. tailer' = [t EXCEPT !.pos = IF tailer.path = d /\ @ # 0 THEN Unknown ELSE @]
        BY <1>3, <2>1
      <3>2. tailer' = [t EXCEPT !.pos = IF tailer.path = d /\ t.pos # 0 THEN Unknown ELSE t.pos]
        BY <3>1
      <3> QED
        BY <1>2, <2>1, <3>2 DEF Unknown
    <2> HIDE DEF p
    <2> QED
      BY <2>1, <2>2 DEF Tailers
  <1>5. d \in DOMAIN log' /\ log'[d] = <<>>
    BY <1>3 DEF Put
  <1>6. torn' \in BOOLEAN /\ (~torn' => tailer.pos = 0 /\ n = 1)
    <2>1. ~torn' => ~(tailer.pos # 0 \/ n > 1)
      BY <1>2, <1>3
    <2> QED
      BY <1>2, <1>3, <2>1
  <1>7. ShownTo(c, plot, n, p)
    <2>1. CASE Opened(c)
      <3>1. FileRound(c) = n - 1 /\ n - 1 \in Nat
        BY <1>1, <1>2 DEF FileRound
      <3>2. ShownTo(c, plot, n - 1, tailer.pos)
        BY <2>1, <3>1 DEF OfFile, FileShown
      <3>3. p \in Int
        BY <1>2 DEF Unknown
      <3>4. PICK m \in Nat : m = n - 1 /\ m + 1 = n /\ ShownTo(c, plot, m, tailer.pos)
        BY <1>2, <3>1, <3>2
      <3> HIDE DEF p, n
      <3>5. ShownTo(c, plot, m + 1, p)
        BY <1>2, <3>3, <3>4, LaterRound
      <3> QED
        BY <3>4, <3>5
    <2>2. CASE ~Opened(c)
      <3>1. plot = <<>>
        BY <2>2 DEF OfFile
      <3> QED
        BY <3>1 DEF ShownTo
    <2> QED
      BY <2>1, <2>2
  <1>8. FileShown(c, <<>>, p, n, 0, plot, torn')
    <2>1. IsLog(<<>>, c, n, 0) /\ 0 \in 0 .. MaxLines /\ Len(<<>>) = 0
      BY <1>2, EmptyFile, NumberAssumption
    <2>2. p = Unknown \/ p \in 0 .. Len(<<>>)
      BY <2>1
    <2>3. ~torn' => /\ p # Unknown /\ n = 1
                    /\ plot = [i \in 1 .. (IF p = 0 THEN 0 ELSE p - 1) |-> Line(c, 1, i)]
      <3> SUFFICES ASSUME ~torn'
                   PROVE  /\ p # Unknown /\ n = 1
                          /\ plot = [i \in 1 .. (IF p = 0 THEN 0 ELSE p - 1) |-> Line(c, 1, i)]
        OBVIOUS
      <3>1. p = 0 /\ p # Unknown /\ n = 1 /\ plot = <<>>
        BY <1>6 DEF Unknown, OfFile
      <3>2. <<>> = [i \in 1 .. 0 |-> Line(c, 1, i)]
        OBVIOUS
      <3> QED
        BY <3>1, <3>2
    <2> QED
      BY <1>2, <1>7, <2>1, <2>2, <2>3 DEF FileShown
  <1>9. Opened(c)' /\ FileRound(c)' = n /\ FileLines(c)' = 0
    BY <1>1, <1>2 DEF Opened, FileRound, FileLines
  <1>10. CurvesAt(curves', p) /\ (p = 0 => plot' = <<>>)
    <2>1. p # 0 <=> tailer.pos # 0
      BY DEF Unknown
    <2>2. CurvesAt(curves, tailer.pos) /\ (tailer.pos = 0 => plot = <<>>)
      BY DEF OfFile
    <2> HIDE DEF p
    <2>3. CurvesAt(curves, p)
      BY <2>1, <2>2, Zenon DEF CurvesAt
    <2> QED
      BY <1>3, <2>1, <2>2, <2>3
  <1>11. FileShown(c, log'[run'[c].dir], tailer'.pos, FileRound(c)', FileLines(c)', plot', torn')
    BY <1>1, <1>3, <1>4, <1>5, <1>8, <1>9
  <1> HIDE DEF p, n, d
  <1> QED
    BY <1>1, <1>4, <1>5, <1>6, <1>9, <1>10, <1>11 DEF OfFile

LEMMA LogGrows ==
    ASSUME NEW c \in Runs, NEW round \in Nat, NEW k \in Nat, NEW L, IsLog(L, c, round, k),
           NEW G, IsLog(G, c, round, k + 1)
    PROVE  Len(L) \in Nat /\ Len(G) \in Nat /\ Len(L) <= Len(G)
  <1>1. PICK m \in Nat : m = k + 1 /\ IsLog(G, c, round, m)
    OBVIOUS
  <1> QED
    BY <1>1, LogIs

LEMMA FileWritten ==
    ASSUME DisplayTypes, NEW c \in Runs, Counts(c), OfFile(c), WriteLine(c)
    PROVE  OfFile(c)' /\ Counts(c)'
  <1> DEFINE d == run[c].dir
             n == run[c].round
             k == run[c].lines
  <1>1. /\ run'[c].lines = k + 1 /\ run'[c].round = n
        /\ run'[c].open = run[c].open /\ run'[c].dir = d
    BY RunLogs DEF WriteLine
  <1>2. /\ run[c].open /\ k < MaxLines /\ UNCHANGED <<curves, plot, torn>>
        /\ log' = [log EXCEPT ![d] = @ \o NewLines(c)] /\ tailer' = Touched(tailer, d)
    BY DEF WriteLine, HasOutput
  <1>3. n \in Nat \ {0} /\ k \in Nat /\ k + 1 \in 1 .. MaxLines
    BY <1>2, NumberAssumption DEF Counts
  <1>4. /\ Opened(c) /\ FileRound(c) = n /\ FileLines(c) = k
        /\ Opened(c)' /\ FileRound(c)' = n /\ FileLines(c)' = k + 1
    BY <1>1, <1>2 DEF Opened, FileRound, FileLines
  <1>5. d \in DOMAIN log /\ FileShown(c, log[d], tailer.pos, n, k, plot, torn)
    BY <1>4 DEF OfFile
  <1>6. IsLog(log[d], c, n, k)
    BY <1>5 DEF FileShown
  <1>7. d \in DOMAIN log' /\ log'[d] = log[d] \o NewLines(c)
    BY <1>2, <1>5
  <1>8. NewLines(c) = (IF k = 0 THEN <<Line(c, n, 0)>> ELSE <<>>) \o <<Line(c, n, k + 1)>>
    BY DEF NewLines, NewLine, Line
  <1>9. IsLog(log'[d], c, n, k + 1)
    <2>1. log'[d] = File(c, n, k) \o ((IF k = 0 THEN <<Line(c, n, 0)>> ELSE <<>>) \o <<Line(c, n, k + 1)>>)
      BY <1>6, <1>7, <1>8 DEF IsLog
    <2> HIDE DEF n, k, d
    <2>2. log'[d] = File(c, n, k + 1)
      BY <1>3, <2>1, FileGrows
    <2> QED
      BY <2>2 DEF IsLog
  <1>10. /\ tailer \in Tailers /\ tailer.path = d
         /\ tailer' \in Tailers /\ tailer'.path = d /\ tailer'.pos = tailer.pos
    BY <1>2, TouchedTailer DEF OfFile
  <1>11. FileShown(c, log'[d], tailer'.pos, n, k + 1, plot', torn')
    <2> HIDE DEF n, k, d
    <2>1. /\ tailer.pos = Unknown \/ tailer.pos \in 0 .. Len(log[d])
          /\ ShownTo(c, plot, n, tailer.pos)
          /\ ~torn => /\ tailer.pos # Unknown /\ n = 1
                      /\ plot = [i \in 1 .. (IF tailer.pos = 0 THEN 0 ELSE tailer.pos - 1) |->
                                     Line(c, 1, i)]
      BY <1>5 DEF FileShown
    <2>2. PICK L, G : L = log[d] /\ G = log'[d] /\ IsLog(L, c, n, k) /\ IsLog(G, c, n, k + 1)
      BY <1>6, <1>9
    <2>3. Len(L) \in Nat /\ Len(G) \in Nat /\ Len(L) <= Len(G)
      BY <1>3, <2>2, LogGrows
    <2>4. tailer.pos = Unknown \/ tailer.pos \in 0 .. Len(G)
      BY <2>1, <2>2, <2>3
    <2>5. FileShown(c, G, tailer.pos, n, k + 1, plot, torn)
      BY <1>3, <2>1, <2>2, <2>4 DEF FileShown
    <2> QED
      BY <1>2, <1>10, <2>2, <2>5
  <1>12. Counts(c)'
    BY <1>1, <1>3 DEF Counts
  <1>13. /\ CurvesAt(curves', tailer'.pos) /\ (tailer'.pos = 0 => plot' = <<>>)
    BY <1>2, <1>10 DEF OfFile
  <1>14. FileShown(c, log'[run'[c].dir], tailer'.pos, FileRound(c)', FileLines(c)', plot', torn')
    BY <1>1, <1>4, <1>11
  <1> HIDE DEF d, n, k
  <1> QED
    BY <1>1, <1>2, <1>4, <1>7, <1>10, <1>12, <1>13, <1>14 DEF OfFile, d

\* The run goes on, or ends, and nothing else changes.
LEMMA FileKept ==
    ASSUME DisplayTypes, NEW c \in Runs, Counts(c), OfFile(c), NextRound(c) \/ Ends(c)
    PROVE  OfFile(c)' /\ Counts(c)'
  <1>1. UNCHANGED <<log, tailer, curves, plot, torn>>
    BY DEF NextRound, Ends, plotVars
  <1>2. CASE NextRound(c)
    <2>1. /\ run[c].lines = MaxLines /\ run'[c].lines = 0 /\ ~run'[c].open
          /\ run'[c].round = run[c].round + 1 /\ run'[c].dir = run[c].dir
      BY <1>2, RunGoesOn
    <2>2. /\ run[c].round \in Nat \ {0} /\ run[c].open
      BY <2>1, NumberAssumption DEF Counts, OfFile
    <2>3. Opened(c)' /\ Opened(c) /\ FileRound(c)' = FileRound(c) /\ FileLines(c)' = FileLines(c)
      BY <2>1, <2>2 DEF Opened, FileRound, FileLines
    <2>4. Counts(c)'
      BY <2>1, <2>2, NumberAssumption DEF Counts
    <2> QED
      BY <1>1, <2>1, <2>3, <2>4 DEF OfFile
  <1>3. CASE Ends(c)
    <2>1. /\ run'[c].lines = run[c].lines /\ run'[c].round = run[c].round
          /\ run'[c].open = run[c].open /\ run'[c].dir = run[c].dir
      BY <1>3, RunEnds
    <2>2. /\ Opened(c)' = Opened(c) /\ FileRound(c)' = FileRound(c)
          /\ FileLines(c)' = FileLines(c) /\ Counts(c)'
      BY <2>1 DEF Opened, FileRound, FileLines, Counts
    <2> QED
      BY <1>1, <2>1, <2>2 DEF OfFile
  <1> QED
    BY <1>2, <1>3

----------------------------------------------------------------------------
(* The plot of a remote run.                                               *)

Images == [image : Int]
Calls == Lines \cup Images

IsHead(call) == "n" \in DOMAIN call /\ call.n = 0
IsData(call) == "n" \in DOMAIN call /\ call.n # 0

LEMMA CallIs ==
    ASSUME NEW call \in Calls
    PROVE  /\ "n" \in DOMAIN call <=> call \in Lines
           /\ "image" \in DOMAIN call <=> call \in Images
           /\ call \in Lines => (IsHead(call) <=> call.n = 0) /\ (IsData(call) <=> call.n # 0)
           /\ call \in Images => ~IsHead(call) /\ ~IsData(call)
  <1>1. ASSUME call \in Lines PROVE "n" \in DOMAIN call /\ ~("image" \in DOMAIN call)
    BY <1>1 DEF Lines
  <1>2. ASSUME call \in Images PROVE "image" \in DOMAIN call /\ ~("n" \in DOMAIN call)
    BY <1>2 DEF Images
  <1> QED
    BY <1>1, <1>2 DEF Calls, IsHead, IsData

\* How many lines a run has logged, and which is the i-th.
Total(r) == (run[r].round - 1) * MaxLines + run[r].lines
Nth(r, i) == Line(r, (i - 1) \div MaxLines + 1, ((i - 1) % MaxLines) + 1)

LEMMA NthFields ==
    ASSUME NEW r \in Runs, NEW i \in Nat \ {0}
    PROVE  /\ Nth(r, i) \in Lines /\ Nth(r, i).run = r
           /\ Nth(r, i).round = (i - 1) \div MaxLines + 1
           /\ Nth(r, i).n = ((i - 1) % MaxLines) + 1
           /\ Nth(r, i).n # 0
  <1>1. PICK m \in Nat, p \in Nat \ {0} : m = i - 1 /\ p = MaxLines
    BY NumberAssumption
  <1>2. m \div p \in Nat /\ m % p \in 0 .. p - 1
    BY DivMod
  <1>3. PICK a \in Nat, b \in Nat : a = m \div p + 1 /\ b = (m % p) + 1 /\ b # 0
    BY <1>1, <1>2
  <1>4. Nth(r, i) = Line(r, a, b)
    BY <1>1, <1>3 DEF Nth
  <1> QED
    BY <1>1, <1>3, <1>4, LineFields

LEMMA NthOrder ==
    ASSUME NEW r \in Runs, NEW i \in Nat \ {0}, NEW j \in Nat \ {0}, i < j
    PROVE  Before(Nth(r, i), Nth(r, j))
  <1>1. PICK m \in Nat, k \in Nat, p \in Nat \ {0} : m = i - 1 /\ k = j - 1 /\ p = MaxLines
    BY NumberAssumption
  <1>2. PICK a \in Nat, b \in 0 .. p - 1 : a = m \div p /\ b = m % p /\ m = a * p + b
    BY DivMod
  <1>3. PICK d \in Nat, e \in 0 .. p - 1 : d = k \div p /\ e = k % p /\ k = d * p + e
    BY DivMod
  <1>4. a < d \/ (a = d /\ b < e)
    <2>1. m < k
      BY <1>1
    <2>2. d < a => d * p + p <= a * p
      BY Larger
    <2>3. a * p \in Nat /\ d * p \in Nat
      OBVIOUS
    <2>4. ~(d < a)
      BY <1>2, <1>3, <2>1, <2>2, <2>3
    <2> QED
      BY <1>2, <1>3, <2>1, <2>3, <2>4
  <1>5. /\ Nth(r, i).round = a + 1 /\ Nth(r, i).n = b + 1
        /\ Nth(r, j).round = d + 1 /\ Nth(r, j).n = e + 1
    BY <1>1, <1>2, <1>3, NthFields
  <1> QED
    BY <1>4, <1>5 DEF Before

\* The line a run logs next is the one behind all it has logged.
LEMMA NextIsNth ==
    ASSUME NEW r \in Runs, Counts(r), run[r].lines < MaxLines
    PROVE  /\ Total(r) \in Nat
           /\ NewLine(r, run[r].lines + 1) = Nth(r, Total(r) + 1)
  <1>0. PICK q \in Nat, p \in Nat \ {0} : q = run[r].round - 1 /\ p = MaxLines
    BY NumberAssumption DEF Counts
  <1>1. PICK k \in 0 .. p - 1 : k = run[r].lines
    BY <1>0 DEF Counts
  <1>2. PICK t \in Nat : t = q * p + k /\ t = Total(r)
    <2>1. q * p \in Nat
      OBVIOUS
    <2> QED
      BY <1>0, <1>1, <2>1 DEF Total
  <1>3. t \div p = q /\ t % p = k
    BY <1>2, PlaceOf
  <1>4. t + 1 - 1 = t /\ q + 1 = run[r].round
    BY <1>0 DEF Counts
  <1>5. Nth(r, t + 1) = Line(r, q + 1, k + 1)
    BY <1>0, <1>1, <1>3, <1>4 DEF Nth
  <1> QED
    BY <1>0, <1>1, <1>2, <1>4, <1>5 DEF NewLine, Line

\* Among the calls of a run under way are the lines behind the first a of it,
\* up to line b, each once and in order.
Counted(r, w, a, b) ==
    \E f \in [0 .. Len(w) -> Nat] :
        /\ f[0] = a /\ f[Len(w)] = b
        /\ \A j \in 1 .. Len(w) :
               IF IsData(w[j]) THEN f[j] = f[j - 1] + 1 /\ w[j] = Nth(r, f[j])
               ELSE f[j] = f[j - 1]

LEMMA CountedAppend ==
    ASSUME NEW r, NEW w \in Seq(Calls), NEW a \in Nat, NEW b \in Nat, Counted(r, w, a, b),
           NEW x \in Calls, NEW e \in Nat,
           IF IsData(x) THEN e = b + 1 /\ x = Nth(r, e) ELSE e = b
    PROVE  Counted(r, Append(w, x), a, e)
  <1> DEFINE v == Append(w, x)
             n == Len(w)
  <1>1. /\ n \in Nat /\ v \in Seq(Calls) /\ Len(v) = n + 1 /\ v[n + 1] = x
        /\ \A j \in 1 .. n : v[j] = w[j]
    OBVIOUS
  <1>2. PICK f \in [0 .. n -> Nat] :
            /\ f[0] = a /\ f[n] = b
            /\ \A j \in 1 .. n :
                   IF IsData(w[j]) THEN f[j] = f[j - 1] + 1 /\ w[j] = Nth(r, f[j])
                   ELSE f[j] = f[j - 1]
    BY DEF Counted
  <1> HIDE DEF v, n
  <1> DEFINE g == [j \in 0 .. n + 1 |-> IF j = n + 1 THEN e ELSE f[j]]
  <1>3. /\ g \in [0 .. n + 1 -> Nat] /\ g[n + 1] = e
        /\ \A j \in 0 .. n : g[j] = f[j]
    BY <1>1
  <1> HIDE DEF g
  <1>4. ASSUME NEW j \in 1 .. n + 1
        PROVE  IF IsData(v[j]) THEN g[j] = g[j - 1] + 1 /\ v[j] = Nth(r, g[j])
               ELSE g[j] = g[j - 1]
    <2>1. CASE j \in 1 .. n
      <3>1. j \in 0 .. n /\ j - 1 \in 0 .. n
        BY <1>1, <2>1
      <3> QED
        BY <1>1, <1>2, <1>3, <2>1, <3>1
    <2>2. CASE j = n + 1
      <3>1. n \in 0 .. n /\ j - 1 = n /\ g[j - 1] = b /\ g[j] = e /\ v[j] = x
        BY <1>1, <1>2, <1>3, <2>2
      <3> QED
        BY <3>1
    <2> QED
      BY <1>1, <2>1, <2>2
  <1>5. 0 \in 0 .. n /\ g[0] = a
    BY <1>1, <1>2, <1>3
  <1>6. Counted(r, v, a, e)
    BY <1>1, <1>3, <1>4, <1>5 DEF Counted
  <1> QED
    BY <1>6 DEF v

LEMMA CountedTail ==
    ASSUME NEW r, NEW w \in Seq(Calls), NEW a \in Nat, NEW b \in Nat, Counted(r, w, a, b),
           w # <<>>
    PROVE  \E e \in Nat : /\ Counted(r, Tail(w), e, b)
                          /\ IF IsData(Head(w)) THEN e = a + 1 /\ Head(w) = Nth(r, e)
                             ELSE e = a
  <1> DEFINE v == Tail(w)
             n == Len(w)
  <1>1. /\ n \in Nat \ {0} /\ v \in Seq(Calls) /\ Len(v) = n - 1 /\ Head(w) = w[1]
        /\ \A j \in 1 .. n - 1 : v[j] = w[j + 1]
    OBVIOUS
  <1>2. PICK f \in [0 .. n -> Nat] :
            /\ f[0] = a /\ f[n] = b
            /\ \A j \in 1 .. n :
                   IF IsData(w[j]) THEN f[j] = f[j - 1] + 1 /\ w[j] = Nth(r, f[j])
                   ELSE f[j] = f[j - 1]
    BY DEF Counted
  <1> HIDE DEF v, n
  <1> DEFINE g == [j \in 0 .. n - 1 |-> f[j + 1]]
  <1>3. /\ g \in [0 .. n - 1 -> Nat]
        /\ \A j \in 0 .. n - 1 : g[j] = f[j + 1] /\ j + 1 \in 0 .. n
    <2>1. \A j \in 0 .. n - 1 : j + 1 \in 0 .. n
      BY <1>1
    <2> QED
      BY <2>1
  <1> HIDE DEF g
  <1>4. ASSUME NEW j \in 1 .. n - 1
        PROVE  IF IsData(v[j]) THEN g[j] = g[j - 1] + 1 /\ v[j] = Nth(r, g[j])
               ELSE g[j] = g[j - 1]
    <2>1. /\ j \in 0 .. n - 1 /\ j - 1 \in 0 .. n - 1 /\ j - 1 + 1 = j /\ j + 1 - 1 = j
          /\ j + 1 \in 1 .. n
      BY <1>1
    <2>2. g[j] = f[j + 1] /\ g[j - 1] = f[j] /\ v[j] = w[j + 1]
      BY <1>1, <1>3, <2>1
    <2>3. PICK i \in 1 .. n : i = j + 1 /\ i - 1 = j
      BY <2>1
    <2>4. IF IsData(w[i]) THEN f[i] = f[i - 1] + 1 /\ w[i] = Nth(r, f[i]) ELSE f[i] = f[i - 1]
      BY <1>2
    <2> QED
      BY <2>2, <2>3, <2>4
  <1>5. g[0] = f[1] /\ g[n - 1] = b
    <2>1. 0 \in 0 .. n - 1 /\ n - 1 \in 0 .. n - 1 /\ n - 1 + 1 = n /\ 0 + 1 = 1
      BY <1>1
    <2> QED
      BY <1>2, <1>3, <2>1
  <1>6. 1 \in 1 .. n /\ 1 - 1 = 0 /\ f[1] \in Nat
    BY <1>1, <1>2
  <1>7. IF IsData(w[1]) THEN f[1] = a + 1 /\ w[1] = Nth(r, f[1]) ELSE f[1] = a
    BY <1>2, <1>6
  <1>8. Counted(r, v, f[1], b)
    BY <1>1, <1>3, <1>4, <1>5 DEF Counted
  <1> QED
    BY <1>1, <1>6, <1>7, <1>8 DEF v

LEMMA CountedUp ==
    ASSUME NEW r, NEW w \in Seq(Calls), NEW a \in Nat, NEW b \in Nat, Counted(r, w, a, b)
    PROVE  a <= b
  <1> DEFINE n == Len(w)
  <1>1. PICK f \in [0 .. n -> Nat] :
            /\ f[0] = a /\ f[n] = b
            /\ \A j \in 1 .. n : f[j] = f[j - 1] + 1 \/ f[j] = f[j - 1]
    BY DEF Counted
  <1>2. n \in Nat
    OBVIOUS
  <1> HIDE DEF n
  <1> DEFINE T == {i \in Nat : i <= n => a <= f[i]}
  <1>3. 0 \in T
    BY <1>1
  <1>4. ASSUME NEW i \in Nat, i \in T PROVE i + 1 \in T
    <2> SUFFICES ASSUME i + 1 <= n PROVE a <= f[i + 1]
      OBVIOUS
    <2>1. i + 1 \in 1 .. n /\ i + 1 - 1 = i /\ i \in 0 .. n /\ i + 1 \in 0 .. n
      BY <1>2
    <2>2. a <= f[i]
      BY <1>4, <2>1
    <2>3. f[i + 1] = f[i] + 1 \/ f[i + 1] = f[i]
      BY <1>1, <2>1
    <2>4. f[i] \in Nat
      BY <1>1, <2>1
    <2> QED
      BY <2>2, <2>3, <2>4
  <1> HIDE DEF T
  <1>5. n \in T
    BY <1>2, <1>3, <1>4, Induct
  <1> QED
    BY <1>1, <1>2, <1>5 DEF T

\* What is under way when the plot shows k lines of t; without curves in the plot
\* nothing was received, and the header comes first.
Underway(c, w, k, t, made) ==
    /\ w \in Seq(Calls) /\ k \in Nat /\ t \in Nat /\ Counted(c, w, k, t)
    /\ \/ made = TRUE
       \/ /\ made = FALSE /\ k = 0 /\ (w = <<>> => t = 0)
          /\ w # <<>> => IsHead(w[1])

LEMMA UnderwaySent ==
    ASSUME NEW c \in Runs, Counts(c), run[c].lines < MaxLines,
           NEW w, NEW k, NEW made, Underway(c, w, k, Total(c), made),
           NEW v, v = w \o NewLines(c) \o <<[image |-> run[c].lines + 1]>>
    PROVE  Underway(c, v, k, Total(c) + 1, made)
  <1>1. PICK t \in Nat : t = Total(c) /\ Underway(c, w, k, t, made)
    BY NextIsNth
  <1>2. PICK d \in Lines : d = NewLine(c, run[c].lines + 1) /\ d = Nth(c, t + 1) /\ IsData(d)
    <2>1. NewLine(c, run[c].lines + 1) = Nth(c, t + 1)
      BY <1>1, NextIsNth
    <2>2. Nth(c, t + 1) \in Lines /\ Nth(c, t + 1).n # 0
      <3>1. PICK i \in Nat \ {0} : i = t + 1
        BY <1>1
      <3> QED
        BY <3>1, NthFields
    <2>3. PICK d \in Lines : d = NewLine(c, run[c].lines + 1) /\ d = Nth(c, t + 1) /\ d.n # 0
      BY <2>1, <2>2
    <2>4. d \in Calls
      BY DEF Calls
    <2>5. IsData(d)
      BY <2>3, <2>4, CallIs
    <2> QED
      BY <2>3, <2>5
  <1>3. PICK h \in Lines : h = NewLine(c, 0) /\ IsHead(h) /\ ~IsData(h)
    <2>1. run[c].round \in Nat
      BY DEF Counts
    <2>2. PICK h \in Lines : h = Line(c, run[c].round, 0) /\ h.n = 0
      BY <2>1, LineFields
    <2>3. h \in Calls
      BY DEF Calls
    <2>4. IsHead(h) /\ ~IsData(h)
      BY <2>2, <2>3, CallIs
    <2> QED
      BY <2>2, <2>4 DEF Line, NewLine
  <1>4. PICK m \in Images : m = [image |-> run[c].lines + 1] /\ ~IsData(m)
    <2>1. run[c].lines + 1 \in Int
      BY NumberAssumption DEF Counts
    <2>2. PICK m \in Images : m = [image |-> run[c].lines + 1]
      BY <2>1 DEF Images
    <2>3. m \in Calls
      BY DEF Calls
    <2> QED
      BY <2>2, <2>3, CallIs
  <1>5. h \in Calls /\ d \in Calls /\ m \in Calls
    BY DEF Calls
  <1>6. w \in Seq(Calls) /\ k \in Nat /\ Counted(c, w, k, t)
    BY <1>1 DEF Underway
  <1>7. PICK w1 \in Seq(Calls) : /\ w1 = IF run[c].lines = 0 THEN Append(w, h) ELSE w
                                 /\ Counted(c, w1, k, t)
    <2>1. Counted(c, Append(w, h), k, t) /\ Append(w, h) \in Seq(Calls)
      BY <1>1, <1>3, <1>5, <1>6, CountedAppend
    <2> QED
      BY <1>6, <2>1
  <1>8. PICK w2 \in Seq(Calls) : w2 = Append(w1, d) /\ Counted(c, w2, k, t + 1)
    <2>1. PICK e \in Nat : e = t + 1 /\ d = Nth(c, e)
      BY <1>1, <1>2
    <2>2. d \in Calls /\ IF IsData(d) THEN e = t + 1 /\ d = Nth(c, e) ELSE e = t
      BY <1>2, <1>5, <2>1
    <2>3. w1 \in Seq(Calls) /\ Counted(c, w1, k, t) /\ t \in Nat /\ k \in Nat
      BY <1>6, <1>7
    <2>4. Counted(c, Append(w1, d), k, e)
      BY <2>1, <2>2, <2>3, CountedAppend
    <2>5. Append(w1, d) \in Seq(Calls)
      BY <1>5, <2>3
    <2> QED
      BY <2>1, <2>4, <2>5
  <1>9. PICK w3 \in Seq(Calls) : w3 = Append(w2, m) /\ Counted(c, w3, k, t + 1)
    <2>1. PICK e \in Nat : e = t + 1 /\ Counted(c, w2, k, e)
      BY <1>1, <1>8
    <2>2. m \in Calls /\ IF IsData(m) THEN e = e + 1 /\ m = Nth(c, e) ELSE e = e
      BY <1>4, <1>5
    <2>3. Counted(c, Append(w2, m), k, e)
      BY <1>6, <1>8, <2>1, <2>2, CountedAppend
    <2>4. Append(w2, m) \in Seq(Calls)
      BY <1>5, <1>8
    <2> QED
      BY <2>1, <2>3, <2>4
  <1>10. v = w3
    <2>1. NewLines(c) = (IF run[c].lines = 0 THEN <<h>> ELSE <<>>) \o <<d>>
      BY <1>2, <1>3 DEF NewLines
    <2>2. w \o NewLines(c) = w2
      <3>1. CASE run[c].lines = 0
        <4>1. NewLines(c) = <<h, d>>
          <5>1. NewLines(c) = <<h>> \o <<d>>
            BY <2>1, <3>1
          <5> QED
            BY <5>1, TwoLines
        <4>2. w \o <<h, d>> = Append(Append(w, h), d)
          BY <1>5, <1>6
        <4> QED
          BY <1>7, <1>8, <3>1, <4>1, <4>2
      <3>2. CASE run[c].lines # 0
        <4>1. NewLines(c) = <<d>>
          BY <2>1, <3>2
        <4>2. w \o <<d>> = Append(w, d)
          BY <1>5, <1>6
        <4> QED
          BY <1>7, <1>8, <3>2, <4>1, <4>2
      <3> QED
        BY <3>1, <3>2
    <2>3. w2 \o <<m>> = Append(w2, m)
      BY <1>5
    <2> QED
      BY <1>4, <1>9, <2>2, <2>3
  <1>13. PICK e \in Nat : e = Total(c) + 1 /\ v \in Seq(Calls) /\ Counted(c, v, k, e)
    <2>1. PICK e \in Nat : e = t + 1 /\ Counted(c, w3, k, e)
      BY <1>9
    <2> QED
      BY <1>1, <1>9, <1>10, <2>1
  <1>11. CASE made = TRUE
    <2>1. Underway(c, v, k, e, made)
      BY <1>6, <1>11, <1>13 DEF Underway
    <2> QED
      BY <1>13, <2>1
  <1>12. CASE made # TRUE
    <2>1. made = FALSE /\ k = 0 /\ (w = <<>> => t = 0) /\ (w # <<>> => IsHead(w[1]))
      BY <1>1, <1>12 DEF Underway
    <2>2. w3 # <<>> /\ IsHead(w3[1])
      <3>1. CASE w # <<>>
        <4>1. w1[1] = w[1] /\ Len(w1) \in Nat \ {0}
          BY <1>5, <1>6, <1>7, <3>1
        <4>2. w2[1] = w1[1] /\ Len(w2) \in Nat \ {0}
          BY <1>5, <1>8, <4>1
        <4>3. w3[1] = w2[1] /\ w3 # <<>>
          BY <1>5, <1>9, <4>2, AppendProperties
        <4> QED
          BY <2>1, <3>1, <4>1, <4>2, <4>3
      <3>2. CASE w = <<>>
        <4>1. run[c].lines = 0
          <5>1. PICK q \in Nat, p \in Nat : q = run[c].round - 1 /\ p = MaxLines
            BY NumberAssumption DEF Counts
          <5>2. q * p \in Nat
            BY <5>1
          <5>3. Total(c) = q * p + run[c].lines /\ Total(c) = 0
            BY <1>1, <2>1, <3>2, <5>1 DEF Total
          <5>4. run[c].lines \in Nat
            BY NumberAssumption DEF Counts
          <5> QED
            BY <5>2, <5>3, <5>4
        <4>2. w1 = <<h>> /\ w1[1] = h /\ Len(w1) = 1
          BY <1>5, <1>7, <3>2, <4>1
        <4>3. w2[1] = w1[1] /\ Len(w2) \in Nat \ {0}
          BY <1>5, <1>8, <4>2
        <4>4. w3[1] = w2[1] /\ w3 # <<>>
          BY <1>5, <1>9, <4>3, AppendProperties
        <4> QED
          BY <1>3, <4>2, <4>3, <4>4
      <3> QED
        BY <3>1, <3>2
    <2>3. v # <<>> /\ IsHead(v[1])
      BY <1>10, <2>2
    <2>4. Underway(c, v, k, e, made)
      BY <1>6, <1>13, <2>1, <2>3 DEF Underway
    <2> QED
      BY <1>13, <2>4
  <1> QED
    BY <1>11, <1>12

\* An image is received.
LEMMA UnderwayImage ==
    ASSUME NEW c \in Runs, NEW w, NEW k, NEW t, NEW made, Underway(c, w, k, t, made),
           w # <<>>, "image" \in DOMAIN Head(w)
    PROVE  Underway(c, Tail(w), k, t, made)
  <1>1. w \in Seq(Calls) /\ k \in Nat /\ t \in Nat /\ Counted(c, w, k, t)
    BY DEF Underway
  <1>2. PICK x \in Calls : x = Head(w) /\ x = w[1]
    BY <1>1
  <1>3. ~IsHead(x) /\ ~IsData(x)
    BY <1>2, CallIs
  <1>4. made = TRUE
    BY <1>2, <1>3 DEF Underway
  <1>5. Counted(c, Tail(w), k, t)
    <2>1. PICK e \in Nat : /\ Counted(c, Tail(w), e, t)
                           /\ IF IsData(Head(w)) THEN e = k + 1 /\ Head(w) = Nth(c, e) ELSE e = k
      BY <1>1, CountedTail
    <2> QED
      BY <1>2, <1>3, <2>1
  <1>6. Tail(w) \in Seq(Calls)
    BY <1>1
  <1> QED
    BY <1>1, <1>4, <1>5, <1>6 DEF Underway

Shows(c, shown, k) == shown = [i \in 1 .. k |-> Nth(c, i)]

LEMMA ShownAre ==
    ASSUME NEW c \in Runs, NEW k \in Nat, NEW shown, Shows(c, shown, k)
    PROVE  /\ shown \in Seq(Lines) /\ Len(shown) = k
           /\ \A i \in 1 .. k : shown[i] = Nth(c, i)
  <1>1. \A i \in 1 .. k : Nth(c, i) \in Lines
    BY NthFields
  <1> QED
    BY <1>1 DEF Shows

\* A line is received, and goes to the plot.
LEMMA UnderwayLine ==
    ASSUME NEW c \in Runs, NEW w, NEW k, NEW t, NEW made, Underway(c, w, k, t, made),
           w # <<>>, "n" \in DOMAIN Head(w),
           NEW shown, Shows(c, shown, k), Parse(shown, made, <<Head(w)>>)
    PROVE  \E e : Shows(c, plot', e) /\ Underway(c, Tail(w), e, t, curves')
  <1>1. w \in Seq(Calls) /\ k \in Nat /\ t \in Nat /\ Counted(c, w, k, t) /\ made \in BOOLEAN
    BY DEF Underway
  <1>2. PICK x \in Calls : x = Head(w) /\ x = w[1]
    BY <1>1
  <1>3. x \in Lines /\ (IsHead(x) <=> x.n = 0) /\ (IsData(x) <=> x.n # 0)
    BY <1>2, CallIs
  <1>4. made = TRUE \/ (made = FALSE /\ x.n = 0)
    BY <1>2, <1>3 DEF Underway
  <1>5. shown \in Seq(Lines) /\ Len(shown) = k /\ \A i \in 1 .. k : shown[i] = Nth(c, i)
    BY <1>1, ShownAre
  <1>6. PICK ls \in Seq(Lines) : ls = <<x>> /\ Len(ls) = 1 /\ ls[1] = x /\ Parse(shown, made, ls)
    BY <1>2, <1>3
  <1>7. PICK D : /\ curves' = (made \/ ls # <<>>)
                 /\ IsRest(D, ls, FirstData(ls)) /\ plot' = shown \o D
    <2>1. \A i \in 2 .. Len(ls) : ls[i].n # 0
      BY <1>6
    <2>2. made \/ ls = <<>> \/ ls[1].n = 0
      BY <1>4, <1>6
    <2> QED
      BY <1>1, <1>5, <1>6, <2>1, <2>2, ParsesAll, Zenon
  <1>12. ls \in Seq(Lines) /\ Len(ls) = 1 /\ ls[1] = x
    BY <1>6
  <1>8. ls # <<>> /\ curves' = TRUE
    <2>1. ls # <<>>
      BY <1>6
    <2> QED
      BY <1>7, <2>1, Zenon
  <1>9. PICK e \in Nat : /\ Counted(c, Tail(w), e, t)
                         /\ IF IsData(Head(w)) THEN e = k + 1 /\ Head(w) = Nth(c, e) ELSE e = k
    BY <1>1, CountedTail
  <1>10. CASE x.n = 0
    <2>1. e = k
      BY <1>2, <1>3, <1>9, <1>10
    <2>2. FirstData(ls) = 2
      BY <1>6, <1>8, <1>10 DEF FirstData
    <2>3. D = <<>>
      <3>1. PICK q \in 1 .. Len(ls) + 1 : q = 2 /\ IsRest(D, ls, q)
        BY <1>7, <1>12, <2>2
      <3>2. ls \in Seq(Lines)
        BY <1>12
      <3>3. D \in Seq(Lines) /\ Len(D) = Len(ls) - q + 1
        BY <3>1, <3>2, RestIs
      <3> QED
        BY <1>12, <3>1, <3>3
    <2>4. plot' = shown
      BY <1>5, <1>7, <2>3
    <2>5. Underway(c, Tail(w), e, t, curves')
      BY <1>1, <1>8, <1>9 DEF Underway
    <2> QED
      BY <2>1, <2>4, <2>5
  <1>11. CASE x.n # 0
    <2>1. e = k + 1 /\ x = Nth(c, e)
      BY <1>2, <1>3, <1>9, <1>11
    <2>2. FirstData(ls) = 1
      BY <1>6, <1>11 DEF FirstData
    <2>3. D = ls
      <3>1. D = SubSeq(ls, 1, Len(ls))
        BY <1>7, <2>2 DEF IsRest
      <3> QED
        BY <1>12, <3>1
    <2>4. plot' = Append(shown, x)
      <3>1. shown \o <<x>> = Append(shown, x)
        BY <1>3, <1>5
      <3> QED
        BY <1>6, <1>7, <2>3, <3>1
    <2>5. Shows(c, plot', e)
      <3>0. Append(shown, x) \in Seq(Lines)
        BY <1>3, <1>5
      <3>1. PICK P \in Seq(Lines) : P = Append(shown, x)
        BY <3>0
      <3>2. Len(P) = e /\ P[e] = x /\ \A i \in 1 .. k : P[i] = shown[i]
        BY <1>1, <1>3, <1>5, <2>1, <3>1
      <3>3. \A i \in 1 .. e : P[i] = Nth(c, i)
        BY <1>1, <1>5, <2>1, <3>2
      <3>4. P = [i \in 1 .. e |-> Nth(c, i)]
        BY <3>2, <3>3
      <3> QED
        BY <2>4, <3>1, <3>4 DEF Shows
    <2>6. Underway(c, Tail(w), e, t, curves')
      BY <1>1, <1>8, <1>9 DEF Underway
    <2> QED
      BY <2>5, <2>6
  <1> QED
    BY <1>10, <1>11

\* A run is in the tables from when it tells its key until its connection is lost.
Tabled ==
    /\ \A r \in Runs : r \in listed <=> client[r] # NoClient /\ r \notin recovered
    /\ \A r \in recovered : r \in Started /\ run[r].dir # Cwd

OfCalls(c) ==
    /\ tailer.calls /\ ~tailer.watching /\ ~tailer.changed /\ ~tailer.timer
    /\ \E k \in Nat :
           /\ k <= Total(c) /\ Shows(c, plot, k)
           /\ c \notin recovered => Underway(c, wire[c], k, Total(c), curves)

LEMMA CallsKept ==
    ASSUME NEW c \in Runs, OfCalls(c), UNCHANGED <<tailer, curves, plot>>,
           wire'[c] = wire[c], Total(c)' = Total(c), recovered \subseteq recovered'
    PROVE  OfCalls(c)'
  <1>1. PICK k \in Nat :
            /\ k <= Total(c) /\ Shows(c, plot, k)
            /\ c \notin recovered => Underway(c, wire[c], k, Total(c), curves)
    BY DEF OfCalls
  <1>2. /\ k <= Total(c)' /\ Shows(c, plot', k)
        /\ c \notin recovered' => Underway(c, wire'[c], k, Total(c)', curves')
    BY <1>1
  <1>3. tailer'.calls /\ ~tailer'.watching /\ ~tailer'.changed /\ ~tailer'.timer
    BY DEF OfCalls
  <1> QED
    BY <1>2, <1>3 DEF OfCalls

LEMMA CallsSent ==
    ASSUME DisplayTypes, NEW c \in Runs, Counts(c), OfCalls(c), SendOutput(c)
    PROVE  OfCalls(c)' /\ Counts(c)'
  <1>1. /\ run' = [run EXCEPT ![c].lines = @ + 1] /\ run[c].lines < MaxLines
        /\ wire' = [wire EXCEPT ![c] = @ \o NewLines(c) \o <<[image |-> run[c].lines + 1]>>]
        /\ UNCHANGED <<recovered, tailer, curves, plot>>
    BY DEF SendOutput, HasOutput, plotVars
  <1>2. /\ run'[c].lines = run[c].lines + 1 /\ run'[c].round = run[c].round
    BY <1>1, RunLogs
  <1>3. run[c].round \in Nat /\ run[c].lines \in Nat /\ MaxLines \in Nat /\ Total(c) \in Nat
    BY <1>1, NumberAssumption, NextIsNth DEF Counts
  <1>4. PICK q \in Int : q = (run[c].round - 1) * MaxLines
    <2>1. run[c].round - 1 \in Int
      BY <1>3
    <2> QED
      BY <1>3, <2>1
  <1>5. Total(c)' = Total(c) + 1
    <2>1. Total(c) = q + run[c].lines /\ Total(c)' = q + (run[c].lines + 1)
      BY <1>2, <1>4 DEF Total
    <2> QED
      BY <1>3, <1>4, <2>1
  <1>6. Counts(c)'
    BY <1>1, <1>2, <1>3 DEF Counts
  <1>7. PICK k \in Nat :
            /\ k <= Total(c) /\ Shows(c, plot, k)
            /\ c \notin recovered => Underway(c, wire[c], k, Total(c), curves)
    BY DEF OfCalls
  <1>8. c \notin recovered => Underway(c, wire'[c], k, Total(c) + 1, curves)
    <2> SUFFICES ASSUME c \notin recovered
                 PROVE  Underway(c, wire'[c], k, Total(c) + 1, curves)
      OBVIOUS
    <2>1. PICK w : w = wire[c] /\ Underway(c, w, k, Total(c), curves)
      BY <1>7
    <2>2. PICK v : v = wire'[c] /\ v = w \o NewLines(c) \o <<[image |-> run[c].lines + 1]>>
      BY <1>1, <2>1 DEF DisplayTypes
    <2>3. PICK made : made = curves /\ Underway(c, w, k, Total(c), made)
      BY <2>1
    <2>4. Underway(c, v, k, Total(c) + 1, made)
      BY <1>1, <2>2, <2>3, UnderwaySent
    <2> QED
      BY <2>2, <2>3, <2>4
  <1>9. k <= Total(c) + 1
    BY <1>3, <1>7
  <1>10. /\ k <= Total(c)' /\ Shows(c, plot', k)
         /\ c \notin recovered' => Underway(c, wire'[c], k, Total(c)', curves')
    BY <1>1, <1>5, <1>7, <1>8, <1>9
  <1>11. tailer'.calls /\ ~tailer'.watching /\ ~tailer'.changed /\ ~tailer'.timer
    BY <1>1 DEF OfCalls
  <1> QED
    BY <1>6, <1>10, <1>11 DEF OfCalls

\* A step of a remote run in which the number of its lines is the same.
LEMMA SameTotal ==
    ASSUME NEW c \in Runs, run'[c].round = run[c].round, run'[c].lines = run[c].lines,
           Counts(c)
    PROVE  Total(c)' = Total(c) /\ Counts(c)'
  BY DEF Total, Counts

LEMMA CallsReceived ==
    ASSUME DisplayTypes, Tabled, NEW c \in Runs, Counts(c), OfCalls(c),
           ReceiveLogLine(c) \/ ReceiveImageOutput(c)
    PROVE  OfCalls(c)' /\ Counts(c)'
  <1>1. /\ UNCHANGED <<run, recovered>> /\ client[c] # NoClient /\ wire[c] # <<>>
        /\ wire' = [wire EXCEPT ![c] = Tail(@)]
    BY DEF ReceiveLogLine, ReceiveImageOutput, Incoming, Received
  <1>2. wire'[c] = Tail(wire[c])
    BY <1>1 DEF DisplayTypes
  <1>3. Total(c)' = Total(c) /\ Counts(c)'
    BY <1>1, SameTotal
  <1>4. PICK k \in Nat :
            /\ k <= Total(c) /\ Shows(c, plot, k)
            /\ c \notin recovered => Underway(c, wire[c], k, Total(c), curves)
    BY DEF OfCalls
  <1>5. PICK w, made, shown, t :
            /\ w = wire[c] /\ made = curves /\ shown = plot /\ t = Total(c) /\ w # <<>>
            /\ k <= t /\ Shows(c, shown, k)
            /\ c \notin recovered => Underway(c, w, k, t, made)
    BY <1>1, <1>4
  <1>6. tailer' = tailer
    <2>1. CASE ReceiveLogLine(c)
      BY <2>1 DEF ReceiveLogLine, OfCalls, Touched
    <2>2. CASE ReceiveImageOutput(c)
      BY <2>2 DEF ReceiveImageOutput, plotVars
    <2> QED
      BY <2>1, <2>2
  <1>7. \E e \in Nat : /\ e <= t /\ Shows(c, plot', e)
                       /\ c \notin recovered => Underway(c, Tail(w), e, t, curves')
    <2>1. CASE c \in listed /\ ReceiveLogLine(c)
      <3>1. c \notin recovered
        BY <2>1 DEF Tabled
      <3>2. "n" \in DOMAIN Head(w) /\ Parse(shown, made, <<Head(w)>>)
        BY <1>5, <2>1 DEF ReceiveLogLine, NextCall, OfCalls
      <3>3. PICK e : Shows(c, plot', e) /\ Underway(c, Tail(w), e, t, curves')
        BY <1>5, <3>1, <3>2, UnderwayLine
      <3>4. PICK v : v = Tail(w) /\ Underway(c, v, e, t, curves')
        BY <3>3
      <3>5. v \in Seq(Calls) /\ e \in Nat /\ t \in Nat /\ Counted(c, v, e, t)
        BY <3>4 DEF Underway
      <3>6. e <= t
        BY <3>5, CountedUp
      <3> QED
        BY <3>3, <3>5, <3>6
    <2>2. CASE c \notin listed /\ ReceiveLogLine(c)
      <3>1. plot' = plot
        BY <2>2 DEF ReceiveLogLine
      <3>2. c \in recovered
        BY <1>1, <2>2 DEF Tabled
      <3> QED
        BY <1>5, <3>1, <3>2
    <2>3. CASE ReceiveImageOutput(c)
      <3>1. UNCHANGED <<curves, plot>> /\ "image" \in DOMAIN Head(w)
        BY <1>5, <2>3 DEF ReceiveImageOutput, NextCall, plotVars
      <3>2. c \notin recovered => Underway(c, Tail(w), k, t, made)
        BY <1>5, <3>1, UnderwayImage
      <3> QED
        BY <1>5, <3>1, <3>2
    <2> QED
      BY <2>1, <2>2, <2>3
  <1>8. \E e \in Nat : /\ e <= Total(c)' /\ Shows(c, plot', e)
                       /\ c \notin recovered' => Underway(c, wire'[c], e, Total(c)', curves')
    BY <1>1, <1>2, <1>3, <1>5, <1>7
  <1>9. tailer'.calls /\ ~tailer'.watching /\ ~tailer'.changed /\ ~tailer'.timer
    BY <1>6 DEF OfCalls
  <1> QED
    BY <1>3, <1>8, <1>9 DEF OfCalls

LEMMA CallsRecover ==
    ASSUME DisplayTypes, NEW c \in Runs, Counts(c), OfCalls(c), NEW a, Recover(c, a)
    PROVE  OfCalls(c)' /\ Counts(c)'
  <1>1. UNCHANGED <<run, tailer, curves, plot>> /\ recovered' = recovered \cup {c}
    BY DEF Recover, plotVars
  <1>2. Total(c)' = Total(c) /\ Counts(c)'
    BY <1>1, SameTotal
  <1>3. PICK k \in Nat : k <= Total(c) /\ Shows(c, plot, k)
    BY DEF OfCalls
  <1>4. k <= Total(c)' /\ Shows(c, plot', k) /\ c \in recovered'
    BY <1>1, <1>2, <1>3
  <1>5. tailer'.calls /\ ~tailer'.watching /\ ~tailer'.changed /\ ~tailer'.timer
    BY <1>1 DEF OfCalls
  <1> QED
    BY <1>2, <1>4, <1>5 DEF OfCalls

\* The run goes on to the next round, ends, tells its key or hangs up.
LEMMA CallsGoOn ==
    ASSUME DisplayTypes, NEW c \in Runs, Counts(c), OfCalls(c),
           \/ NextRound(c) \/ Ends(c) \/ ClientDisconnected(c)
           \/ \E a \in Addresses : \E d \in Choice : HandleRemoteClient(c, a, d)
    PROVE  OfCalls(c)' /\ Counts(c)'
  <1>1. UNCHANGED <<tailer, curves, plot, wire, recovered>>
    BY DEF NextRound, Ends, ClientDisconnected, HandleRemoteClient, plotVars, rpcVars
  <1>2. Total(c)' = Total(c) /\ Counts(c)'
    <2>1. CASE NextRound(c)
      <3>1. run[c].lines = MaxLines /\ run'[c].lines = 0 /\ run'[c].round = run[c].round + 1
        BY <2>1, RunGoesOn
      <3>2. PICK n \in Nat \ {0}, p \in Nat : n = run[c].round /\ p = MaxLines
        BY NumberAssumption DEF Counts
      <3>3. Total(c) = (n - 1) * p + p /\ Total(c)' = (n + 1 - 1) * p + 0
        BY <3>1, <3>2 DEF Total
      <3>4. (n - 1) * p + p = (n + 1 - 1) * p + 0
        <4>1. PICK m \in Nat : m = n - 1 /\ n = m + 1 /\ n + 1 - 1 = m + 1
          OBVIOUS
        <4>2. m * p + p = (m + 1) * p + 0
          OBVIOUS
        <4> QED
          BY <4>1, <4>2
      <3>5. Counts(c)'
        BY <3>1, <3>2 DEF Counts
      <3> QED
        BY <3>3, <3>4, <3>5
    <2>2. CASE Ends(c)
      BY <2>2, RunEnds, SameTotal
    <2>3. CASE ClientDisconnected(c)
      <3>1. run' = run
        BY <2>3 DEF ClientDisconnected
      <3> QED
        BY <3>1, SameTotal
    <2>4. CASE \E a \in Addresses : \E d \in Choice : HandleRemoteClient(c, a, d)
      <3>1. PICK d : run' = [run EXCEPT ![c].dir = d]
        BY <2>4 DEF HandleRemoteClient
      <3>2. run[c] \in RunStates /\ run'[c] = [run[c] EXCEPT !.dir = d]
        BY <3>1 DEF DisplayTypes
      <3>3. run'[c].round = run[c].round /\ run'[c].lines = run[c].lines
        BY <3>2 DEF RunStates
      <3> QED
        BY <3>3, SameTotal
    <2> QED
      BY <2>1, <2>2, <2>3, <2>4
  <1>3. OfCalls(c)'
    BY <1>1, <1>2, CallsKept
  <1> QED
    BY <1>2, <1>3

LEMMA TabledUnchanged ==
    ASSUME Tabled, Placed, SameRuns, UNCHANGED <<client, listed, recovered>>
    PROVE  Tabled'
  <1>1. Started' = Started
    BY SameStarted DEF Placed
  <1> QED
    BY <1>1 DEF Tabled, SameRuns, Placed, Numbered, Started

LEMMA TabledStep ==
    ASSUME DisplayTypes, Placed, Tabled, [Next]_vars
    PROVE  Tabled'
  <1>0. ASSUME run' = run PROVE SameRuns
    BY <1>0 DEF SameRuns
  <1>1. CASE TryAddingPath \/ FileChanged
    <2>1. run' = run /\ UNCHANGED <<client, listed, recovered>>
      BY <1>1 DEF TryAddingPath, FileChanged, rpcVars
    <2> QED
      BY <1>0, <2>1, TabledUnchanged
  <1>2. ASSUME NEW d \in Choice \cup {Cwd}, NEW k \in {"local", "remote"}, Start(k, d)
        PROVE  Tabled'
    <2>1. d \in Dirs \cup {Cwd}
      BY DEF Choice
    <2> DEFINE r == Cardinality(Started) + 1
    <2>2. /\ r \in Runs /\ r \notin Started /\ Started' = Started \cup {r}
          /\ \A q \in Runs \ {r} : run'[q].dir = run[q].dir
      BY <1>2, <2>1, StartStep
    <2>3. UNCHANGED <<client, listed, recovered>>
      BY <1>2 DEF Start, rpcVars
    <2> HIDE DEF r
    <2>4. \A q \in recovered : q \in Runs \ {r}
      BY <2>2 DEF Tabled, Started
    <2> QED
      BY <2>2, <2>3, <2>4 DEF Tabled
  <1>3. ASSUME NEW d, LoadUserSelectedLogFile(d) PROVE Tabled'
    <2>1. run' = run /\ UNCHANGED <<client, listed, recovered>>
      BY <1>3 DEF LoadUserSelectedLogFile, rpcVars
    <2> QED
      BY <1>0, <2>1, TabledUnchanged
  <1>4. ASSUME NEW r \in Started, OpenLog(r) \/ NextRound(r) \/ Ends(r) PROVE Tabled'
    <2>1. UNCHANGED <<client, listed, recovered>>
      BY <1>4 DEF OpenLog, NextRound, Ends, rpcVars
    <2> QED
      BY <1>4, <2>1, LocalSteps, TabledUnchanged
  <1>5. ASSUME NEW r \in Started, WriteLine(r) \/ SendOutput(r) PROVE Tabled'
    <2>1. UNCHANGED <<client, listed, recovered>>
      BY <1>5 DEF WriteLine, SendOutput, rpcVars
    <2> QED
      BY <1>5, <2>1, OutputStep, TabledUnchanged
  <1>6. ASSUME NEW r \in Started, ReceiveLogLine(r) \/ ReceiveImageOutput(r) PROVE Tabled'
    <2>1. run' = run /\ UNCHANGED <<client, listed, recovered>>
      BY <1>6 DEF ReceiveLogLine, ReceiveImageOutput
    <2> QED
      BY <1>0, <2>1, TabledUnchanged
  <1>7. ASSUME NEW r \in Started, NEW a \in Addresses, NEW d \in Choice,
               HandleRemoteClient(r, a, d)
        PROVE  Tabled'
    <2>1. /\ r \in Runs /\ run[r].dir = Cwd
          /\ \A q \in Runs : run'[q].kind = run[q].kind
          /\ \A q \in Runs \ {r} : run'[q].dir = run[q].dir
          /\ client' = [client EXCEPT ![r] = a] /\ recovered' = recovered
      BY <1>7, HandleStep
    <2>2. listed' = listed \cup {r}
      BY <1>7 DEF HandleRemoteClient
    <2>3. r \notin recovered
      BY <2>1 DEF Tabled
    <2>4. client'[r] = a /\ a # NoClient /\ \A q \in Runs \ {r} : client'[q] = client[q]
      BY <2>1, NotAddress DEF DisplayTypes
    <2>5. \A q \in Runs : q \in listed' <=> client'[q] # NoClient /\ q \notin recovered'
      BY <2>1, <2>2, <2>3, <2>4 DEF Tabled
    <2>6. Started' = Started
      BY <2>1 DEF Started
    <2>7. \A q \in recovered' : q \in Started' /\ run'[q].dir # Cwd
      BY <2>1, <2>3, <2>6 DEF Tabled, Started
    <2> QED
      BY <2>5, <2>7 DEF Tabled
  <1>8. ASSUME NEW r \in Started, NEW a \in Addresses, Recover(r, a) PROVE Tabled'
    <2>1. /\ run' = run /\ client' = [client EXCEPT ![r] = a] /\ client[r] # NoClient
          /\ listed' = listed \ {r} /\ recovered' = recovered \cup {r} /\ r \in Runs
      BY <1>8 DEF Recover, Started
    <2>2. \A q \in Runs \ {r} : client'[q] = client[q]
      BY <2>1 DEF DisplayTypes
    <2>3. run[r].dir # Cwd
      BY <2>1 DEF Placed
    <2>4. Started' = Started
      BY <2>1 DEF Started
    <2> QED
      BY <2>1, <2>2, <2>3, <2>4 DEF Tabled
  <1>9. ASSUME NEW r \in Started, ClientDisconnected(r) PROVE Tabled'
    <2>1. /\ run' = run /\ client' = [client EXCEPT ![r] = NoClient] /\ r \in Runs
          /\ listed' = listed \ {r} /\ recovered' = recovered
      BY <1>9 DEF ClientDisconnected, Started
    <2>2. client'[r] = NoClient /\ \A q \in Runs \ {r} : client'[q] = client[q]
      BY <2>1 DEF DisplayTypes
    <2>3. Started' = Started
      BY <2>1 DEF Started
    <2> QED
      BY <2>1, <2>2, <2>3 DEF Tabled
  <1>10. CASE UNCHANGED vars
    <2>1. run' = run /\ UNCHANGED <<client, listed, recovered>>
      BY <1>10 DEF vars, rpcVars
    <2> QED
      BY <1>0, <2>1, TabledUnchanged
  <1>11. ASSUME NEW f, OnImageLoaded(f) \/ LoadUserSelectedImage(f) PROVE Tabled'
    BY <1>0, <1>11, ElsewhereStep, TabledUnchanged
  <1> QED
    BY <1>1, <1>2, <1>3, <1>4, <1>5, <1>6, <1>7, <1>8, <1>9, <1>10, <1>11 DEF Next

\* While no other run is heard of, the plot is that of the file or of the calls
\* of the run it was cleared for.
PlotInv ==
    current # NoRun /\ alone =>
        /\ Counts(current) /\ torn \in BOOLEAN
        /\ IF Remote(current) THEN OfCalls(current) ELSE OfFile(current)

\* A step of the current run, or of no run.
OwnStep(c) ==
    \/ TryAddingPath \/ FileChanged
    \/ /\ c \in Started
       /\ \/ OpenLog(c) \/ WriteLine(c) \/ NextRound(c) \/ Ends(c)
          \/ SendOutput(c) \/ ReceiveLogLine(c) \/ ReceiveImageOutput(c)
          \/ ClientDisconnected(c)
          \/ \E a \in Addresses : \/ Recover(c, a)
                                  \/ \E d \in Choice : HandleRemoteClient(c, a, d)

\* Nothing the plot depends on changes.
PlotKept == UNCHANGED <<run, wire, recovered, log, plotVars, current, alone>>

LEMMA ElsewhereKeepsPlot ==
    ASSUME NEW f, OnImageLoaded(f) \/ LoadUserSelectedImage(f)
    PROVE  PlotKept
  BY ElsewhereStep DEF PlotKept, plotVars

LEMMA OnlyOwn ==
    ASSUME DisplayTypes, Follows, Next, alone, current # NoRun
    PROVE  \/ OwnStep(current) \/ PlotKept
           \/ \E k \in {"local", "remote"} : \E d \in Dirs \cup {Cwd} : Start(k, d)
           \/ current' = NoRun
  <1>1. ASSUME NEW r \in Started, run[r].alive \/ client[r] # NoClient PROVE r = current
    BY <1>1, IsCurrent DEF Started
  <1>2. ASSUME NEW r \in Started, OpenLog(r) \/ WriteLine(r) \/ NextRound(r) \/ Ends(r)
        PROVE  r = current
    <2>1. run[r].alive
      BY <1>2 DEF OpenLog, WriteLine, NextRound, Ends, HasOutput
    <2> QED
      BY <1>1, <2>1
  <1>3. ASSUME NEW r \in Started,
               \/ SendOutput(r) \/ ReceiveLogLine(r) \/ ReceiveImageOutput(r)
               \/ ClientDisconnected(r)
        PROVE  r = current
    <2>1. client[r] # NoClient
      BY <1>3 DEF SendOutput, ReceiveLogLine, ReceiveImageOutput, Incoming, ClientDisconnected
    <2> QED
      BY <1>1, <2>1
  <1>4. ASSUME NEW r \in Started, NEW a \in Addresses,
               Recover(r, a) \/ \E d \in Choice : HandleRemoteClient(r, a, d)
        PROVE  r = current
    <2>1. run[r].alive
      BY <1>4 DEF Recover, HandleRemoteClient
    <2> QED
      BY <1>1, <2>1
  <1>5. \A d : LoadUserSelectedLogFile(d) => current' = NoRun
    BY DEF LoadUserSelectedLogFile
  <1>6. \A d \in Choice : d \in Dirs \cup {Cwd}
    BY DEF Choice
  <1>7. ASSUME NEW r \in Started,
               \/ OpenLog(r) \/ WriteLine(r) \/ NextRound(r) \/ Ends(r)
               \/ SendOutput(r) \/ ReceiveLogLine(r) \/ ReceiveImageOutput(r)
               \/ ClientDisconnected(r)
               \/ \E a \in Addresses : \/ Recover(r, a)
                                       \/ \E d \in Choice : HandleRemoteClient(r, a, d)
        PROVE  OwnStep(current)
    <2>1. r = current
      BY <1>2, <1>3, <1>4, <1>7
    <2>2. OwnStep(r)
      BY <1>7 DEF OwnStep
    <2> QED
      BY <2>1, <2>2
  <1>8. \A f : OnImageLoaded(f) \/ LoadUserSelectedImage(f) => PlotKept
    BY ElsewhereKeepsPlot
  <1>9. CASE TryAddingPath \/ FileChanged
    BY <1>9 DEF OwnStep
  <1> QED
    BY <1>5, <1>6, <1>7, <1>8, <1>9 DEF Next

LEMMA OwnKeeps ==
    ASSUME DisplayTypes, NEW c \in Runs, OwnStep(c)
    PROVE  current' = current /\ alone' = alone /\ (Remote(c)' <=> Remote(c))
  <1>1. CASE TryAddingPath \/ FileChanged
    BY <1>1, PlotSteps DEF Remote
  <1>2. CASE c \in Started /\ (OpenLog(c) \/ NextRound(c) \/ Ends(c))
    BY <1>2, LocalSteps DEF SameRuns, Remote
  <1>3. CASE c \in Started /\ (WriteLine(c) \/ SendOutput(c))
    BY <1>3, OutputStep DEF SameRuns, Remote
  <1>4. CASE ReceiveLogLine(c) \/ ReceiveImageOutput(c) \/ ClientDisconnected(c)
             \/ \E a \in Addresses : Recover(c, a)
    BY <1>4 DEF ReceiveLogLine, ReceiveImageOutput, ClientDisconnected, Recover, Remote
  <1>5. CASE c \in Started /\ \E a \in Addresses : \E d \in Choice : HandleRemoteClient(c, a, d)
    BY <1>5, HandleStep DEF Remote
  <1> QED
    BY <1>1, <1>2, <1>3, <1>4, <1>5 DEF OwnStep

LEMMA LocalOwn ==
    ASSUME DisplayTypes, Follows, NEW c \in Runs, ~Remote(c), Counts(c), torn \in BOOLEAN,
           OfFile(c), OwnStep(c)
    PROVE  Counts(c)' /\ torn' \in BOOLEAN /\ OfFile(c)'
  <1>1. client[c] = NoClient
    BY DEF Follows, Single
  <1>2. CASE TryAddingPath
    BY <1>2, FileTried DEF TryAddingPath, Counts
  <1>3. CASE FileChanged
    BY <1>3, FileRead DEF FileChanged, Counts
  <1>4. CASE OpenLog(c)
    BY <1>4, FileOpens, RunOpens DEF Counts
  <1>5. CASE WriteLine(c)
    BY <1>5, FileWritten DEF WriteLine
  <1>6. CASE NextRound(c) \/ Ends(c)
    BY <1>6, FileKept DEF NextRound, Ends, plotVars
  <1>7. ~SendOutput(c) /\ ~ReceiveLogLine(c) /\ ~ReceiveImageOutput(c) /\ ~ClientDisconnected(c)
    BY <1>1 DEF SendOutput, ReceiveLogLine, ReceiveImageOutput, Incoming, ClientDisconnected
  <1>8. \A a \in Addresses : ~Recover(c, a) /\ \A d \in Choice : ~HandleRemoteClient(c, a, d)
    BY <1>1 DEF Recover, HandleRemoteClient
  <1> QED
    BY <1>2, <1>3, <1>4, <1>5, <1>6, <1>7, <1>8 DEF OwnStep

LEMMA RemoteOwn ==
    ASSUME DisplayTypes, Follows, Tabled, NEW c \in Runs, Remote(c), Counts(c),
           torn \in BOOLEAN, OfCalls(c), OwnStep(c)
    PROVE  Counts(c)' /\ torn' \in BOOLEAN /\ OfCalls(c)'
  <1>1. ~run[c].open
    BY DEF Follows, Single
  <1>2. ~TryAddingPath /\ ~FileChanged /\ ~OpenLog(c) /\ ~WriteLine(c)
    BY <1>1 DEF OfCalls, TryAddingPath, FileChanged, OpenLog, WriteLine
  <1>3. CASE NextRound(c) \/ Ends(c) \/ ClientDisconnected(c)
             \/ \E a \in Addresses : \E d \in Choice : HandleRemoteClient(c, a, d)
    BY <1>3, CallsGoOn DEF NextRound, Ends, ClientDisconnected, HandleRemoteClient, plotVars
  <1>4. CASE SendOutput(c)
    BY <1>4, CallsSent DEF SendOutput, plotVars
  <1>5. CASE ReceiveLogLine(c) \/ ReceiveImageOutput(c)
    BY <1>5, CallsReceived DEF ReceiveLogLine, ReceiveImageOutput, plotVars
  <1>6. CASE \E a \in Addresses : Recover(c, a)
    BY <1>6, CallsRecover DEF Recover, plotVars
  <1> QED
    BY <1>2, <1>3, <1>4, <1>5, <1>6 DEF OwnStep

LEMMA PlotStarts ==
    ASSUME DisplayTypes, Placed, Follows, NEW k \in {"local", "remote"},
           NEW d \in Dirs \cup {Cwd}, Start(k, d)
    PROVE  PlotInv'
  <1>1. PICK r \in Runs :
            /\ r = Cardinality(Started) + 1
            /\ r \notin Started /\ run'[r].kind = k /\ run'[r].dir = d
            /\ ~run'[r].open /\ current' = r /\ wire' = wire
    BY StartStep
  <1>2. run'[r].round = 1 /\ run'[r].lines = 0
    <2>1. run' = [q \in Runs |->
              IF q = Cardinality(Started) + 1 THEN [NotStarted EXCEPT !.kind = k, !.dir = d, !.alive = TRUE]
              ELSE [run[q] EXCEPT !.alive = @ /\ Remote(q)]]
      BY DEF Start
    <2>2. run'[r] = [NotStarted EXCEPT !.kind = k, !.dir = d, !.alive = TRUE]
      BY <1>1, <2>1
    <2> QED
      BY <2>2 DEF NotStarted
  <1>3. /\ tailer' = IF k = "local" THEN TailLogFile(d, TRUE) ELSE [NoTailer EXCEPT !.calls = TRUE]
        /\ curves' = FALSE /\ plot' = <<>> /\ torn' = FALSE
    BY DEF Start
  <1>4. Counts(r)'
    BY <1>2, NumberAssumption DEF Counts
  <1>5. CASE k = "local"
    <2>1. ~Remote(r)'
      BY <1>1, <1>5 DEF Remote
    <2>2. /\ tailer' \in Tailers /\ tailer'.path = d /\ tailer'.pos = 0 /\ ~tailer'.changed
      <3>1. tailer' = [path |-> d, calls |-> TRUE, timer |-> d \notin DOMAIN log,
                       watching |-> d \in DOMAIN log, changed |-> FALSE, open |-> FALSE, pos |-> 0]
        BY <1>3, <1>5 DEF TailLogFile, NoTailer
      <3>2. (d \notin DOMAIN log) \in BOOLEAN /\ (d \in DOMAIN log) \in BOOLEAN
        OBVIOUS
      <3> QED
        BY <3>1, <3>2 DEF Tailers
    <2>3. CurvesAt(curves', tailer'.pos)
      BY <1>3, <2>2 DEF CurvesAt
    <2>4. ~Opened(r)'
      BY <1>1, <1>2 DEF Opened
    <2>5. OfFile(r)'
      BY <1>1, <1>2, <1>3, <2>2, <2>3, <2>4 DEF OfFile
    <2> QED
      BY <1>1, <1>3, <1>4, <2>1, <2>5 DEF PlotInv
  <1>6. CASE k = "remote"
    <2>1. Remote(r)'
      BY <1>1, <1>6 DEF Remote
    <2>2. tailer'.calls /\ ~tailer'.watching /\ ~tailer'.changed /\ ~tailer'.timer
      BY <1>3, <1>6 DEF NoTailer
    <2>3. ~Remote(r)
      BY <1>1 DEF Started, Remote
    <2>4. wire'[r] = <<>>
      BY <1>1, <2>3 DEF Follows, Single
    <2>5. Total(r)' = 0
      BY <1>2, NumberAssumption DEF Total
    <2>6. Counted(r, <<>>, 0, 0)
      <3> DEFINE f == [i \in 0 .. 0 |-> 0]
      <3>1. f \in [0 .. 0 -> Nat] /\ f[0] = 0 /\ Len(<<>>) = 0
        OBVIOUS
      <3> HIDE DEF f
      <3>2. \A j \in 1 .. Len(<<>>) : FALSE
        BY <3>1
      <3> QED
        BY <3>1, <3>2 DEF Counted
    <2>7. Underway(r, <<>>, 0, 0, FALSE)
      BY <2>6 DEF Underway
    <2>8. Shows(r, plot', 0)
      BY <1>3 DEF Shows
    <2>9. OfCalls(r)'
      <3>2. 0 <= Total(r)'
        BY <2>5
      <3>3. curves' = FALSE
        BY <1>3
      <3>1. 0 <= Total(r)' /\ Underway(r, wire'[r], 0, Total(r)', curves')
        BY <2>4, <2>5, <2>7, <3>2, <3>3, Zenon
      <3> QED
        BY <2>2, <2>8, <3>1 DEF OfCalls
    <2> QED
      BY <1>1, <1>3, <1>4, <2>1, <2>9 DEF PlotInv
  <1> QED
    BY <1>5, <1>6

\* The displays are for another run only after a start or a file chosen.
LEMMA OwnOrOther ==
    ASSUME DisplayTypes, Next
    PROVE  \/ current' = current /\ alone' = alone
           \/ \E k \in {"local", "remote"} : \E d \in Dirs \cup {Cwd} : Start(k, d)
           \/ current' = NoRun
  <1>1. ASSUME NEW r, OpenLog(r) \/ WriteLine(r) \/ NextRound(r) \/ Ends(r)
        PROVE  current' = current /\ alone' = alone
    BY <1>1 DEF OpenLog, WriteLine, NextRound, Ends
  <1>2. ASSUME NEW r, \/ SendOutput(r) \/ ReceiveLogLine(r) \/ ReceiveImageOutput(r)
                      \/ ClientDisconnected(r)
        PROVE  current' = current /\ alone' = alone
    BY <1>2 DEF SendOutput, ReceiveLogLine, ReceiveImageOutput, ClientDisconnected
  <1>3. ASSUME NEW r, NEW a, Recover(r, a) \/ \E d \in Choice : HandleRemoteClient(r, a, d)
        PROVE  current' = current /\ alone' = alone
    BY <1>3 DEF Recover, HandleRemoteClient
  <1>4. CASE TryAddingPath \/ FileChanged
    BY <1>4, PlotSteps
  <1>5. ASSUME NEW d, LoadUserSelectedLogFile(d) PROVE current' = NoRun
    BY <1>5 DEF LoadUserSelectedLogFile
  <1>6. \A d \in Choice : d \in Dirs \cup {Cwd}
    BY DEF Choice
  <1>7. ASSUME NEW f, OnImageLoaded(f) \/ LoadUserSelectedImage(f)
        PROVE  current' = current /\ alone' = alone
    BY <1>7, ElsewhereStep
  <1> QED
    BY <1>1, <1>2, <1>3, <1>4, <1>5, <1>6, <1>7 DEF Next

LEMMA PlotStep ==
    ASSUME DisplayTypes, Placed, Follows, Tabled, PlotInv, [Next]_vars
    PROVE  PlotInv'
  <1>0. UNCHANGED vars => PlotKept
    BY DEF vars, rpcVars, PlotKept
  <1>1. CASE PlotKept
    <2>1. UNCHANGED <<run, wire, recovered, log, tailer, curves, plot, torn, current, alone>>
      BY <1>1 DEF PlotKept, plotVars
    <2> QED
      BY <2>1 DEF PlotInv, Counts, Remote, OfCalls, OfFile, Opened, FileRound, FileLines, Total
  <1>2. ASSUME NEW k \in {"local", "remote"}, NEW d \in Dirs \cup {Cwd}, Start(k, d)
        PROVE  PlotInv'
    BY <1>2, PlotStarts
  <1>3. CASE current' = NoRun
    BY <1>3 DEF PlotInv
  <1>4. CASE ~(alone /\ current # NoRun) /\ current' = current /\ alone' = alone
    BY <1>4 DEF PlotInv
  <1>5. CASE alone /\ current # NoRun /\ OwnStep(current)
    <2>1. PICK c \in Runs : c = current /\ OwnStep(c)
      BY <1>5 DEF DisplayTypes
    <2>2. current' = c /\ alone' = alone /\ (Remote(c)' <=> Remote(c))
      BY <2>1, OwnKeeps
    <2>3. /\ Counts(c) /\ torn \in BOOLEAN
          /\ Remote(c) => OfCalls(c)
          /\ ~Remote(c) => OfFile(c)
      BY <1>5, <2>1 DEF PlotInv
    <2>4. CASE Remote(c)
      <3>1. Counts(c)' /\ torn' \in BOOLEAN /\ OfCalls(c)'
        BY <2>1, <2>3, <2>4, RemoteOwn
      <3> QED
        BY <2>2, <2>4, <3>1 DEF PlotInv
    <2>5. CASE ~Remote(c)
      <3>1. Counts(c)' /\ torn' \in BOOLEAN /\ OfFile(c)'
        BY <2>1, <2>3, <2>5, LocalOwn
      <3> QED
        BY <2>2, <2>5, <3>1 DEF PlotInv
    <2> QED
      BY <2>4, <2>5
  <1> QED
    BY <1>0, <1>1, <1>2, <1>3, <1>4, <1>5, OnlyOwn, OwnOrOther

\* What the plot of a remote run shows, in order.
LEMMA ShownOrder ==
    ASSUME NEW c \in Runs, NEW k \in Nat, NEW shown, Shows(c, shown, k)
    PROVE  /\ \A i \in DOMAIN shown : shown[i].run = c
           /\ \A i, j \in DOMAIN shown : i < j => Before(shown[i], shown[j])
  <1>1. DOMAIN shown = 1 .. k /\ \A i \in 1 .. k : i \in Nat \ {0} /\ shown[i] = Nth(c, i)
    BY DEF Shows
  <1>2. \A i \in 1 .. k : shown[i].run = c
    BY <1>1, NthFields
  <1>3. \A i, j \in 1 .. k : i < j => Before(shown[i], shown[j])
    BY <1>1, NthOrder
  <1> QED
    BY <1>1, <1>2, <1>3

LEMMA ShownPrefix ==
    ASSUME NEW c \in Runs, Counts(c), NEW k \in Nat, k <= Total(c),
           NEW shown, Shows(c, shown, k)
    PROVE  IsPrefix(shown, Logged(c))
  <1>1. PICK t \in Int : t = Total(c)
    <2>1. PICK q \in Nat, p \in Nat : q = run[c].round - 1 /\ p = MaxLines
      BY NumberAssumption DEF Counts
    <2>2. q * p \in Nat /\ run[c].lines \in Nat
      BY NumberAssumption DEF Counts
    <2>3. Total(c) = q * p + run[c].lines
      BY <2>1 DEF Total
    <2> QED
      BY <2>2, <2>3
  <1>2. Logged(c) = [i \in 1 .. t |-> Nth(c, i)]
    BY <1>1 DEF Logged, Total, Nth, Line
  <1>3. k <= t
    BY <1>1
  <1>4. \A i \in 1 .. t : Nth(c, i) \in Lines
    BY NthFields
  <1>5. PICK G \in Seq(Lines) : /\ G = Logged(c) /\ Len(G) = t
                                /\ \A i \in 1 .. t : G[i] = Nth(c, i)
    <2>1. t \in Nat
      BY <1>1, <1>3
    <2> QED
      BY <1>2, <1>4, <2>1
  <1>6. shown \in Seq(Lines) /\ Len(shown) = k /\ \A i \in 1 .. k : shown[i] = Nth(c, i)
    BY ShownAre
  <1>7. SubSeq(shown, 1, k) = SubSeq(G, 1, k)
    <2>1. \A i \in 1 .. k : G[i] = shown[i]
      BY <1>3, <1>5, <1>6
    <2> QED
      BY <1>3, <1>5, <1>6, <2>1
  <1>8. IsPrefix(shown, G)
    BY <1>3, <1>5, <1>6, <1>7 DEF IsPrefix
  <1> QED
    BY <1>5, <1>8

\* What the plot shows of the log of a local run, all of it when the reader is
\* at its end.
LEMMA FileShows ==
    ASSUME NEW c \in Runs, Counts(c), Opened(c), OfFile(c), ~torn
    PROVE  \E m \in Nat :
               /\ m <= Total(c) /\ Shows(c, plot, m)
               /\ tailer.pos = Len(log[tailer.path]) => m = Total(c)
  <1>1. PICK L, p, n, k : /\ n = FileRound(c) /\ k = FileLines(c)
                          /\ L = log[tailer.path] /\ p = tailer.pos
                          /\ FileShown(c, L, p, n, k, plot, torn)
    BY DEF OfFile
  <1>2. /\ n = 1 /\ p # Unknown /\ k \in 0 .. MaxLines /\ IsLog(L, c, n, k)
        /\ p = Unknown \/ p \in 0 .. Len(L)
        /\ plot = [i \in 1 .. (IF p = 0 THEN 0 ELSE p - 1) |-> Line(c, 1, i)]
    BY <1>1 DEF FileShown
  <1>3. k \in Nat /\ Len(L) \in Nat /\ Len(L) = IF k = 0 THEN 0 ELSE k + 1
    <2>1. k \in Nat /\ n \in Nat
      BY <1>2, NumberAssumption
    <2> QED
      BY <1>2, <2>1, LogIs
  <1>4. PICK m \in 0 .. k : m = (IF p = 0 THEN 0 ELSE p - 1) /\ (p = Len(L) => m = k)
    BY <1>2, <1>3
  <1>5. \A i \in 1 .. m : Line(c, 1, i) = Nth(c, i)
    <2>1. ASSUME NEW i \in 1 .. m PROVE Line(c, 1, i) = Nth(c, i)
      <3>1. PICK e \in Nat, b \in Nat \ {0} : e = i - 1 /\ b = MaxLines /\ e < b
        BY <1>2, <1>3, <1>4, NumberAssumption
      <3>2. e \in 0 .. b - 1 /\ 0 \in Nat /\ e = 0 * b + e
        BY <3>1
      <3>3. e \div b = 0 /\ e % b = e
        BY <3>2, PlaceOf
      <3>4. Nth(c, i) = Line(c, 0 + 1, e + 1)
        BY <3>1, <3>3 DEF Nth
      <3> QED
        BY <3>1, <3>4
    <2> QED
      BY <2>1
  <1>6. Shows(c, plot, m)
    BY <1>2, <1>4, <1>5 DEF Shows
  <1>7. Total(c) = k
    <2>1. CASE run[c].open
      <3>1. run[c].round = 1 /\ k = run[c].lines
        BY <1>1, <1>2, <2>1 DEF FileRound, FileLines
      <3>2. Total(c) = 0 * MaxLines + k /\ 0 * MaxLines = 0
        BY <3>1, NumberAssumption DEF Total
      <3> QED
        BY <1>3, <3>2
    <2>2. CASE ~run[c].open
      <3>1. run[c].round = 2 /\ k = MaxLines /\ run[c].lines = 0
        BY <1>1, <1>2, <2>2 DEF FileRound, FileLines, Counts, OfFile
      <3>2. Total(c) = 1 * MaxLines + 0 /\ 1 * MaxLines = k
        BY <3>1, NumberAssumption DEF Total
      <3> QED
        BY <1>3, <3>2
    <2> QED
      BY <2>1, <2>2
  <1> QED
    BY <1>1, <1>3, <1>4, <1>6, <1>7

LEMMA PlotIs ==
    ASSUME DisplayTypes, PlotInv
    PROVE  PlotIsOfTheRun
  <1> SUFFICES ASSUME current # NoRun, alone
               PROVE  /\ \A i \in DOMAIN plot : plot[i].run = current
                      /\ \A i, j \in DOMAIN plot : i < j => Before(plot[i], plot[j])
                      /\ ~torn => IsPrefix(plot, Logged(current))
    BY DEF PlotIsOfTheRun
  <1>1. PICK c \in Runs : c = current
    BY DEF DisplayTypes
  <1>2. /\ Counts(c) /\ torn \in BOOLEAN
        /\ Remote(c) => OfCalls(c)
        /\ ~Remote(c) => OfFile(c)
    BY <1>1 DEF PlotInv
  <1>3. CASE Remote(c)
    <2>1. PICK k \in Nat : k <= Total(c) /\ Shows(c, plot, k)
      BY <1>2, <1>3 DEF OfCalls
    <2> QED
      BY <1>1, <1>2, <2>1, ShownOrder, ShownPrefix
  <1>4. CASE ~Remote(c) /\ ~Opened(c)
    <2>1. plot = <<>> /\ run[c].lines = 0 /\ run[c].round = 1
      BY <1>2, <1>4 DEF OfFile, Opened, Counts
    <2>2. Shows(c, plot, 0) /\ 0 <= Total(c)
      BY <2>1, NumberAssumption DEF Shows, Total
    <2> QED
      BY <1>1, <1>2, <2>2, ShownOrder, ShownPrefix
  <1>5. CASE ~Remote(c) /\ Opened(c)
    <2>1. PICK n, p : ShownTo(c, plot, n, p)
      BY <1>2, <1>5 DEF OfFile, FileShown
    <2>2. /\ \A i \in DOMAIN plot : plot[i].run = current
          /\ \A i, j \in DOMAIN plot : i < j => Before(plot[i], plot[j])
      BY <1>1, <2>1 DEF ShownTo
    <2>3. ASSUME ~torn PROVE IsPrefix(plot, Logged(current))
      <3>1. PICK m \in Nat : m <= Total(c) /\ Shows(c, plot, m)
        BY <1>2, <1>5, <2>3, FileShows
      <3> QED
        BY <1>1, <1>2, <3>1, ShownPrefix
    <2> QED
      BY <2>2, <2>3
  <1> QED
    BY <1>3, <1>4, <1>5

LEMMA PlotInit == Init => Tabled /\ PlotInv
  BY DEF Init, Tabled, PlotInv, NoRun

\* Of any number of runs, with any number of lines and rounds: while no call of
\* another run can come in, the plot is of the run it was cleared for alone, and
\* its lines are in order; none before the last it shows is missing, unless the
\* log was opened anew behind the reader (LogTailer, PlotDisplay,
\* RPCImageLoader::receiveLogLine).
THEOREM PlotShowsItsRun == Spec => []PlotIsOfTheRun
  <1>1. /\ DisplayTypes /\ Placed /\ Follows /\ Tabled /\ PlotInv /\ [Next]_vars
        => DisplayTypes' /\ Placed' /\ Follows' /\ Tabled' /\ PlotInv'
    BY TypesStep, PlacedStep, FollowsStep, TabledStep, PlotStep
  <1>2. DisplayTypes /\ PlotInv => PlotIsOfTheRun
    BY PlotIs
  <1> QED
    BY DisplaysInit, FollowsInit, PlotInit, <1>1, <1>2, PTL DEF Spec

----------------------------------------------------------------------------
(* The plot shows all there is to show.                                    *)

\* The file a local run logs to is read once it is watched, to the end, and read
\* again whenever it has changed.
Reads(c) ==
    /\ tailer.changed \/ tailer.open => tailer.watching
    /\ tailer.open => Opened(c)
    /\ tailer.open /\ ~tailer.changed /\ tailer.pos # Unknown =>
           tailer.pos = Len(log[tailer.path])

ReaderInv == current # NoRun /\ alone /\ ~Remote(current) => Reads(current)

\* The reader leaves the file at its end, or knows no position in it.
LEMMA ReadsToTheEnd ==
    ASSUME DisplayTypes, NEW c \in Runs, OfFile(c), Opened(c), Reads(c), FileChanged
    PROVE  Reads(c)'
  <1> DEFINE L == log[tailer.path]
             p == tailer.pos
  <1>1. PICK ls \in Unread(tailer) :
            tailer' = [tailer EXCEPT !.changed = FALSE, !.open = TRUE,
                           !.pos = IF @ # Unknown THEN @ + Len(ls)
                                   ELSE IF ls = <<>> THEN Unknown ELSE Len(log[tailer.path])]
    BY DEF FileChanged, ReadLine
  <1>2. /\ tailer \in Tailers /\ tailer.changed /\ UNCHANGED <<run, log>>
        /\ tailer.watching
    BY DEF OfFile, FileChanged, Reads
  <1> DEFINE n == IF p # Unknown THEN p + Len(ls) ELSE IF ls = <<>> THEN Unknown ELSE Len(L)
  <1>3. tailer' = [tailer EXCEPT !.changed = FALSE, !.open = TRUE, !.pos = n]
    BY <1>1
  <1>4. n = Unknown \/ n = Len(L)
    <2>1. CASE p # Unknown
      <3>1. ls = SubSeq(L, p + 1, Len(L))
        BY <2>1 DEF Unread
      <3>2. PICK content, q, r, k :
                /\ r \in Nat /\ k \in Nat /\ IsLog(content, c, r, k)
                /\ content = L /\ q = p /\ q \in 0 .. Len(content)
        BY <1>2, <2>1, NumberAssumption DEF OfFile, FileShown
      <3>3. IsRest(ls, content, q + 1)
        BY <3>1, <3>2 DEF IsRest
      <3> HIDE DEF L, p
      <3>4. q + Len(ls) = Len(content)
        BY <3>2, <3>3, RestFrom
      <3> QED
        BY <2>1, <3>2, <3>4
    <2>2. CASE p = Unknown
      BY <2>2
    <2> QED
      BY <2>1, <2>2
  <1> HIDE DEF n
  <1>5. tailer'.watching /\ tailer'.pos = n /\ tailer'.path = tailer.path
    BY <1>2, <1>3 DEF Tailers
  <1>6. Opened(c)'
    BY <1>2 DEF Opened
  <1> QED
    BY <1>2, <1>4, <1>5, <1>6 DEF Reads

\* A change of a file that is watched is still to be read.
LEMMA ChangeIsTold ==
    ASSUME tailer \in Tailers, NEW d, tailer.path = d, tailer.watching,
           NEW t, t = Touched(tailer, d)
    PROVE  t.changed /\ t.watching
  BY DEF Touched, Tailers

LEMMA ReadsStarts ==
    ASSUME DisplayTypes, Placed, NEW k \in {"local", "remote"}, NEW d \in Dirs \cup {Cwd},
           Start(k, d)
    PROVE  ReaderInv'
  <1>1. tailer' = IF k = "local" THEN TailLogFile(d, TRUE) ELSE [NoTailer EXCEPT !.calls = TRUE]
    BY DEF Start
  <1>2. ~tailer'.changed /\ ~tailer'.open
    BY <1>1 DEF TailLogFile, NoTailer
  <1> QED
    BY <1>2 DEF ReaderInv, Reads

LEMMA ReadsOn ==
    ASSUME DisplayTypes, Follows, NEW c \in Runs, ~Remote(c), Counts(c), OfFile(c), Reads(c),
           OwnStep(c)
    PROVE  Reads(c)'
  <1>1. client[c] = NoClient
    BY DEF Follows, Single
  <1>2. tailer \in Tailers /\ tailer.path = run[c].dir
    BY DEF OfFile
  <1>3. CASE TryAddingPath
    <2>1. /\ tailer' = [tailer EXCEPT !.timer = FALSE, !.watching = TRUE]
          /\ UNCHANGED <<run, log>>
      BY <1>3 DEF TryAddingPath
    <2>2. /\ tailer'.watching /\ tailer'.open = tailer.open /\ tailer'.changed = tailer.changed
          /\ tailer'.pos = tailer.pos /\ tailer'.path = tailer.path
      BY <1>2, <2>1 DEF Tailers
    <2> QED
      BY <2>1, <2>2 DEF Reads, Opened
  <1>4. CASE FileChanged
    <2>1. Opened(c)
      BY <1>4 DEF FileChanged, OfFile
    <2> QED
      BY <1>4, <2>1, ReadsToTheEnd
  <1>5. CASE OpenLog(c)
    <2>1. run'[c].open
      BY <1>5, RunOpens
    <2>2. PICK t : t = Touched(tailer, run[c].dir)
      OBVIOUS
    <2>3. tailer' = [t EXCEPT !.pos = IF tailer.path = run[c].dir /\ @ # 0 THEN Unknown ELSE @]
      BY <1>5, <2>2 DEF OpenLog
    <2>4. t \in Tailers
      BY <1>2, <2>2, TouchedTailer
    <2>5. /\ tailer'.watching = t.watching /\ tailer'.open = t.open
          /\ tailer'.changed = t.changed
      BY <2>3, <2>4 DEF Tailers
    <2>6. CASE tailer.watching
      <3>1. t.changed /\ t.watching
        BY <1>2, <2>2, <2>6, ChangeIsTold
      <3> QED
        BY <2>1, <2>5, <3>1 DEF Reads, Opened
    <2>7. CASE ~tailer.watching
      <3>1. t = tailer
        BY <1>2, <2>2, <2>7, TouchedTailer
      <3>2. ~t.changed /\ ~t.open
        BY <2>7, <3>1 DEF Reads
      <3> QED
        BY <2>5, <3>2 DEF Reads
    <2> QED
      BY <2>6, <2>7
  <1>6. CASE WriteLine(c)
    <2>1. run[c].open /\ run'[c].open
      BY <1>6, RunLogs DEF WriteLine
    <2>2. tailer' = Touched(tailer, run[c].dir)
      BY <1>6 DEF WriteLine
    <2>3. CASE tailer.watching
      <3>1. tailer'.changed /\ tailer'.watching
        BY <1>2, <2>2, <2>3, ChangeIsTold
      <3> QED
        BY <2>1, <3>1 DEF Reads, Opened
    <2>4. CASE ~tailer.watching
      <3>1. tailer' = tailer
        BY <1>2, <2>2, <2>4, TouchedTailer
      <3> QED
        BY <2>4, <3>1 DEF Reads
    <2> QED
      BY <2>3, <2>4
  <1>7. CASE NextRound(c)
    <2>1. run'[c].round = run[c].round + 1 /\ UNCHANGED <<log, tailer>>
      BY <1>7, RunGoesOn DEF NextRound, plotVars
    <2>2. run'[c].round > 1
      BY <2>1 DEF Counts
    <2> QED
      BY <2>1, <2>2 DEF Reads, Opened
  <1>8. CASE Ends(c)
    <2>1. run'[c].round = run[c].round /\ run'[c].open = run[c].open /\ UNCHANGED <<log, tailer>>
      BY <1>8, RunEnds DEF Ends, plotVars
    <2> QED
      BY <2>1 DEF Reads, Opened
  <1>9. ~SendOutput(c) /\ ~ReceiveLogLine(c) /\ ~ReceiveImageOutput(c) /\ ~ClientDisconnected(c)
    BY <1>1 DEF SendOutput, ReceiveLogLine, ReceiveImageOutput, Incoming, ClientDisconnected
  <1>10. \A a \in Addresses : ~Recover(c, a) /\ \A d \in Choice : ~HandleRemoteClient(c, a, d)
    BY <1>1 DEF Recover, HandleRemoteClient
  <1> QED
    BY <1>3, <1>4, <1>5, <1>6, <1>7, <1>8, <1>9, <1>10 DEF OwnStep

LEMMA ReaderStep ==
    ASSUME DisplayTypes, Placed, Follows, PlotInv, ReaderInv, [Next]_vars
    PROVE  ReaderInv'
  <1>0. UNCHANGED vars => PlotKept
    BY DEF vars, rpcVars, PlotKept
  <1>1. CASE PlotKept
    <2>1. UNCHANGED <<run, log, tailer, current, alone>>
      BY <1>1 DEF PlotKept, plotVars
    <2> QED
      BY <2>1 DEF ReaderInv, Reads, Remote, Opened
  <1>2. ASSUME NEW k \in {"local", "remote"}, NEW d \in Dirs \cup {Cwd}, Start(k, d)
        PROVE  ReaderInv'
    BY <1>2, ReadsStarts
  <1>3. CASE current' = NoRun
    BY <1>3 DEF ReaderInv
  <1>4. CASE ~(alone /\ current # NoRun) /\ current' = current /\ alone' = alone
    BY <1>4 DEF ReaderInv
  <1>5. CASE alone /\ current # NoRun /\ OwnStep(current)
    <2>1. PICK c \in Runs : c = current /\ OwnStep(c)
      BY <1>5 DEF DisplayTypes
    <2>2. current' = c /\ (Remote(c)' <=> Remote(c))
      BY <2>1, OwnKeeps
    <2>3. CASE Remote(c)
      BY <2>2, <2>3 DEF ReaderInv
    <2>4. CASE ~Remote(c)
      <3>1. Counts(c) /\ OfFile(c) /\ Reads(c)
        BY <1>5, <2>1, <2>4 DEF PlotInv, ReaderInv
      <3>2. Reads(c)'
        BY <2>1, <2>4, <3>1, ReadsOn
      <3> QED
        BY <2>2, <3>2 DEF ReaderInv
    <2> QED
      BY <2>3, <2>4
  <1> QED
    BY <1>0, <1>1, <1>2, <1>3, <1>4, <1>5, OnlyOwn, OwnOrOther

\* Nothing is missing in the plot when nothing is left to be told: no call of a
\* remote run is under way, no change of the log of a local run, noticed once, is
\* to be handled.
NothingMissing ==
    current # NoRun /\ alone =>
        /\ Remote(current) /\ current \notin recovered /\ wire[current] = <<>> =>
               plot = Logged(current)
        /\ ~Remote(current) /\ ~torn /\ tailer.open /\ ~tailer.changed =>
               plot = Logged(current)

LEMMA ShowsAll ==
    ASSUME NEW c \in Runs, NEW shown, Shows(c, shown, Total(c))
    PROVE  shown = Logged(c)
  BY DEF Shows, Logged, Total, Nth, Line

LEMMA AllIsShown ==
    ASSUME DisplayTypes, PlotInv, ReaderInv
    PROVE  NothingMissing
  <1> SUFFICES ASSUME current # NoRun, alone
               PROVE  /\ Remote(current) /\ current \notin recovered /\ wire[current] = <<>> =>
                             plot = Logged(current)
                      /\ ~Remote(current) /\ ~torn /\ tailer.open /\ ~tailer.changed =>
                             plot = Logged(current)
    BY DEF NothingMissing
  <1>1. PICK c \in Runs : c = current
    BY DEF DisplayTypes
  <1>2. /\ Counts(c)
        /\ Remote(c) => OfCalls(c)
        /\ ~Remote(c) => OfFile(c) /\ Reads(c)
    BY <1>1 DEF PlotInv, ReaderInv
  <1>3. ASSUME Remote(c), c \notin recovered, wire[c] = <<>> PROVE plot = Logged(c)
    <2>1. PICK k \in Nat : Shows(c, plot, k) /\ Counted(c, <<>>, k, Total(c))
      BY <1>2, <1>3 DEF OfCalls, Underway
    <2>2. k = Total(c)
      BY <2>1 DEF Counted
    <2> QED
      BY <2>1, <2>2, ShowsAll
  <1>4. ASSUME ~Remote(c), ~torn, tailer.open, ~tailer.changed PROVE plot = Logged(c)
    <2>1. Opened(c) /\ OfFile(c)
      BY <1>2, <1>4 DEF Reads
    <2>2. tailer.pos # Unknown
      BY <1>4, <2>1 DEF OfFile, FileShown
    <2>3. tailer.pos = Len(log[tailer.path])
      BY <1>2, <1>4, <2>2 DEF Reads
    <2> QED
      BY <1>2, <1>4, <2>1, <2>3, FileShows, ShowsAll
  <1> QED
    BY <1>1, <1>3, <1>4

\* What LogShown comes down to, of any number of runs, lines and rounds: once the
\* reader has noticed the log and handled its last change, and for a remote run
\* once its calls are handled, the plot shows every line logged.  A change is
\* never lost between the end of one reading and the next, nor a line read twice
\* (LogTailer::fileChanged and readLine, receiveLogLine).
THEOREM PlotMissesNothing == Spec => []NothingMissing
  <1>1. /\ DisplayTypes /\ Placed /\ Follows /\ Tabled /\ PlotInv /\ ReaderInv /\ [Next]_vars
        => DisplayTypes' /\ Placed' /\ Follows' /\ Tabled' /\ PlotInv' /\ ReaderInv'
    BY TypesStep, PlacedStep, FollowsStep, TabledStep, PlotStep, ReaderStep
  <1>2. DisplayTypes /\ PlotInv /\ ReaderInv => NothingMissing
    BY AllIsShown
  <1>3. Init => ReaderInv
    BY DEF Init, ReaderInv
  <1> QED
    BY DisplaysInit, FollowsInit, PlotInit, <1>1, <1>2, <1>3, PTL DEF Spec

=============================================================================
