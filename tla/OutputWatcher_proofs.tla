------------------------ MODULE OutputWatcher_proofs ------------------------
(***************************************************************************)
(* Proofs about OutputWatcher, for any number of images and viewers.       *)
(***************************************************************************)
EXTENDS OutputWatcher, TLAPS

----------------------------------------------------------------------------
(* The categories and the order in which companions are looked for.        *)

LEMMA CategoryNames == Categories = {"real", "support", "fourier"}
  BY DEF Categories, Range, WriteOrder

LEMMA CompanionOrder ==
    /\ Companions # <<>> /\ Head(Companions) = "fourier"
    /\ Tail(Companions) # <<>> /\ Head(Tail(Companions)) = "support"
    /\ Tail(Tail(Companions)) = <<>>
  BY DEF Companions

----------------------------------------------------------------------------
(* The inductive invariant.  While the companions of a real space image    *)
(* are looked for, those of the categories left are still behind it.       *)

ReportType == reported \in [Categories -> Seq(1 .. MaxImages)]

RealInOrder == \A i \in 1 .. Len(reported["real"]) : reported["real"][i] = i

Increasing(s) == \A i, j \in 1 .. Len(s) : i < j => s[i] < s[j]

CompanionsBehind ==
    \A c \in Categories :
        Increasing(reported[c]) /\ NewestImage(c) <= NewestImage("real")

CompanionsLeft ==
    check = "companions" =>
        /\ NewestImage("real") # 0
        /\ \/ /\ todo = Companions
              /\ NewestImage("fourier") < NewestImage("real")
              /\ NewestImage("support") < NewestImage("real")
           \/ /\ todo = Tail(Companions)
              /\ NewestImage("support") < NewestImage("real")

ReportInv == ReportType /\ RealInOrder /\ CompanionsBehind /\ CompanionsLeft

FileType == file \in [Files -> {"absent", "old", "partial", "whole"}]

----------------------------------------------------------------------------
(* What a report does to the reports of a category.                        *)

LEMMA NewestType ==
    ASSUME ReportType, NEW c \in Categories
    PROVE  /\ NewestImage(c) \in Nat
           /\ reported[c] = <<>> <=> NewestImage(c) = 0
           /\ reported[c] # <<>> =>
                  /\ Len(reported[c]) \in 1 .. Len(reported[c])
                  /\ NewestImage(c) = reported[c][Len(reported[c])]
  BY WatcherAssumption DEF ReportType, NewestImage, Last

LEMMA ReportedAppend ==
    ASSUME ReportType, NEW c \in Categories, NEW i \in 1 .. MaxImages,
           ProcessFile(c, i)
    PROVE  /\ ReportType'
           /\ reported'[c] = Append(reported[c], i)
           /\ NewestImage(c)' = i
           /\ \A d \in Categories \ {c} :
                  reported'[d] = reported[d] /\ NewestImage(d)' = NewestImage(d)
  <1>1. reported' = [reported EXCEPT ![c] = Append(reported[c], i)]
    BY DEF ProcessFile
  <1>2. Append(reported[c], i) \in Seq(1 .. MaxImages)
    BY DEF ReportType
  <1>3. ReportType'
    BY <1>1, <1>2 DEF ReportType
  <1>4. /\ reported'[c] = Append(reported[c], i)
        /\ \A d \in Categories \ {c} : reported'[d] = reported[d]
    BY <1>1 DEF ReportType
  <1>5. Append(reported[c], i) # <<>> /\ Last(Append(reported[c], i)) = i
    BY DEF ReportType, Last
  <1> QED
    BY <1>3, <1>4, <1>5 DEF NewestImage

\* Appending a number above the newest keeps the reports increasing.
LEMMA AppendIncreasing ==
    ASSUME ReportType, CompanionsBehind, NEW c \in Categories,
           NEW i \in 1 .. MaxImages, NewestImage(c) < i
    PROVE  Increasing(Append(reported[c], i))
  <1> DEFINE s == reported[c]
  <1>1. s \in Seq(1 .. MaxImages)
    BY DEF ReportType
  <1>2. \A j \in 1 .. Len(s) : s[j] < i
    <2> SUFFICES ASSUME NEW j \in 1 .. Len(s) PROVE s[j] < i
      OBVIOUS
    <2>1. s # <<>> /\ Len(s) \in 1 .. Len(s) /\ NewestImage(c) = s[Len(s)]
      BY <1>1, NewestType
    <2>2. j = Len(s) \/ s[j] < s[Len(s)]
      BY <2>1, <1>1 DEF CompanionsBehind, Increasing
    <2>3. s[j] \in Nat /\ s[Len(s)] \in Nat
      BY <1>1, <2>1, WatcherAssumption
    <2> QED
      BY <2>1, <2>2, <2>3, WatcherAssumption
  <1>3. \A j, k \in 1 .. Len(s) : j < k => s[j] < s[k]
    BY DEF CompanionsBehind, Increasing
  <1> HIDE DEF s
  <1>4. Increasing(Append(s, i))
    BY <1>1, <1>2, <1>3 DEF Increasing
  <1> QED
    BY <1>4 DEF s

----------------------------------------------------------------------------
(* Initially nothing is reported.                                          *)

LEMMA ReportInit == Init => ReportInv /\ FileType
  <1> SUFFICES ASSUME Init PROVE ReportInv /\ FileType
    OBVIOUS
  <1>1. /\ reported = [c \in Categories |-> <<>>]
        /\ check = "idle"
    BY DEF Init
  <1>2. ReportType /\ \A c \in Categories : reported[c] = <<>>
    BY <1>1 DEF ReportType
  <1>3. \A c \in Categories : NewestImage(c) = 0
    BY <1>2 DEF NewestImage
  <1>4. "real" \in Categories
    BY CategoryNames
  <1>5. FileType
    BY DEF Init, FileType
  <1> QED
    BY <1>1, <1>2, <1>3, <1>4, <1>5
    DEF ReportInv, RealInOrder, CompanionsBehind, Increasing, CompanionsLeft

\* A step that reports nothing and leaves checkForNewFiles where it is, enters
\* or leaves it.
LEMMA SilentStep ==
    ASSUME ReportInv, UNCHANGED reported,
           check' # "companions" \/ UNCHANGED <<check, todo>>
    PROVE  ReportInv'
  <1>1. \A c \in Categories : NewestImage(c)' = NewestImage(c)
    BY DEF NewestImage
  <1>2. "real" \in Categories /\ "support" \in Categories /\ "fourier" \in Categories
    BY CategoryNames
  <1>3. ReportType' /\ RealInOrder' /\ CompanionsBehind'
    BY <1>1, <1>2 DEF ReportInv, ReportType, RealInOrder, CompanionsBehind
  <1>4. CompanionsLeft'
    BY <1>1, <1>2 DEF ReportInv, CompanionsLeft
  <1> QED
    BY <1>3, <1>4 DEF ReportInv

LEMMA FindNextStep == ReportInv /\ FindNext => ReportInv'
  <1> SUFFICES ASSUME ReportInv, FindNext PROVE ReportInv'
    OBVIOUS
  <1>0. "real" \in Categories /\ "support" \in Categories /\ "fourier" \in Categories
    BY CategoryNames
  <1>1. CASE ~Accepted(<<"real", NextImage>>)
    BY <1>1, SilentStep DEF FindNext, Return
  <1>2. CASE Accepted(<<"real", NextImage>>)
    <2> DEFINE i == NextImage
    <2>1. /\ ProcessFile("real", i) /\ check' = "companions" /\ todo' = Companions
      BY <1>2 DEF FindNext
    <2>2. i \in 1 .. MaxImages /\ i = NewestImage("real") + 1
      BY <1>2 DEF Accepted, ValidFile, Files, NextImage
    <2> HIDE DEF i
    <2>3. ReportType /\ RealInOrder /\ CompanionsBehind
      BY DEF ReportInv
    <2>4. NewestImage("real") \in Nat
      BY <1>0, <2>3, NewestType
    <2>5. /\ ReportType'
          /\ reported'["real"] = Append(reported["real"], i)
          /\ NewestImage("real")' = i
          /\ \A d \in Categories \ {"real"} :
                 reported'[d] = reported[d] /\ NewestImage(d)' = NewestImage(d)
      BY <1>0, <2>1, <2>2, <2>3, ReportedAppend
    <2>6. NewestImage("real") = Len(reported["real"])
      <3>1. CASE reported["real"] = <<>>
        BY <3>1 DEF NewestImage
      <3>2. CASE reported["real"] # <<>>
        BY <3>2, <1>0, <2>3, NewestType DEF RealInOrder
      <3> QED
        BY <3>1, <3>2
    <2>7. RealInOrder'
      BY <2>2, <2>3, <2>5, <2>6, <1>0 DEF RealInOrder, ReportType
    <2>8. CompanionsBehind'
      <3> SUFFICES ASSUME NEW c \in Categories
                   PROVE  /\ Increasing(reported[c])'
                          /\ NewestImage(c)' <= NewestImage("real")'
        BY DEF CompanionsBehind
      <3>1. CASE c = "real"
        <4>1. Increasing(Append(reported["real"], i))
          BY <1>0, <2>2, <2>3, <2>4, AppendIncreasing
        <4> QED
          BY <3>1, <4>1, <2>2, <2>5 DEF Increasing
      <3>2. CASE c # "real"
        <4>1. NewestImage(c) \in Nat /\ NewestImage(c) <= NewestImage("real")
          BY <2>3, NewestType DEF CompanionsBehind
        <4>2. Increasing(reported[c])
          BY <2>3 DEF CompanionsBehind
        <4>3. reported'[c] = reported[c] /\ NewestImage(c)' = NewestImage(c)
          BY <3>2, <2>5
        <4> QED
          BY <4>1, <4>2, <4>3, <2>2, <2>4, <2>5 DEF Increasing
      <3> QED
        BY <3>1, <3>2
    <2>9. CompanionsLeft'
      <3>1. \A c \in {"support", "fourier"} :
                /\ NewestImage(c)' = NewestImage(c)
                /\ NewestImage(c) \in Nat /\ NewestImage(c) <= NewestImage("real")
        BY <1>0, <2>3, <2>5, NewestType DEF CompanionsBehind
      <3> QED
        BY <3>1, <2>1, <2>2, <2>4, <2>5 DEF CompanionsLeft
    <2> QED
      BY <2>5, <2>7, <2>8, <2>9 DEF ReportInv
  <1> QED
    BY <1>1, <1>2

\* Where checkForNewFiles goes after a companion.
LEMMA NextCompanion ==
    ASSUME CompanionsLeft, FindCompanion
    PROVE  /\ NewestImage("real") # 0 /\ Head(todo) \in {"fourier", "support"}
           /\ NewestImage(Head(todo)) < NewestImage("real")
           /\ check' = "companions" =>
                  /\ Head(todo) = "fourier" /\ todo' = Tail(Companions)
                  /\ NewestImage("support") < NewestImage("real")
  BY CompanionOrder DEF CompanionsLeft, FindCompanion, Return

LEMMA FindCompanionStep == ReportInv /\ FindCompanion => ReportInv'
  <1> SUFFICES ASSUME ReportInv, FindCompanion PROVE ReportInv'
    OBVIOUS
  <1>a. PICK c : c = Head(todo)
    OBVIOUS
  <1>b. PICK n : n = NewestImage("real")
    OBVIOUS
  <1>0. "real" \in Categories /\ "support" \in Categories /\ "fourier" \in Categories
    BY CategoryNames
  <1>1. ReportType /\ RealInOrder /\ CompanionsBehind /\ CompanionsLeft
    BY DEF ReportInv
  <1>2. /\ n # 0 /\ c \in {"fourier", "support"} /\ NewestImage(c) < n
        /\ check' = "companions" =>
               c = "fourier" /\ todo' = Tail(Companions) /\ NewestImage("support") < n
    BY <1>a, <1>b, <1>1, NextCompanion
  <1>3. c \in Categories /\ c # "real" /\ n \in Nat
    BY <1>b, <1>0, <1>1, <1>2, NewestType
  <1>4. Accepted(<<c, n>>) => ProcessFile(c, n) /\ n \in 1 .. MaxImages
    BY <1>a, <1>b DEF FindCompanion, Accepted, ValidFile, Files
  <1>5. ~Accepted(<<c, n>>) => UNCHANGED reported
    BY <1>a, <1>b DEF FindCompanion
  <1>6. /\ ReportType' /\ reported'["real"] = reported["real"]
        /\ NewestImage("real")' = n
        /\ \A d \in Categories \ {c} :
               reported'[d] = reported[d] /\ NewestImage(d)' = NewestImage(d)
        /\ NewestImage(c)' \in {NewestImage(c), n}
        /\ Increasing(reported'[c])
    <2>1. CASE Accepted(<<c, n>>)
      <3>1. /\ ReportType' /\ reported'[c] = Append(reported[c], n)
            /\ NewestImage(c)' = n
            /\ \A d \in Categories \ {c} :
                   reported'[d] = reported[d] /\ NewestImage(d)' = NewestImage(d)
        BY <1>1, <1>3, <1>4, <2>1, ReportedAppend
      <3>2. Increasing(Append(reported[c], n))
        BY <1>1, <1>2, <1>3, <1>4, <2>1, AppendIncreasing
      <3> QED
        BY <3>1, <3>2, <1>0, <1>3, <1>b
    <2>2. CASE ~Accepted(<<c, n>>)
      BY <2>2, <1>b, <1>1, <1>3, <1>5 DEF ReportType, NewestImage, CompanionsBehind
    <2> QED
      BY <2>1, <2>2
  <1>7. RealInOrder'
    BY <1>1, <1>6 DEF RealInOrder
  <1>8. CompanionsBehind'
    <2> SUFFICES ASSUME NEW d \in Categories
                 PROVE  /\ Increasing(reported[d])'
                        /\ NewestImage(d)' <= NewestImage("real")'
      BY DEF CompanionsBehind
    <2>1. /\ Increasing(reported[d]) /\ NewestImage(d) \in Nat
          /\ NewestImage(d) <= n
      BY <1>b, <1>1, NewestType DEF CompanionsBehind
    <2>2. CASE d = c
      BY <2>1, <2>2, <1>3, <1>6 DEF Increasing
    <2>3. CASE d # c
      BY <2>1, <2>3, <1>6 DEF Increasing
    <2> QED
      BY <2>2, <2>3
  <1>9. CompanionsLeft'
    BY <1>0, <1>2, <1>3, <1>6 DEF CompanionsLeft
  <1> QED
    BY <1>6, <1>7, <1>8, <1>9 DEF ReportInv

----------------------------------------------------------------------------
\* Images are reported in order.
LEMMA ReportStep == ReportInv /\ [Next]_vars => ReportInv'
  <1> SUFFICES ASSUME ReportInv, [Next]_vars PROVE ReportInv'
    OBVIOUS
  <1>1. CASE FindNext
    BY <1>1, FindNextStep
  <1>2. CASE FindCompanion
    BY <1>2, FindCompanionStep
  <1>3. CASE Poll \/ Stop
    BY <1>3, SilentStep DEF Poll, Stop
  <1>4. CASE \/ WriteFile \/ Tick \/ ProcessEnds
             \/ \E v \in DOMAIN view : \/ LoadScheduledImage(v) \/ FinishLoadImage(v)
                                 \/ ReadImage(v) \/ UserLoads(v)
    <2>1. UNCHANGED watchVars
      BY <1>4 DEF WriteFile, Tick, ProcessEnds, LoadScheduledImage, FinishLoadImage,
                  ReadImage, UserLoads, watchVars
    <2> QED
      BY <2>1, SilentStep DEF watchVars
  <1>5. CASE UNCHANGED vars
    BY <1>5, SilentStep DEF vars, watchVars
  <1> QED
    BY <1>1, <1>2, <1>3, <1>4, <1>5 DEF Next, GuiStep

LEMMA ReportSafe == ReportInv => ReportedInOrder
  <1> SUFFICES ASSUME ReportInv PROVE ReportedInOrder
    OBVIOUS
  <1>1. reported["real"] \in Seq(1 .. MaxImages)
    BY CategoryNames DEF ReportInv, ReportType
  <1>2. reported["real"] = [i \in 1 .. Len(reported["real"]) |-> i]
    BY <1>1 DEF ReportInv, RealInOrder
  <1> QED
    BY <1>2 DEF ReportInv, CompanionsBehind, Increasing, ReportedInOrder

\* For any number of images and viewers: real space images are reported one by
\* one in order, and those of other categories in order and never ahead.
THEOREM ReportsInOrder == Spec => []ReportedInOrder
  <1>1. Init => ReportInv
    BY ReportInit
  <1>2. ReportInv /\ [Next]_vars => ReportInv'
    BY ReportStep
  <1>3. ReportInv => ReportedInOrder
    BY ReportSafe
  <1> QED
    BY <1>1, <1>2, <1>3, PTL DEF Spec

----------------------------------------------------------------------------
(* The files, in the order in which uwrapc writes them.                    *)

Rank(c) == CASE c = "real" -> 0 [] c = "support" -> 1 [] c = "fourier" -> 2

Position(c, i) == 3 * (i - 1) + Rank(c)

LEMMA WhichFile ==
    ASSUME NEW n \in Nat, NEW c \in Categories, NEW i \in Nat \ {0}
    PROVE  /\ FileAfter(n) = <<c, i>> <=> n = Position(c, i)
           /\ Position(c, i) \in Nat
  <1>1. n % 3 \in 0 .. 2 /\ n \div 3 \in Nat /\ n = 3 * (n \div 3) + (n % 3)
    OBVIOUS
  <1>2. PICK q \in Nat, r \in 0 .. 2 : q = n \div 3 /\ r = n % 3 /\ n = 3 * q + r
    BY <1>1
  <1>3. FileAfter(n) = <<WriteOrder[r + 1], q + 1>>
    BY <1>2 DEF FileAfter
  <1>4. Rank(c) \in 0 .. 2 /\ (WriteOrder[r + 1] = c <=> r = Rank(c))
    BY <1>2, CategoryNames DEF WriteOrder, Rank
  <1>5. FileAfter(n) = <<c, i>> <=> r = Rank(c) /\ q + 1 = i
    BY <1>3, <1>4
  <1>6. PICK k \in 0 .. 2 : k = Rank(c)
    BY <1>4
  <1>7. r = k /\ q + 1 = i <=> n = 3 * (i - 1) + k
    BY <1>2, <1>6
  <1> QED
    BY <1>5, <1>6, <1>7 DEF Position

LEMMA PlaceOfFile ==
    ASSUME NEW n \in Nat, n < 3 * MaxImages
    PROVE  \E c \in Categories, i \in 1 .. MaxImages :
               FileAfter(n) = <<c, i>> /\ n = Position(c, i)
  <1>1. n % 3 \in 0 .. 2 /\ n \div 3 \in Nat /\ n = 3 * (n \div 3) + (n % 3)
    OBVIOUS
  <1>2. PICK q \in Nat, r \in 0 .. 2 : q = n \div 3 /\ r = n % 3 /\ n = 3 * q + r
    BY <1>1
  <1>3. FileAfter(n) = <<WriteOrder[r + 1], q + 1>>
    BY <1>2 DEF FileAfter
  <1>4. WriteOrder[r + 1] \in Categories
    BY <1>2, CategoryNames DEF WriteOrder
  <1>5. q + 1 \in 1 .. MaxImages
    BY <1>2, WatcherAssumption
  <1>6. PICK c \in Categories, i \in 1 .. MaxImages : FileAfter(n) = <<c, i>>
    BY <1>3, <1>4, <1>5
  <1>7. i \in Nat \ {0}
    BY WatcherAssumption
  <1> QED
    BY <1>6, <1>7, WhichFile

LEMMA Apart ==
    ASSUME NEW c \in Categories, NEW i \in Nat \ {0}, NEW j \in Nat \ {0}, i < j
    PROVE  Position(c, i) < Position(c, j)
  <1>1. Rank(c) \in 0 .. 2
    BY CategoryNames DEF Rank
  <1> QED
    BY <1>1 DEF Position

----------------------------------------------------------------------------
(* When files were made.  Those of this run come first and in the order of *)
(* their times, and an old one is not of a later second than the start.    *)

MadeWhen ==
    /\ created \in [Files -> Seconds] /\ clock \in {1, 2}
    /\ \A f \in Files :
           /\ created[f] <= clock
           /\ OfThisRun(f) => created[f] >= StartTime
           /\ file[f] = "old" =>
                  created[f] = 0 \/ (created[f] = StartTime /\ setting.recent)

WrittenFirst ==
    /\ written \in Nat
    /\ \A c \in Categories, i \in 1 .. MaxImages :
           /\ Position(c, i) < written => OfThisRun(<<c, i>>)
           /\ OfThisRun(<<c, i>>) => Position(c, i) <= written

InTime ==
    \A c \in Categories, i, j \in 1 .. MaxImages :
        i < j /\ OfThisRun(<<c, j>>) => created[<<c, i>>] <= created[<<c, j>>]

\* What the watcher keeps of the times.
KeptTimes ==
    /\ made \in [Categories -> Seq({1, 2})]
    /\ \A c \in Categories :
           /\ Len(made[c]) = Len(reported[c])
           /\ \A j, k \in 1 .. Len(made[c]) : j < k => made[c][j] <= made[c][k]
           /\ reported[c] # <<>> => Last(made[c]) <= created[<<c, NewestImage(c)>>]

FileInv == FileType /\ MadeWhen /\ WrittenFirst /\ InTime

LEMMA ElementType ==
    ASSUME NEW S, NEW s \in Seq(S), NEW j \in 1 .. Len(s)
    PROVE  s[j] \in S
  OBVIOUS

\* What is reported is the number of an image.
LEMMA ReportedType ==
    ASSUME ReportType, NEW c \in Categories
    PROVE  /\ \A j \in 1 .. Len(reported[c]) : reported[c][j] \in 1 .. MaxImages
           /\ NewestImage(c) \in 0 .. MaxImages
           /\ NewestImage(c) # 0 =>
                  NewestImage(c) \in 1 .. MaxImages /\ <<c, NewestImage(c)>> \in Files
  <1>1. PICK s \in Seq(1 .. MaxImages) : s = reported[c]
    BY DEF ReportType
  <1>2. \A j \in 1 .. Len(s) : s[j] \in 1 .. MaxImages
    BY ElementType
  <1>3. NewestImage(c) = 0 \/ NewestImage(c) \in 1 .. MaxImages
    BY <1>1, <1>2, NewestType
  <1> QED
    BY <1>1, <1>2, <1>3, WatcherAssumption DEF Files

\* The steps that change files: those of the writer.  No other makes one.
LEMMA OnlyWriter ==
    ASSUME [Next]_vars, ~WriteFile
    PROVE  UNCHANGED <<file, created, written>>
  BY DEF Next, GuiStep, Tick, ProcessEnds, Poll, Stop, FindNext, FindCompanion,
         LoadScheduledImage, FinishLoadImage, ReadImage, UserLoads, fileVars, vars

LEMMA OnlyTick ==
    ASSUME [Next]_vars, ~Tick
    PROVE  UNCHANGED clock
  BY DEF Next, GuiStep, WriteFile, ProcessEnds, Poll, Stop, FindNext, FindCompanion,
         LoadScheduledImage, FinishLoadImage, ReadImage, UserLoads, fileVars, vars

LEMMA SameSetting ==
    ASSUME [Next]_vars
    PROVE  UNCHANGED setting
  BY DEF Next, GuiStep, WriteFile, Tick, ProcessEnds, Poll, Stop, FindNext, FindCompanion,
         ProcessFile, Show, LoadScheduledImage, FinishLoadImage, ReadImage, UserLoads,
         displayVars, vars

\* What the writer does: the file at its place becomes one of this run, now.
LEMMA Writes ==
    ASSUME FileInv, WriteFile
    PROVE  \E d \in Categories, k \in 1 .. MaxImages :
               /\ <<d, k>> \in Files /\ written = Position(d, k)
               /\ OfThisRun(<<d, k>>)' /\ created'[<<d, k>>] = clock
               /\ \A f \in Files \ {<<d, k>>} :
                      file'[f] = file[f] /\ created'[f] = created[f]
               /\ written' \in {written, written + 1} /\ UNCHANGED clock
               /\ FileType' /\ created' \in [Files -> Seconds]
               /\ UNCHANGED <<running, watchVars, displayVars>>
  <1>1. written \in Nat /\ written < 3 * MaxImages
    BY DEF FileInv, WrittenFirst, WriteFile
  <1>2. PICK d \in Categories, k \in 1 .. MaxImages :
            FileAfter(written) = <<d, k>> /\ written = Position(d, k)
    BY <1>1, PlaceOfFile
  <1>3. PICK g \in Files : g = <<d, k>> /\ g = FileAfter(written)
    BY <1>2 DEF Files
  <1>4. PICK x \in {"partial", "whole"} : file' = [file EXCEPT ![g] = x]
    BY <1>3 DEF WriteFile
  <1>5. created' = [created EXCEPT ![g] = clock] /\ UNCHANGED clock
    BY <1>3 DEF WriteFile
  <1>6. clock \in Seconds
    BY DEF FileInv, MadeWhen, Seconds
  <1>7. /\ file'[g] = x /\ created'[g] = clock
        /\ \A f \in Files \ {g} : file'[f] = file[f] /\ created'[f] = created[f]
        /\ FileType' /\ created' \in [Files -> Seconds]
    BY <1>4, <1>5, <1>6 DEF FileInv, FileType, MadeWhen
  <1>8. /\ written' \in {written, written + 1}
        /\ UNCHANGED <<running, watchVars, displayVars>>
    BY DEF WriteFile
  <1> QED
    BY <1>2, <1>3, <1>5, <1>7, <1>8 DEF OfThisRun

LEMMA FileInit == Init => FileInv
  <1> SUFFICES ASSUME Init PROVE FileInv
    OBVIOUS
  <1>1. /\ \A f \in Files : file[f] \in {"old", "absent"}
        /\ file \in [Files -> {"old", "absent"}]
        /\ created \in [Files -> {0, 1}] /\ clock = 1 /\ written = 0
        /\ ~setting.recent => \A f \in Files : created[f] = 0
    BY DEF Init, StartTime
  <1>2. \A f \in Files : ~OfThisRun(f)
    BY <1>1 DEF OfThisRun
  <1>3. \A c \in Categories, i \in 1 .. MaxImages : <<c, i>> \in Files
    BY DEF Files
  <1>4. \A c \in Categories, i \in 1 .. MaxImages : Position(c, i) \in Nat
    BY WhichFile, WatcherAssumption
  <1>5. FileType
    BY <1>1 DEF FileType
  <1>6. MadeWhen
    BY <1>1, <1>2 DEF MadeWhen, Seconds, StartTime
  <1>7. WrittenFirst
    BY <1>1, <1>2, <1>3, <1>4 DEF WrittenFirst
  <1>8. InTime
    BY <1>2, <1>3 DEF InTime
  <1> QED
    BY <1>5, <1>6, <1>7, <1>8 DEF FileInv

LEMMA FileStep ==
    ASSUME FileInv, [Next]_vars
    PROVE  /\ FileInv'
           /\ \A f \in Files : /\ OfThisRun(f) => OfThisRun(f)'
                               /\ created[f] <= created'[f]
                               /\ ~OfThisRun(f)' => created'[f] = created[f]
  <1>0. FileType /\ MadeWhen /\ WrittenFirst /\ InTime /\ UNCHANGED setting
    BY SameSetting DEF FileInv
  <1>1. CASE WriteFile
    <2>1. PICK d \in Categories, k \in 1 .. MaxImages :
               /\ <<d, k>> \in Files /\ written = Position(d, k)
               /\ OfThisRun(<<d, k>>)' /\ created'[<<d, k>>] = clock
               /\ \A f \in Files \ {<<d, k>>} :
                      file'[f] = file[f] /\ created'[f] = created[f]
               /\ written' \in {written, written + 1} /\ UNCHANGED clock
               /\ FileType' /\ created' \in [Files -> Seconds]
      BY <1>1, Writes
    <2>2. PICK g \in Files : g = <<d, k>>
      BY <2>1
    <2>3. /\ clock \in {1, 2} /\ created'[g] = clock /\ OfThisRun(g)'
          /\ \A f \in Files : created[f] \in Nat /\ created[f] <= clock
          /\ \A f \in Files \ {g} : /\ file'[f] = file[f] /\ created'[f] = created[f]
                                    /\ OfThisRun(f)' <=> OfThisRun(f)
      BY <1>0, <2>1, <2>2 DEF MadeWhen, Seconds, OfThisRun
    <2>4. file'[g] # "old"
      BY <2>3 DEF OfThisRun
    <2>5. MadeWhen'
      BY <1>0, <2>1, <2>3, <2>4 DEF MadeWhen, StartTime
    <2>6. \A c \in Categories, i \in 1 .. MaxImages :
              /\ <<c, i>> \in Files /\ Position(c, i) \in Nat
              /\ Position(c, i) = written => <<c, i>> = g
      <3> SUFFICES ASSUME NEW c \in Categories, NEW i \in 1 .. MaxImages
                   PROVE  /\ <<c, i>> \in Files /\ Position(c, i) \in Nat
                          /\ Position(c, i) = written => <<c, i>> = g
        OBVIOUS
      <3>1. i \in Nat \ {0} /\ k \in Nat \ {0} /\ written \in Nat
        BY <1>0, WatcherAssumption DEF WrittenFirst
      <3>2. /\ Position(c, i) \in Nat
            /\ FileAfter(written) = <<c, i>> <=> written = Position(c, i)
            /\ FileAfter(written) = <<d, k>>
        BY <2>1, <3>1, WhichFile
      <3> QED
        BY <2>2, <3>2 DEF Files
    <2>7. WrittenFirst'
      <3>1. written \in Nat /\ written' \in Nat /\ written <= written'
        BY <1>0, <2>1 DEF WrittenFirst
      <3> SUFFICES ASSUME NEW c \in Categories, NEW i \in 1 .. MaxImages
                   PROVE  /\ Position(c, i) < written' => OfThisRun(<<c, i>>)'
                          /\ OfThisRun(<<c, i>>)' => Position(c, i) <= written'
        BY <3>1 DEF WrittenFirst
      <3>2. PICK p \in Nat : p = Position(c, i) /\ (p = written => <<c, i>> = g)
        BY <2>6
      <3>3. CASE <<c, i>> = g
        <4>1. Position(c, i) = written
          BY <2>1, <2>2, <3>3
        <4> QED
          BY <2>3, <3>1, <3>3, <4>1
      <3>4. CASE <<c, i>> # g
        <4>1. /\ OfThisRun(<<c, i>>)' <=> OfThisRun(<<c, i>>)
              /\ p < written => OfThisRun(<<c, i>>)
              /\ OfThisRun(<<c, i>>) => p <= written
          BY <1>0, <2>3, <2>6, <3>2, <3>4 DEF WrittenFirst
        <4>2. p # written /\ p < written' => p < written
          BY <2>1, <3>1
        <4> QED
          BY <3>1, <3>2, <3>4, <4>1, <4>2
      <3> QED
        BY <3>3, <3>4
    <2>8. InTime'
      <3> SUFFICES ASSUME NEW c \in Categories, NEW i \in 1 .. MaxImages,
                          NEW j \in 1 .. MaxImages, i < j, OfThisRun(<<c, j>>)'
                   PROVE  created'[<<c, i>>] <= created'[<<c, j>>]
        BY DEF InTime
      <3>1. PICK x \in Files : x = <<c, i>>
        BY <2>6
      <3>2. PICK y \in Files : y = <<c, j>>
        BY <2>6
      <3>3. x # y
        BY <3>1, <3>2
      <3>4. CASE y = g
        BY <2>3, <3>1, <3>2, <3>3, <3>4
      <3>5. CASE y # g /\ x = g
        <4>1. Position(c, i) = written
          BY <2>1, <2>2, <3>1, <3>5
        <4>2. OfThisRun(<<c, j>>)
          BY <2>3, <3>2, <3>5
        <4>3. Position(c, j) <= written
          BY <1>0, <4>2 DEF WrittenFirst
        <4>4. Position(c, i) < Position(c, j)
          BY Apart, WatcherAssumption
        <4>5. Position(c, i) \in Nat /\ Position(c, j) \in Nat /\ written \in Nat
          BY <1>0, <2>6 DEF WrittenFirst
        <4> QED
          BY <4>1, <4>3, <4>4, <4>5
      <3>6. CASE y # g /\ x # g
        <4>1. OfThisRun(<<c, j>>)
          BY <2>3, <3>2, <3>6
        <4>2. created[<<c, i>>] <= created[<<c, j>>]
          BY <1>0, <4>1 DEF InTime
        <4> QED
          BY <2>3, <3>1, <3>2, <3>6, <4>2
      <3> QED
        BY <3>4, <3>5, <3>6
    <2>9. \A f \in Files : /\ OfThisRun(f) => OfThisRun(f)'
                           /\ created[f] <= created'[f]
                           /\ ~OfThisRun(f)' => created'[f] = created[f]
      BY <2>3
    <2> QED
      BY <2>1, <2>5, <2>7, <2>8, <2>9 DEF FileInv
  <1>2. CASE ~WriteFile
    <2>1. UNCHANGED <<file, created, written>>
      BY <1>2, OnlyWriter
    <2>2. clock' \in {1, 2} /\ clock <= clock'
      BY <1>0, OnlyTick DEF Tick, StartTime, MadeWhen
    <2>3. MadeWhen'
      <3>1. \A f \in Files : created[f] \in Nat
        BY <1>0 DEF MadeWhen, Seconds
      <3> QED
        BY <1>0, <2>1, <2>2, <3>1 DEF MadeWhen, OfThisRun
    <2>4. \A f \in Files : created[f] \in Nat /\ (OfThisRun(f)' <=> OfThisRun(f))
      BY <1>0, <2>1 DEF MadeWhen, Seconds, OfThisRun
    <2> QED
      BY <1>0, <2>1, <2>3, <2>4 DEF FileInv, FileType, WrittenFirst, InTime, OfThisRun
  <1> QED
    BY <1>1, <1>2

----------------------------------------------------------------------------
(* Which images are reported: a report looks at the time of the file, and  *)
(* uwrapc never makes a file of this run an old one again.                 *)

\* A companion comes after its image.
LEMMA ReportsWhenThere ==
    ASSUME ReportInv, [Next]_vars
    PROVE  \/ UNCHANGED <<reported, made>>
           \/ /\ UNCHANGED <<file, created>>
              /\ \E c \in Categories, i \in 1 .. MaxImages :
                     /\ Accepted(<<c, i>>) /\ ProcessFile(c, i)
                     /\ NewestImage(c) # 0 => NewestImage("real") # 0
  <1>1. CASE FindNext
    BY <1>1 DEF FindNext, Accepted, ValidFile, Files, fileVars
  <1>2. CASE FindCompanion
    <2>1. NewestImage("real") # 0
      BY <1>2, NextCompanion DEF ReportInv
    <2> QED
      BY <1>2, <2>1 DEF FindCompanion, Accepted, ValidFile, Files, fileVars
  <1>3. CASE ~FindNext /\ ~FindCompanion
    BY <1>3 DEF Next, GuiStep, WriteFile, Tick, ProcessEnds, Poll, Stop,
                LoadScheduledImage, FinishLoadImage, ReadImage, UserLoads,
                watchVars, vars
  <1> QED
    BY <1>1, <1>2, <1>3

LEMMA MadeAppend ==
    ASSUME ReportInv, FileInv, KeptTimes, NEW c \in Categories, NEW i \in 1 .. MaxImages,
           Accepted(<<c, i>>), ProcessFile(c, i)
    PROVE  \E s \in Seq({1, 2}), t \in {1, 2} :
               /\ s = made[c] /\ t = created[<<c, i>>] /\ made'[c] = Append(s, t)
               /\ \A j \in 1 .. Len(s) : s[j] <= t
               /\ \A d \in Categories \ {c} : made'[d] = made[d]
               /\ made' \in [Categories -> Seq({1, 2})]
  <1>1. PICK s \in Seq({1, 2}) : s = made[c]
    BY DEF KeptTimes
  <1>2. PICK f \in Files : f = <<c, i>>
    BY DEF Files
  <1>3. PICK t \in {1, 2} : t = created[f]
    BY <1>2 DEF Accepted, ValidFile, FileInv, MadeWhen, Seconds, StartTime
  <1>4. \A j \in 1 .. Len(s) : s[j] <= t
    <2> SUFFICES ASSUME NEW j \in 1 .. Len(s) PROVE s[j] <= t
      OBVIOUS
    <2>1. /\ Len(s) = Len(reported[c])
          /\ \A k, l \in 1 .. Len(s) : k < l => s[k] <= s[l]
      BY <1>1 DEF KeptTimes
    <2>2. reported[c] # <<>>
      BY <2>1
    <2>3. Last(s) <= t
      BY <1>1, <1>2, <1>3, <2>2 DEF Accepted
    <2>4. s # <<>> /\ Len(s) \in 1 .. Len(s) /\ Last(s) = s[Len(s)]
      BY DEF Last
    <2>5. j = Len(s) \/ s[j] <= s[Len(s)]
      <3>1. PICK n \in Nat : n = Len(s) /\ n \in 1 .. Len(s)
        BY <2>4
      <3>2. j = n \/ j < n
        BY <3>1
      <3> QED
        BY <2>1, <3>1, <3>2
    <2>6. s[j] \in {1, 2} /\ s[Len(s)] \in {1, 2}
      BY <2>4, ElementType
    <2> QED
      BY <2>3, <2>4, <2>5, <2>6
  <1>5. made' = [made EXCEPT ![c] = Append(s, t)]
    BY <1>1, <1>2, <1>3 DEF ProcessFile
  <1>6. Append(s, t) \in Seq({1, 2})
    OBVIOUS
  <1>7. /\ made'[c] = Append(s, t) /\ \A d \in Categories \ {c} : made'[d] = made[d]
        /\ made' \in [Categories -> Seq({1, 2})]
    BY <1>5, <1>6 DEF KeptTimes
  <1> QED
    BY <1>1, <1>2, <1>3, <1>4, <1>7

\* A time that is not below those kept goes on the end of them.
LEMMA AppendTime ==
    ASSUME NEW s \in Seq({1, 2}), NEW t \in {1, 2}, \A j \in 1 .. Len(s) : s[j] <= t,
           \A j, k \in 1 .. Len(s) : j < k => s[j] <= s[k]
    PROVE  /\ \A j, k \in 1 .. Len(Append(s, t)) : j < k => Append(s, t)[j] <= Append(s, t)[k]
           /\ Len(Append(s, t)) = Len(s) + 1 /\ Last(Append(s, t)) = t
  BY DEF Last

LEMMA KeptStep ==
    ASSUME ReportInv, FileInv, KeptTimes, [Next]_vars
    PROVE  KeptTimes'
  <1>1. CASE UNCHANGED <<reported, made>>
    <2>1. made \in [Categories -> Seq({1, 2})] /\ \A c \in Categories :
              NewestImage(c)' = NewestImage(c)
      BY <1>1 DEF KeptTimes, NewestImage
    <2>2. ASSUME NEW c \in Categories, reported[c] # <<>>
          PROVE  Last(made[c]) <= created'[<<c, NewestImage(c)>>]
      <3>1. PICK f \in Files : f = <<c, NewestImage(c)>>
        BY <2>2, NewestType, ReportedType DEF ReportInv
      <3>2. /\ created[f] <= created'[f] /\ created[f] \in Nat /\ created'[f] \in Nat
        BY FileStep DEF FileInv, MadeWhen, Seconds
      <3>3. PICK m \in {1, 2} : m = Last(made[c])
        <4>1. PICK s \in Seq({1, 2}) : s = made[c]
          BY DEF KeptTimes
        <4>2. s # <<>>
          BY <2>2, <4>1, CategoryNames DEF KeptTimes, ReportInv, ReportType
        <4>3. Len(s) \in 1 .. Len(s) /\ Last(s) = s[Len(s)]
          BY <4>2 DEF Last
        <4> QED
          BY <4>1, <4>3, ElementType
      <3>4. m <= created[f]
        BY <2>2, <3>1, <3>3 DEF KeptTimes
      <3> QED
        BY <3>1, <3>2, <3>3, <3>4
    <2> QED
      BY <1>1, <2>1, <2>2 DEF KeptTimes
  <1>2. ASSUME NEW c \in Categories, NEW i \in 1 .. MaxImages,
               Accepted(<<c, i>>), ProcessFile(c, i), UNCHANGED <<file, created>>
        PROVE  KeptTimes'
    <2>1. PICK s \in Seq({1, 2}), t \in {1, 2} :
               /\ s = made[c] /\ t = created[<<c, i>>] /\ made'[c] = Append(s, t)
               /\ \A j \in 1 .. Len(s) : s[j] <= t
               /\ \A d \in Categories \ {c} : made'[d] = made[d]
               /\ made' \in [Categories -> Seq({1, 2})]
      BY <1>2, MadeAppend
    <2>2. /\ reported'[c] = Append(reported[c], i) /\ NewestImage(c)' = i
          /\ \A d \in Categories \ {c} :
                 reported'[d] = reported[d] /\ NewestImage(d)' = NewestImage(d)
      BY <1>2, ReportedAppend DEF ReportInv
    <2>3. Len(s) = Len(reported[c]) /\ \A j, k \in 1 .. Len(s) : j < k => s[j] <= s[k]
      BY <2>1 DEF KeptTimes
    <2>4. /\ \A j, k \in 1 .. Len(made'[c]) : j < k => made'[c][j] <= made'[c][k]
          /\ Len(made'[c]) = Len(s) + 1 /\ Last(made'[c]) = t
      BY <2>1, <2>3, AppendTime
    <2>5. Len(reported'[c]) = Len(reported[c]) + 1
      <3>1. PICK r \in Seq(1 .. MaxImages) : r = reported[c]
        BY DEF ReportInv, ReportType
      <3> QED
        BY <2>2, <3>1
    <2>6. Last(made'[c]) <= created'[<<c, i>>]
      BY <1>2, <2>1, <2>4
    <2> QED
      <3> SUFFICES ASSUME NEW d \in Categories
                   PROVE  /\ Len(made'[d]) = Len(reported'[d])
                          /\ \A j, k \in 1 .. Len(made'[d]) :
                                 j < k => made'[d][j] <= made'[d][k]
                          /\ reported'[d] # <<>> =>
                                 Last(made'[d]) <= created'[<<d, NewestImage(d)'>>]
        BY <2>1 DEF KeptTimes
      <3>1. CASE d = c
        BY <2>2, <2>3, <2>4, <2>5, <2>6, <3>1
      <3>2. CASE d # c
        BY <1>2, <2>1, <2>2, <3>2 DEF KeptTimes
      <3> QED
        BY <3>1, <3>2
  <1> QED
    BY <1>1, <1>2, ReportsWhenThere

LEMMA StaleStep ==
    ASSUME ReportInv, FileInv, KeptTimes, NothingStale, [Next]_vars
    PROVE  NothingStale'
  <1>1. /\ UNCHANGED setting
        /\ \A f \in Files : /\ OfThisRun(f) => OfThisRun(f)'
                            /\ ~OfThisRun(f)' => created'[f] = created[f]
    BY FileStep, SameSetting
  <1>2. \A d \in Categories : \A j \in 1 .. Len(reported[d]) :
            /\ reported[d][j] \in 1 .. MaxImages /\ <<d, reported[d][j]>> \in Files
            /\ \/ file'[<<d, reported[d][j]>>] \in {"partial", "whole"}
               \/ /\ setting'.recent /\ created'[<<d, reported[d][j]>>] = StartTime
                  /\ \A k \in 1 .. Len(made[d]) : made[d][k] = StartTime
    <2> SUFFICES ASSUME NEW d \in Categories, NEW j \in 1 .. Len(reported[d])
                 PROVE  /\ reported[d][j] \in 1 .. MaxImages
                        /\ <<d, reported[d][j]>> \in Files
                        /\ \/ file'[<<d, reported[d][j]>>] \in {"partial", "whole"}
                           \/ /\ setting'.recent
                              /\ created'[<<d, reported[d][j]>>] = StartTime
                              /\ \A k \in 1 .. Len(made[d]) : made[d][k] = StartTime
      OBVIOUS
    <2>1. reported[d][j] \in 1 .. MaxImages
      BY ReportedType DEF ReportInv
    <2>2. PICK f \in Files : f = <<d, reported[d][j]>>
      BY <2>1 DEF Files
    <2>3. \/ OfThisRun(f)
          \/ /\ setting.recent /\ created[f] = StartTime
             /\ \A k \in 1 .. Len(made[d]) : made[d][k] = StartTime
      BY <2>2, Zenon DEF NothingStale
    <2> QED
      BY <1>1, <2>1, <2>2, <2>3 DEF OfThisRun
  <1>3. CASE UNCHANGED <<reported, made>>
    BY <1>2, <1>3 DEF NothingStale, OfThisRun
  <1>4. ASSUME NEW c \in Categories, NEW i \in 1 .. MaxImages, UNCHANGED <<file, created>>,
               Accepted(<<c, i>>), ProcessFile(c, i)
        PROVE  NothingStale'
    <2>1. /\ reported'[c] = Append(reported[c], i)
          /\ \A d \in Categories \ {c} : reported'[d] = reported[d]
      BY <1>4, ReportedAppend DEF ReportInv
    <2>2. PICK s \in Seq({1, 2}), t \in {1, 2} :
               /\ s = made[c] /\ t = created[<<c, i>>] /\ made'[c] = Append(s, t)
               /\ \A j \in 1 .. Len(s) : s[j] <= t
               /\ \A d \in Categories \ {c} : made'[d] = made[d]
      BY <1>4, MadeAppend
    <2>3. PICK g \in Files : g = <<c, i>>
      BY DEF Files
    <2>4. /\ OfThisRun(g)' <=> OfThisRun(g)
          /\ ~OfThisRun(g) => t = StartTime /\ setting'.recent
      <3>1. file[g] \in {"old", "partial", "whole"} /\ t >= StartTime
        BY <1>4, <2>2, <2>3 DEF Accepted, ValidFile, FileInv, FileType
      <3>2. file[g] = "old" => t = StartTime /\ setting.recent
        BY <2>2, <2>3 DEF FileInv, MadeWhen
      <3> QED
        BY <1>1, <1>4, <3>1, <3>2 DEF OfThisRun
    <2>5. t = StartTime => \A k \in 1 .. Len(made'[c]) : made'[c][k] = StartTime
      <3> SUFFICES ASSUME t = StartTime, NEW k \in 1 .. Len(Append(s, t))
                   PROVE  Append(s, t)[k] = StartTime
        BY <2>2
      <3>1. CASE k = Len(s) + 1
        BY <3>1
      <3>2. CASE k \in 1 .. Len(s)
        <4>1. s[k] \in {1, 2} /\ Append(s, t)[k] = s[k]
          BY <3>2, ElementType
        <4>2. s[k] <= t
          BY <2>2, <3>2
        <4> QED
          BY <4>1, <4>2 DEF StartTime
      <3> QED
        BY <3>1, <3>2
    <2>6. \A j \in 1 .. Len(reported[c]) : reported[c][j] < i
      <3> SUFFICES ASSUME NEW j \in 1 .. Len(reported[c]) PROVE reported[c][j] < i
        OBVIOUS
      <3>1. PICK r \in Seq(1 .. MaxImages) : r = reported[c]
        BY DEF ReportInv, ReportType
      <3>2. Increasing(Append(r, i))
        BY <2>1, <3>1, ReportStep DEF ReportInv, CompanionsBehind
      <3>3. j \in 1 .. Len(r) /\ Append(r, i)[j] = r[j] /\ Append(r, i)[Len(r) + 1] = i
            /\ j < Len(r) + 1 /\ j \in 1 .. Len(Append(r, i))
            /\ Len(r) + 1 \in 1 .. Len(Append(r, i))
        BY <3>1
      <3> QED
        BY <3>1, <3>2, <3>3 DEF Increasing
    <2>7. ASSUME OfThisRun(g), NEW j \in 1 .. Len(reported[c])
          PROVE  file'[<<c, reported[c][j]>>] \in {"partial", "whole"}
      <3>1. PICK m \in 1 .. MaxImages : m = reported[c][j] /\ m < i
        BY <1>2, <2>6
      <3>2. Position(c, m) < Position(c, i)
        BY <3>1, Apart, WatcherAssumption
      <3>3. Position(c, i) <= written /\ written \in Nat
        BY <2>3, <2>7 DEF FileInv, WrittenFirst
      <3>4. Position(c, m) \in Nat /\ Position(c, i) \in Nat
        BY WhichFile, WatcherAssumption
      <3>5. OfThisRun(<<c, m>>)
        BY <3>2, <3>3, <3>4 DEF FileInv, WrittenFirst
      <3>6. <<c, m>> \in Files
        BY DEF Files
      <3> QED
        BY <1>1, <3>1, <3>5, <3>6 DEF OfThisRun
    <2>8. SUFFICES ASSUME NEW d \in Categories, NEW j \in 1 .. Len(reported'[d])
                   PROVE  \/ file'[<<d, reported'[d][j]>>] \in {"partial", "whole"}
                          \/ /\ setting'.recent /\ created'[<<d, reported'[d][j]>>] = StartTime
                             /\ \A k \in 1 .. Len(made'[d]) : made'[d][k] = StartTime
      BY DEF NothingStale, OfThisRun
    <2>9. CASE d = c
      <3>1. \/ j \in 1 .. Len(reported[c]) /\ reported'[c][j] = reported[c][j]
            \/ reported'[c][j] = i
        <4>1. PICK r \in Seq(1 .. MaxImages) : r = reported[c]
          BY DEF ReportInv, ReportType
        <4> QED
          BY <2>1, <2>8, <2>9, <4>1
      <3>2. CASE reported'[c][j] = i
        <4>1. <<d, reported'[d][j]>> = g
          BY <2>3, <2>9, <3>2
        <4>2. CASE OfThisRun(g)
          BY <2>4, <4>1, <4>2 DEF OfThisRun
        <4>3. CASE ~OfThisRun(g)
          <5>1. created'[g] = StartTime
            BY <1>4, <2>2, <2>3, <2>4, <4>3
          <5> QED
            BY <2>4, <2>5, <2>9, <4>1, <4>3, <5>1
        <4> QED
          BY <4>2, <4>3
      <3>3. CASE j \in 1 .. Len(reported[c]) /\ reported'[c][j] = reported[c][j]
        <4>1. CASE OfThisRun(g)
          BY <2>7, <2>9, <3>3, <4>1
        <4>2. CASE ~OfThisRun(g)
          <5>1. \/ file'[<<d, reported[d][j]>>] \in {"partial", "whole"}
                \/ setting'.recent /\ created'[<<d, reported[d][j]>>] = StartTime
            BY <1>2, <2>9, <3>3
          <5> QED
            BY <2>4, <2>5, <2>9, <3>3, <4>2, <5>1
        <4> QED
          BY <4>1, <4>2
      <3> QED
        BY <3>1, <3>2, <3>3
    <2>10. CASE d # c
      <3>1. reported'[d] = reported[d] /\ made'[d] = made[d]
        BY <2>1, <2>2, <2>10
      <3>2. j \in 1 .. Len(reported[d])
        BY <2>8, <3>1
      <3> QED
        BY <1>2, <3>1, <3>2
    <2> QED
      BY <2>9, <2>10
  <1> QED
    BY <1>3, <1>4, ReportsWhenThere

LEMMA StaleInit == Init => KeptTimes /\ NothingStale
  <1> SUFFICES ASSUME Init PROVE KeptTimes /\ NothingStale
    OBVIOUS
  <1>1. \A c \in Categories : reported[c] = <<>> /\ made[c] = <<>>
    BY DEF Init
  <1>2. made \in [Categories -> Seq({1, 2})]
    BY DEF Init
  <1> QED
    BY <1>1, <1>2 DEF KeptTimes, NothingStale

\* For any number of images and viewers, and whatever previous runs left: no
\* image that is not from this run is reported, but those made in the second in
\* which it starts, and these only until one of a later second is (isFileValid,
\* processFile).
THEOREM NeverStale == Spec => []NothingStale
  <1> DEFINE Inv == ReportInv /\ FileInv /\ KeptTimes /\ NothingStale
  <1>1. Init => Inv
    BY ReportInit, FileInit, StaleInit
  <1>2. Inv /\ [Next]_vars => Inv'
    BY ReportStep, FileStep, KeptStep, StaleStep
  <1>3. Inv => NothingStale
    OBVIOUS
  <1> HIDE DEF Inv
  <1> QED
    BY <1>1, <1>2, <1>3, PTL DEF Spec

\* The times never keep a file of this run from being reported.
LEMMA NoneRefused ==
    ASSUME ReportInv, FileInv, KeptTimes, NEW c \in Categories, NEW i \in 1 .. MaxImages,
           OfThisRun(<<c, i>>), NewestImage(c) < i
    PROVE  Accepted(<<c, i>>)
  <1>1. PICK f \in Files : f = <<c, i>>
    BY DEF Files
  <1>2. /\ created[f] \in Nat /\ created[f] >= StartTime /\ file[f] # "absent"
    BY <1>1 DEF FileInv, MadeWhen, Seconds, OfThisRun
  <1>3. ASSUME reported[c] # <<>> PROVE created[f] >= Last(made[c])
    <2>1. PICK n \in 1 .. MaxImages : n = NewestImage(c)
      BY <1>3, NewestType, ReportedType DEF ReportInv
    <2>2. created[<<c, n>>] <= created[f]
      BY <1>1, <2>1 DEF FileInv, InTime
    <2>3. Last(made[c]) <= created[<<c, n>>]
      BY <1>3, <2>1 DEF KeptTimes
    <2>4. created[<<c, n>>] \in Nat
      BY DEF FileInv, MadeWhen, Seconds, Files
    <2>5. Last(made[c]) \in Nat
      <3>1. PICK s \in Seq({1, 2}) : s = made[c]
        BY DEF KeptTimes
      <3>2. s # <<>>
        <4>1. PICK r \in Seq(1 .. MaxImages) : r = reported[c]
          BY DEF ReportInv, ReportType
        <4>2. Len(s) = Len(r) /\ r # <<>>
          BY <1>3, <3>1, <4>1 DEF KeptTimes
        <4> QED
          BY <4>2
      <3>3. Len(s) \in 1 .. Len(s) /\ Last(s) = s[Len(s)]
        BY <3>2 DEF Last
      <3> QED
        BY <3>1, <3>3, ElementType
    <2> QED
      BY <1>2, <2>2, <2>3, <2>4, <2>5
  <1> QED
    BY <1>1, <1>2, <1>3 DEF Accepted, ValidFile

----------------------------------------------------------------------------
(* The viewers.  One that is at work has a file it loads.                  *)

Viewers == {w \in Viewer : w.loader # "none" => w.loading # NoFile}

ViewType == setting \in Settings /\ view \in [setting.views -> Viewers]

LEMMA Loads ==
    ASSUME NEW w \in Viewers, NEW f \in Files
    PROVE  /\ StartLoading(w, f) \in Viewers /\ Newest(StartLoading(w, f)) = f
           /\ ScheduleImageLoad(w, f) \in Viewers /\ Newest(ScheduleImageLoad(w, f)) = f
           /\ LoadImage(w, f) \in Viewers /\ Newest(LoadImage(w, f)) = f
           /\ StartLoading(w, f).loader # "none"
           /\ ScheduleImageLoad(w, f).scheduled # NoFile
  <1>1. f # NoFile
    BY NoFileAssumption
  <1>2. /\ StartLoading(w, f) \in Viewers /\ StartLoading(w, f).scheduled = NoFile
        /\ StartLoading(w, f).loading = f /\ StartLoading(w, f).loader = "first"
    BY <1>1 DEF StartLoading, Viewers, Viewer
  <1>3. ScheduleImageLoad(w, f) \in Viewers /\ ScheduleImageLoad(w, f).scheduled = f
    BY DEF ScheduleImageLoad, Viewers, Viewer
  <1>4. LoadImage(w, f) \in {StartLoading(w, f), ScheduleImageLoad(w, f)}
    BY DEF LoadImage, ScheduleImageLoad
  <1> QED
    BY <1>1, <1>2, <1>3, <1>4 DEF Newest

LEMMA FilePair ==
    ASSUME NEW f \in Files
    PROVE  /\ f = <<f[1], f[2]>> /\ f[1] \in Categories /\ f[2] \in 1 .. MaxImages
           /\ \A g \in Files : <<g[1], f[2]>> \in Files
  BY DEF Files

\* A viewer that follows another one with Lock Browse is busy afterwards.
LEMMA LockedLoad ==
    ASSUME ViewType, NEW w \in Viewers, NEW f \in Files
    PROVE  /\ OnImageLoaded(w, f) \in Viewers
           /\ OnImageLoaded(w, f) # w =>
                  \/ OnImageLoaded(w, f).loader # "none"
                  \/ OnImageLoaded(w, f).scheduled # NoFile
  <1> DEFINE new == <<w.shown[1], f[2]>>
  <1>1. CASE w.shown = NoFile \/ OnImageLoaded(w, f) = w
    BY <1>1 DEF OnImageLoaded
  <1>2. CASE w.shown # NoFile /\ OnImageLoaded(w, f) # w
    <2>1. w.shown \in Files
      BY <1>2 DEF Viewers, Viewer
    <2>2. new \in Files
      BY <2>1, FilePair
    <2>3. OnImageLoaded(w, f) = LoadImage(w, new)
      BY <1>2 DEF OnImageLoaded
    <2> HIDE DEF new
    <2>4. LoadImage(w, new) \in {StartLoading(w, new), ScheduleImageLoad(w, new)}
      BY DEF LoadImage, ScheduleImageLoad
    <2> QED
      BY <2>2, <2>3, <2>4, Loads
  <1> QED
    BY <1>1, <1>2

\* A report leaves a viewer as it is, or takes it to the image reported.
LEMMA Shows ==
    ASSUME ViewType, NEW f \in Files, NEW old, Show(f, old)
    PROVE  /\ ViewType' /\ DOMAIN view' = DOMAIN view /\ UNCHANGED setting
           /\ \A v \in DOMAIN view :
                  \/ view'[v] = view[v] /\ (old # NoFile => Newest(view[v]) # old)
                  \/ Newest(view'[v]) = f
  <1>1. /\ UNCHANGED setting /\ DOMAIN view = setting.views /\ DOMAIN view' = DOMAIN view
        /\ \A v \in DOMAIN view : view[v] \in Viewers
    BY DEF Show, ViewType
  <1>2. ASSUME NEW v \in DOMAIN view
        PROVE  /\ view'[v] \in Viewers
               /\ \/ view'[v] = view[v] /\ (old # NoFile => Newest(view[v]) # old)
                  \/ Newest(view'[v]) = f
    <2>1. \/ view'[v] = ScheduleImageLoad(view[v], f)
          \/ view'[v] = LoadImage(view[v], f)
          \/ view'[v] = view[v] /\ (old # NoFile => Newest(view[v]) # old)
      BY DEF Show
    <2> QED
      BY <2>1, <1>1, Loads
  <1>3. view' = [v \in setting.views |-> view'[v]]
    BY <1>1 DEF Show
  <1>4. view' \in [setting.views -> Viewers]
    BY <1>1, <1>2, <1>3
  <1> QED
    BY <1>1, <1>2, <1>4 DEF ViewType

LEMMA OneViewer ==
    ASSUME ViewType, UNCHANGED setting, NEW v \in DOMAIN view, NEW w \in Viewers,
           view' = [view EXCEPT ![v] = w]
    PROVE  ViewType' /\ DOMAIN view' = DOMAIN view /\ view'[v] = w
           /\ \A u \in DOMAIN view \ {v} : view'[u] = view[u]
  BY DEF ViewType

\* What a load that succeeds does to the viewers.
LEMMA Finishes ==
    ASSUME ViewType, NEW v \in DOMAIN view, FinishLoadImage(v)
    PROVE  /\ ViewType' /\ DOMAIN view' = DOMAIN view /\ UNCHANGED setting
           /\ view[v].loading \in Files /\ Newest(view'[v]) = Newest(view[v])
           /\ \/ view'[v].loader = "stuck" /\ \A w \in DOMAIN view \ {v} : view'[w] = view[w]
              \/ /\ view'[v].shown = view[v].loading
                 /\ \A w \in DOMAIN view \ {v} :
                        view'[w] = OnImageLoaded(view[w], view[v].loading)
  <1>1. /\ UNCHANGED setting /\ DOMAIN view = setting.views
        /\ \A w \in DOMAIN view : view[w] \in Viewers
    BY DEF FinishLoadImage, ViewType
  <1>2. view[v].loading \in Files /\ view[v].loading # NoFile
    BY <1>1 DEF FinishLoadImage, Viewers, Viewer
  <1>3. CASE view[v].loader = "failed"
    <2> DEFINE w == [view[v] EXCEPT !.loader = "stuck"]
    <2>1. view' = [view EXCEPT ![v] = w]
      BY <1>1, <1>3 DEF FinishLoadImage
    <2>2. w \in Viewers /\ w.loader = "stuck" /\ Newest(w) = Newest(view[v])
      BY <1>1, <1>2 DEF Viewers, Viewer, Newest
    <2> HIDE DEF w
    <2>3. /\ ViewType' /\ DOMAIN view' = DOMAIN view /\ view'[v] = w
          /\ \A u \in DOMAIN view \ {v} : view'[u] = view[u]
      BY <1>1, <2>1, <2>2, OneViewer
    <2> QED
      BY <1>1, <1>2, <2>2, <2>3
  <1>4. CASE view[v].loader = "loaded"
    <2> DEFINE f == view[v].loading
               w == [view[v] EXCEPT !.shown = f, !.loading = NoFile, !.loader = "none"]
    <2>1. view' = [u \in DOMAIN view |-> IF u = v THEN w ELSE OnImageLoaded(view[u], f)]
      BY <1>4 DEF FinishLoadImage
    <2>2. w \in Viewers /\ w.shown = f /\ Newest(w) = Newest(view[v])
      BY <1>1, <1>2 DEF Viewers, Viewer, Newest
    <2> HIDE DEF w, f
    <2>3. \A u \in DOMAIN view : OnImageLoaded(view[u], f) \in Viewers
      BY <1>1, <1>2, LockedLoad DEF f
    <2>4. view' \in [setting.views -> Viewers]
      BY <1>1, <2>1, <2>2, <2>3
    <2> QED
      BY <1>1, <1>2, <2>1, <2>2, <2>4 DEF ViewType, f
  <1> QED
    BY <1>3, <1>4 DEF FinishLoadImage

\* The steps, by what they do to the viewers.
LEMMA ReportedShows ==
    ASSUME ReportInv, NEW c \in Categories, NEW i \in 1 .. MaxImages, ProcessFile(c, i)
    PROVE  /\ <<c, i>> \in Files /\ i # 0
           /\ Show(<<c, i>>, IF NewestImage(c) = 0 THEN NoFile ELSE <<c, NewestImage(c)>>)
           /\ NewestImage(c) # 0 => <<c, NewestImage(c)>> # NoFile
           /\ NewestImage(c)' = i
           /\ \A d \in Categories \ {c} : NewestImage(d)' = NewestImage(d)
  <1>1. ReportType
    BY DEF ReportInv
  <1>2. /\ NewestImage(c)' = i
        /\ \A d \in Categories \ {c} : NewestImage(d)' = NewestImage(d)
    BY <1>1, ReportedAppend
  <1>3. NewestImage(c) # 0 => <<c, NewestImage(c)>> # NoFile
    <2>1. NewestImage(c) # 0 => NewestImage(c) \in 1 .. MaxImages
      <3>1. reported[c] \in Seq(1 .. MaxImages)
        BY <1>1 DEF ReportType
      <3>2. \A s \in Seq(1 .. MaxImages) : \A j \in 1 .. Len(s) : s[j] \in 1 .. MaxImages
        BY ElementType
      <3> QED
        BY <1>1, <3>1, <3>2, NewestType
    <2> QED
      BY <2>1, NoFileAssumption DEF Files
  <1> QED
    BY <1>2, <1>3 DEF ProcessFile, Files

LEMMA StartsScheduled ==
    ASSUME ViewType, NEW v \in DOMAIN view, LoadScheduledImage(v)
    PROVE  /\ ViewType' /\ DOMAIN view' = DOMAIN view /\ UNCHANGED setting
           /\ Newest(view'[v]) = Newest(view[v])
           /\ \A w \in DOMAIN view \ {v} : view'[w] = view[w]
  <1> DEFINE w == StartLoading(view[v], view[v].scheduled)
  <1>1. view' = [view EXCEPT ![v] = w] /\ UNCHANGED setting
    BY DEF LoadScheduledImage
  <1>2. view[v] \in Viewers /\ view[v].scheduled \in Files
    BY DEF LoadScheduledImage, ViewType, Viewers, Viewer
  <1>3. w \in Viewers /\ Newest(w) = view[v].scheduled
    BY <1>2, Loads
  <1>4. Newest(view[v]) = view[v].scheduled
    BY DEF LoadScheduledImage, Newest
  <1> HIDE DEF w
  <1> QED
    BY <1>1, <1>3, <1>4, OneViewer

LEMMA Reads ==
    ASSUME ViewType, NEW v \in DOMAIN view, ReadImage(v)
    PROVE  /\ ViewType' /\ DOMAIN view' = DOMAIN view /\ UNCHANGED setting
           /\ Newest(view'[v]) = Newest(view[v])
           /\ \A w \in DOMAIN view \ {v} : view'[w] = view[w]
  <1>1. PICK l \in {"loaded", "retry", "failed"} :
            view' = [view EXCEPT ![v] = [view[v] EXCEPT !.loader = l]]
    <2> DEFINE l == IF file[view[v].loading] \in {"old", "whole"} THEN "loaded"
                    ELSE IF view[v].loader = "first" THEN "retry" ELSE "failed"
    <2>1. view' = [view EXCEPT ![v] = [view[v] EXCEPT !.loader = l]]
      BY DEF ReadImage, ViewType
    <2>2. l \in {"loaded", "retry", "failed"}
      OBVIOUS
    <2> QED
      BY <2>1, <2>2
  <1> DEFINE w == [view[v] EXCEPT !.loader = l]
  <1>2. view[v] \in Viewers /\ view[v].loader # "none"
    BY DEF ReadImage, ViewType
  <1>3. w \in Viewers /\ Newest(w) = Newest(view[v])
    BY <1>2 DEF Viewers, Viewer, Newest
  <1>4. UNCHANGED setting
    BY DEF ReadImage
  <1>5. view' = [view EXCEPT ![v] = w]
    BY <1>1
  <1> HIDE DEF w
  <1> QED
    BY <1>3, <1>4, <1>5, OneViewer

LEMMA UserShows ==
    ASSUME ViewType, NEW v \in DOMAIN view, UserLoads(v)
    PROVE  /\ ViewType' /\ DOMAIN view' = DOMAIN view /\ UNCHANGED setting
           /\ \A w \in DOMAIN view \ {v} : view'[w] = view[w]
  <1>1. PICK f \in setting.user : view' = [view EXCEPT ![v] = LoadImage(view[v], f)]
    BY DEF UserLoads
  <1>2. f \in Files
    BY WatcherAssumption DEF ViewType
  <1>3. view[v] \in Viewers /\ UNCHANGED setting
    BY DEF ViewType, UserLoads
  <1>4. LoadImage(view[v], f) \in Viewers
    BY <1>2, <1>3, Loads
  <1> QED
    BY <1>1, <1>3, <1>4, OneViewer

LEMMA ViewSteps ==
    ASSUME ReportType, [Next]_vars
    PROVE  \/ \E c \in Categories, i \in 1 .. MaxImages : ProcessFile(c, i)
           \/ UNCHANGED reported /\ \E v \in DOMAIN view : LoadScheduledImage(v)
           \/ UNCHANGED reported /\ \E v \in DOMAIN view : FinishLoadImage(v)
           \/ UNCHANGED reported /\ \E v \in DOMAIN view : ReadImage(v)
           \/ UNCHANGED reported /\ \E v \in DOMAIN view : UserLoads(v)
           \/ UNCHANGED <<reported, displayVars>>
  <1>1. CASE FindNext
    <2>1. \/ \E c \in Categories, i \in 1 .. MaxImages : ProcessFile(c, i)
          \/ UNCHANGED <<reported, displayVars>>
      BY <1>1 DEF FindNext, Accepted, ValidFile, Files
    <2> QED
      BY <2>1
  <1>2. CASE FindCompanion
    <2>1. \/ \E c \in Categories, i \in 1 .. MaxImages : ProcessFile(c, i)
          \/ UNCHANGED <<reported, displayVars>>
      BY <1>2 DEF FindCompanion, Accepted, ValidFile, Files
    <2> QED
      BY <2>1
  <1>3. CASE WriteFile \/ Tick \/ ProcessEnds \/ Poll \/ Stop \/ UNCHANGED vars
    BY <1>3 DEF WriteFile, Tick, ProcessEnds, Poll, Stop, watchVars, vars
  <1>4. ASSUME NEW v \in DOMAIN view,
               \/ LoadScheduledImage(v) \/ FinishLoadImage(v) \/ ReadImage(v) \/ UserLoads(v)
        PROVE  UNCHANGED reported
    BY <1>4 DEF LoadScheduledImage, FinishLoadImage, ReadImage, UserLoads, watchVars
  <1> QED
    BY <1>1, <1>2, <1>3, <1>4 DEF Next, GuiStep

LEMMA ViewInit == Init => ViewType
  <1> SUFFICES ASSUME Init PROVE ViewType
    OBVIOUS
  <1> DEFINE w == [shown |-> NoFile, loading |-> NoFile, scheduled |-> NoFile,
                   loader |-> "none"]
  <1>1. w \in Viewers
    BY DEF Viewers, Viewer
  <1>2. setting \in Settings /\ view = [v \in setting.views |-> w]
    BY DEF Init
  <1> QED
    BY <1>1, <1>2 DEF ViewType

LEMMA ViewStep ==
    ASSUME ReportInv, ViewType, [Next]_vars
    PROVE  ViewType' /\ DOMAIN view' = DOMAIN view /\ UNCHANGED setting
  <1>1. ASSUME NEW c \in Categories, NEW i \in 1 .. MaxImages, ProcessFile(c, i)
        PROVE  ViewType' /\ DOMAIN view' = DOMAIN view /\ UNCHANGED setting
    BY <1>1, ReportedShows, Shows
  <1>2. CASE UNCHANGED <<reported, displayVars>>
    BY <1>2 DEF displayVars, ViewType
  <1>3. ReportType
    BY DEF ReportInv
  <1> QED
    BY <1>1, <1>2, <1>3, ViewSteps, StartsScheduled, Finishes, Reads, UserShows

----------------------------------------------------------------------------
(* A viewer at the newest image is taken along.                            *)

LEMMA FollowStep ==
    ASSUME ReportInv, ViewType, [Next]_vars, NEW v \in DOMAIN view,
           ~setting.lock, AtNewest(v)
    PROVE  AtNewest(v)' \/ UserLoads(v)
  <1>0. PICK d \in Categories : NewestImage(d) # 0 /\ Newest(view[v]) = <<d, NewestImage(d)>>
    BY DEF AtNewest
  <1>1. ASSUME NEW c \in Categories, NEW i \in 1 .. MaxImages, ProcessFile(c, i)
        PROVE  AtNewest(v)'
    <2> DEFINE old == IF NewestImage(c) = 0 THEN NoFile ELSE <<c, NewestImage(c)>>
    <2>1. /\ <<c, i>> \in Files /\ i # 0 /\ Show(<<c, i>>, old)
          /\ NewestImage(c) # 0 => old # NoFile /\ old = <<c, NewestImage(c)>>
          /\ NewestImage(c)' = i
          /\ \A e \in Categories \ {c} : NewestImage(e)' = NewestImage(e)
      BY <1>1, ReportedShows
    <2> HIDE DEF old
    <2>2. \/ view'[v] = view[v] /\ (old # NoFile => Newest(view[v]) # old)
          \/ Newest(view'[v]) = <<c, i>>
      BY <2>1, Shows
    <2>3. CASE Newest(view'[v]) = <<c, i>>
      BY <2>1, <2>3 DEF AtNewest
    <2>4. CASE view'[v] = view[v] /\ (old # NoFile => Newest(view[v]) # old)
      <3>1. d # c
        BY <1>0, <2>1, <2>4
      <3>2. NewestImage(d)' = NewestImage(d)
        BY <2>1, <3>1
      <3> QED
        BY <1>0, <2>4, <3>2 DEF AtNewest
    <2> QED
      BY <2>2, <2>3, <2>4
  <1>2. ASSUME UNCHANGED reported, Newest(view'[v]) = Newest(view[v])
        PROVE  AtNewest(v)'
    BY <1>0, <1>2 DEF AtNewest, NewestImage
  <1>3. ASSUME NEW w \in DOMAIN view, LoadScheduledImage(w) \/ ReadImage(w)
        PROVE  Newest(view'[v]) = Newest(view[v])
    BY <1>3, StartsScheduled, Reads
  <1>4. ASSUME NEW w \in DOMAIN view, FinishLoadImage(w)
        PROVE  Newest(view'[v]) = Newest(view[v])
    <2>1. OnImageLoaded(view[v], view[w].loading) = view[v]
      BY DEF OnImageLoaded
    <2> QED
      BY <1>4, <2>1, Finishes
  <1>5. ASSUME NEW w \in DOMAIN view, UserLoads(w)
        PROVE  UserLoads(v) \/ Newest(view'[v]) = Newest(view[v])
    BY <1>5, UserShows
  <1>6. CASE UNCHANGED <<reported, displayVars>>
    BY <1>2, <1>6 DEF displayVars
  <1>7. ReportType
    BY DEF ReportInv
  <1> QED
    BY <1>1, <1>2, <1>3, <1>4, <1>5, <1>6, <1>7, ViewSteps

\* For any number of images and viewers: a viewer at the newest image of a
\* category stays at the newest image of one, whatever is reported and however
\* busy it is, until the user takes it away (newOutput, scheduleImageLoad).
THEOREM ViewersKeepUp == Spec => ViewersFollow
  <1>1. Init => ReportInv /\ ViewType
    BY ReportInit, ViewInit
  <1>2. ReportInv /\ ViewType /\ [Next]_vars => (ReportInv /\ ViewType)'
    BY ReportStep, ViewStep
  <1>3. ReportInv /\ ViewType /\ [Next]_vars =>
            [\A v \in DOMAIN view :
                ~setting.lock /\ AtNewest(v) => AtNewest(v)' \/ UserLoads(v)]_vars
    BY FollowStep
  <1> QED
    BY <1>1, <1>2, <1>3, PTL DEF Spec, ViewersFollow

----------------------------------------------------------------------------
(* With Lock Browse the viewers come to rest at the same iteration.        *)

LEMMA LockStep ==
    ASSUME ViewType, NEW v \in DOMAIN view, NEW w \in DOMAIN view,
           setting.lock, FinishLoadImage(v), AtRest', view'[w].shown # NoFile
    PROVE  \/ view'[w].shown[2] = view[v].loading[2]
           \/ file[<<view'[w].shown[1], view[v].loading[2]>>] = "absent"
  <1> DEFINE f == view[v].loading
             new == <<view[w].shown[1], f[2]>>
  <1>1. /\ view[w] \in Viewers /\ f \in Files /\ DOMAIN view' = DOMAIN view
        /\ view'[v].shown = f
        /\ w # v => view'[w] = OnImageLoaded(view[w], f)
    <2>1. view'[v].loader # "stuck"
      BY Finishes DEF AtRest
    <2> QED
      BY <2>1, Finishes DEF ViewType
  <1>2. CASE w # v
    <2>1. view'[w] = view[w]
      BY <1>1, <1>2, LockedLoad DEF AtRest
    <2>2. view[w].shown \in Files
      BY <1>1, <2>1 DEF Viewers, Viewer
    <2>3. new \in Files
      BY <1>1, <2>2, FilePair
    <2>4. view[w].shown # new /\ file[new] # "absent" => LoadImage(view[w], new) = view[w]
      BY <1>1, <1>2, <2>1 DEF OnImageLoaded
    <2>5. LoadImage(view[w], new) # view[w]
      <3>1. view[w].loader = "none" /\ view[w].scheduled = NoFile
        BY <1>1, <2>1 DEF AtRest
      <3>2. LoadImage(view[w], new) = StartLoading(view[w], new)
        BY <3>1 DEF LoadImage
      <3> HIDE DEF new
      <3>3. StartLoading(view[w], new).loader # "none"
        BY <1>1, <2>3, Loads
      <3> QED
        BY <3>1, <3>2, <3>3
    <2>6. view[w].shown = new \/ file[new] = "absent"
      BY <2>4, <2>5
    <2> QED
      BY <2>1, <2>6
  <1> QED
    BY <1>1, <1>2

\* For any number of images and viewers: with Lock Browse, when the last load
\* under way is over, the viewers show images of the same iteration, unless one
\* has no such image (onImageLoaded).
THEOREM LockedViewersAgree == Spec => SameIteration
  <1>1. Init => ReportInv /\ ViewType
    BY ReportInit, ViewInit
  <1>2. ReportInv /\ ViewType /\ [Next]_vars => (ReportInv /\ ViewType)'
    BY ReportStep, ViewStep
  <1>3. ReportInv /\ ViewType /\ [Next]_vars =>
            [\A v, w \in DOMAIN view :
                LET f == view[v].loading
                    g == view'[w].shown
                IN  setting.lock /\ FinishLoadImage(v) /\ AtRest' /\ g # NoFile =>
                        g[2] = f[2] \/ file[<<g[1], f[2]>>] = "absent"]_vars
    BY LockStep
  <1> QED
    BY <1>1, <1>2, <1>3, PTL DEF Spec, SameIteration

----------------------------------------------------------------------------
(* Types.                                                                  *)

ProgressType ==
    /\ written \in 0 .. 3 * MaxImages /\ running \in BOOLEAN
    /\ check \in {"idle", "next", "companions", "stopped"}
    /\ todo \in {<<>>, Companions, Tail(Companions)} /\ closing \in BOOLEAN
    /\ atStop \in 0 .. MaxImages

LEMMA ProgressInit == Init => ProgressType
  <1>1. 0 \in 0 .. 3 * MaxImages /\ 0 \in 0 .. MaxImages
    BY WatcherAssumption
  <1> QED
    BY <1>1 DEF Init, ProgressType

LEMMA ProgressStep ==
    ASSUME ReportInv, ProgressType, [Next]_vars
    PROVE  ProgressType'
  <1>1. CASE WriteFile
    BY <1>1, WatcherAssumption DEF WriteFile, ProgressType, watchVars
  <1>2. CASE Tick \/ ProcessEnds \/ Poll \/ Stop
    <2>1. NewestImage("real") \in 0 .. MaxImages
      BY CategoryNames, ReportedType DEF ReportInv
    <2> QED
      BY <1>2, <2>1 DEF Tick, ProcessEnds, Poll, Stop, ProgressType, watchVars, fileVars
  <1>3. CASE FindNext
    BY <1>3 DEF FindNext, Return, ProgressType, fileVars
  <1>4. CASE FindCompanion
    <2>1. todo \in {Companions, Tail(Companions)}
      BY <1>4 DEF FindCompanion, ReportInv, CompanionsLeft
    <2>2. todo' \in {Tail(Companions), <<>>}
      BY <1>4, <2>1, CompanionOrder DEF FindCompanion
    <2> QED
      BY <1>4, <2>2 DEF FindCompanion, Return, ProgressType, fileVars
  <1>5. ASSUME NEW v \in DOMAIN view,
               \/ LoadScheduledImage(v) \/ FinishLoadImage(v) \/ ReadImage(v) \/ UserLoads(v)
        PROVE  ProgressType'
    BY <1>5 DEF LoadScheduledImage, FinishLoadImage, ReadImage, UserLoads, ProgressType,
                watchVars, fileVars
  <1>6. CASE UNCHANGED vars
    BY <1>6 DEF vars, watchVars, fileVars, ProgressType
  <1> QED
    BY <1>1, <1>2, <1>3, <1>4, <1>5, <1>6 DEF Next, GuiStep

\* The variables have their types: the watcher never looks for a companion that
\* is not left, and viewers load files a run can write.
THEOREM TypeCorrect == Spec => []TypeOK
  <1> DEFINE Inv == ReportInv /\ FileInv /\ KeptTimes /\ ViewType /\ ProgressType
  <1>1. Init => Inv
    BY ProgressInit, ReportInit, FileInit, StaleInit, ViewInit
  <1>2. Inv /\ [Next]_vars => Inv'
    BY ReportStep, FileStep, KeptStep, ViewStep, ProgressStep
  <1>3. Inv => TypeOK
    <2>1. KeptTimes => made \in [Categories -> Seq(Seconds)]
      BY DEF KeptTimes, Seconds
    <2> QED
      BY <2>1 DEF ReportInv, ReportType, FileInv, FileType, MadeWhen, ViewType, ProgressType,
                  TypeOK, Viewers
  <1> HIDE DEF Inv
  <1> QED
    BY <1>1, <1>2, <1>3, PTL DEF Spec

----------------------------------------------------------------------------
(* The last image of a run is on its way to its viewer.                    *)

\* Viewers the user leaves alone, that do not follow each other, files seen
\* complete and none of a previous run in the second of the start.
Plain ==
    /\ "real" \in setting.views /\ setting.user = {} /\ ~setting.torn /\ ~setting.lock
    /\ ~setting.recent

\* Then files are complete once they are seen, the real space ones one by one.
WholeInv ==
    ~setting.torn =>
        /\ \A f \in Files : file[f] # "partial"
        /\ \A i \in 1 .. MaxImages : file[<<"real", i>>] = "whole" <=> 3 * (i - 1) < written

\* The look of stop ends at the first image, or where there is nothing next.
OnlyOneLook == setting.every /\ atStop = 0 /\ ~setting.torn /\ ~setting.recent

StopInv ==
    /\ atStop \in Nat
    /\ closing => /\ ~running /\ check # "idle" /\ atStop <= NewestImage("real")
                  /\ check = "companions" => atStop < NewestImage("real")
                  /\ OnlyOneLook =>
                         /\ check = "next" => NewestImage("real") = 0
                         /\ check = "companions" => NewestImage("real") = 1
    /\ check = "stopped" =>
           /\ closing
           /\ \/ ~Accepted(<<"real", NextImage>>)
              \/ NewestImage("real") = 1 /\ setting.every /\ atStop = 0
           /\ OnlyOneLook =>
                  \/ NewestImage("real") = 1
                  \/ NewestImage("real") = 0 /\ ~Accepted(<<"real", NextImage>>)

NewestReal == IF NewestImage("real") = 0 THEN NoFile ELSE <<"real", NewestImage("real")>>

\* The first viewer is at the newest image or about to load it, and can.
Ready(w) ==
    /\ w.loader \in {"none", "first", "loaded"}
    /\ w.loader = "none" => w.loading = NoFile
    /\ w.loading # NoFile => file[w.loading] = "whole"
    /\ w.scheduled # NoFile => file[w.scheduled] = "whole"

ReadyInv == Plain => Ready(view["real"]) /\ Newest(view["real"]) = NewestReal

LEMMA WholeWritten ==
    ASSUME FileInv, WholeInv, WriteFile, ~setting.torn
    PROVE  WholeInv' /\ \A f \in Files : file[f] = "whole" => file'[f] = "whole"
  <1>0. written \in Nat /\ written < 3 * MaxImages /\ FileType
    BY DEF FileInv, WrittenFirst, WriteFile
  <1>1. PICK d \in Categories, k \in 1 .. MaxImages :
            FileAfter(written) = <<d, k>> /\ written = Position(d, k)
    BY <1>0, PlaceOfFile
  <1>2. PICK g \in Files : g = FileAfter(written)
    BY <1>1 DEF Files
  <1>3. /\ file' = [file EXCEPT ![g] = "whole"] /\ written' = written + 1
        /\ setting' = setting
    BY <1>2 DEF WriteFile, displayVars
  <1>4. \A f \in Files : file'[f] = IF f = g THEN "whole" ELSE file[f]
    BY <1>0, <1>3 DEF FileType
  <1>5. ASSUME NEW i \in 1 .. MaxImages
        PROVE  file'[<<"real", i>>] = "whole" <=> 3 * (i - 1) < written'
    <2>1. PICK f \in Files : f = <<"real", i>>
      BY CategoryNames DEF Files
    <2>2. file[f] = "whole" <=> 3 * (i - 1) < written
      BY <2>1 DEF WholeInv
    <2>3. f = g <=> written = 3 * (i - 1)
      <3>1. i \in Nat \ {0} /\ "real" \in Categories
        BY CategoryNames, WatcherAssumption
      <3>2. FileAfter(written) = <<"real", i>> <=> written = Position("real", i)
        BY <1>0, <3>1, WhichFile
      <3> QED
        BY <1>2, <2>1, <3>2 DEF Position, Rank
    <2>4. 3 * (i - 1) < written' <=> 3 * (i - 1) < written \/ written = 3 * (i - 1)
      BY <1>0, <1>3
    <2> QED
      BY <1>4, <2>1, <2>2, <2>3, <2>4
  <1>6. \A f \in Files : file'[f] # "partial"
    BY <1>4 DEF WholeInv
  <1> QED
    BY <1>3, <1>4, <1>5, <1>6 DEF WholeInv

LEMMA WholeStep ==
    ASSUME FileInv, WholeInv, [Next]_vars
    PROVE  /\ WholeInv'
           /\ ~setting.torn => \A f \in Files : file[f] = "whole" => file'[f] = "whole"
  <1>0. UNCHANGED setting
    BY SameSetting
  <1>1. CASE WriteFile /\ ~setting.torn
    BY <1>1, WholeWritten
  <1>2. CASE setting.torn
    BY <1>0, <1>2 DEF WholeInv
  <1>3. CASE ~WriteFile
    BY <1>0, <1>3, OnlyWriter DEF WholeInv
  <1> QED
    BY <1>1, <1>2, <1>3

\* What the stop decided stays, as long as nothing else changes.
LEMMA StillStopped ==
    ASSUME StopInv,
           UNCHANGED <<file, created, reported, made, check, closing, atStop, setting>>,
           running' = running \/ running' = FALSE
    PROVE  StopInv'
  <1>1. /\ NewestImage("real")' = NewestImage("real")
        /\ Accepted(<<"real", NextImage>>)' <=> Accepted(<<"real", NextImage>>)
    BY DEF NewestImage, NextImage, Accepted, ValidFile
  <1> QED
    BY <1>1 DEF StopInv, OnlyOneLook

LEMMA StopsInNext ==
    ASSUME ReportInv, StopInv, FindNext
    PROVE  StopInv'
  <1>0. "real" \in Categories /\ NewestImage("real") \in Nat
    BY CategoryNames, NewestType DEF ReportInv
  <1>1. /\ UNCHANGED <<file, created, running, closing, atStop>> /\ check = "next"
    BY DEF FindNext, fileVars
  <1>2. CASE ~Accepted(<<"real", NextImage>>)
    <2>1. /\ UNCHANGED <<reported, made, setting>> /\ check' = Return
      BY <1>2 DEF FindNext, displayVars
    <2>2. /\ NewestImage("real")' = NewestImage("real")
          /\ ~Accepted(<<"real", NextImage>>)'
      BY <1>1, <1>2, <2>1 DEF NewestImage, NextImage, Accepted, ValidFile
    <2> QED
      BY <1>1, <2>1, <2>2 DEF StopInv, OnlyOneLook, Return
  <1>3. CASE Accepted(<<"real", NextImage>>)
    <2>1. /\ ProcessFile("real", NextImage) /\ check' = "companions" /\ UNCHANGED setting
      BY <1>3 DEF FindNext, ProcessFile, Show
    <2>2. PICK i \in 1 .. MaxImages : i = NextImage
      BY <1>3 DEF Accepted, ValidFile, Files
    <2>3. NewestImage("real")' = NewestImage("real") + 1
      BY <1>0, <2>1, <2>2, ReportedAppend DEF ReportInv, NextImage
    <2> QED
      BY <1>0, <1>1, <2>1, <2>3 DEF StopInv, OnlyOneLook
  <1> QED
    BY <1>2, <1>3

LEMMA StopsAtCompanion ==
    ASSUME ReportInv, StopInv, FindCompanion
    PROVE  StopInv'
  <1>0. /\ "real" \in Categories /\ NewestImage("real") \in Nat /\ ReportType
        /\ NewestImage("real") # 0 /\ Head(todo) \in {"fourier", "support"}
    BY CategoryNames, NewestType, NextCompanion DEF ReportInv
  <1>1. /\ UNCHANGED <<file, created, running, closing, atStop>> /\ check = "companions"
    BY DEF FindCompanion, fileVars
  <1>2. UNCHANGED setting
    BY DEF FindCompanion, ProcessFile, Show, displayVars
  <1>3. NewestImage("real")' = NewestImage("real")
    <2>1. CASE Accepted(<<Head(todo), NewestImage("real")>>)
      <3>1. PICK c \in Categories, i \in 1 .. MaxImages : c # "real" /\ ProcessFile(c, i)
        BY <1>0, <2>1, CategoryNames DEF FindCompanion, Accepted, ValidFile, Files
      <3> QED
        BY <1>0, <3>1, ReportedAppend
    <2>2. CASE ~Accepted(<<Head(todo), NewestImage("real")>>)
      BY <2>2 DEF FindCompanion, NewestImage
    <2> QED
      BY <2>1, <2>2
  <1>4. \/ check' = "companions"
        \/ check' = Return /\ NewestImage("real") = 1 /\ setting.every
        \/ check' = "next" /\ (AtBase => setting.torn \/ setting.recent)
    BY DEF FindCompanion, AtBase
  <1>5. CASE check' = "companions"
    BY <1>0, <1>1, <1>2, <1>3, <1>5 DEF StopInv, OnlyOneLook
  <1>6. CASE check' = Return /\ NewestImage("real") = 1 /\ setting.every
    <2>1. closing => atStop = 0
      BY <1>0, <1>1, <1>6 DEF StopInv
    <2> QED
      BY <1>0, <1>1, <1>2, <1>3, <1>6, <2>1 DEF StopInv, OnlyOneLook, Return
  <1>7. CASE check' = "next" /\ (AtBase => setting.torn \/ setting.recent)
    <2>1. closing => ~OnlyOneLook
      BY <1>1, <1>7 DEF StopInv, OnlyOneLook, AtBase
    <2> QED
      BY <1>0, <1>1, <1>2, <1>3, <1>7, <2>1 DEF StopInv, OnlyOneLook
  <1> QED
    BY <1>4, <1>5, <1>6, <1>7

LEMMA StopStep ==
    ASSUME ReportInv, StopInv, [Next]_vars
    PROVE  StopInv'
  <1>1. CASE WriteFile \/ Tick
    <2>1. /\ running /\ UNCHANGED <<running, reported, check, closing, atStop, setting>>
      BY <1>1 DEF WriteFile, Tick, watchVars, displayVars
    <2>2. ~closing /\ check # "stopped"
      BY <2>1 DEF StopInv
    <2> QED
      BY <2>1, <2>2 DEF StopInv
  <1>2. CASE ProcessEnds
    BY <1>2, StillStopped DEF ProcessEnds, watchVars, displayVars
  <1>3. CASE Poll
    BY <1>3 DEF Poll, StopInv
  <1>4. CASE Stop
    <2>1. NewestImage("real") \in Nat
      BY CategoryNames, NewestType DEF ReportInv
    <2>2. /\ atStop' = NewestImage("real") /\ check' = "next" /\ ~running'
          /\ NewestImage("real")' = NewestImage("real")
      BY <1>4 DEF Stop, fileVars, NewestImage
    <2> QED
      BY <2>1, <2>2 DEF StopInv, OnlyOneLook
  <1>5. CASE FindNext
    BY <1>5, StopsInNext
  <1>6. CASE FindCompanion
    BY <1>6, StopsAtCompanion
  <1>7. CASE \/ UNCHANGED vars
             \/ \E v \in DOMAIN view : \/ LoadScheduledImage(v) \/ FinishLoadImage(v)
                                       \/ ReadImage(v) \/ UserLoads(v)
    <2>1. UNCHANGED <<file, created, reported, made, check, closing, atStop, setting, running>>
      BY <1>7 DEF LoadScheduledImage, FinishLoadImage, ReadImage, UserLoads, fileVars,
                  watchVars, displayVars, vars
    <2> QED
      BY <2>1, StillStopped
  <1> QED
    BY <1>1, <1>2, <1>3, <1>4, <1>5, <1>6, <1>7 DEF Next, GuiStep

\* Whatever is loaded next, the viewer is ready if it was.
LEMMA ReadyLoads ==
    ASSUME NEW w \in Viewers, Ready(w), NEW f \in Files, file[f] = "whole"
    PROVE  /\ Ready(StartLoading(w, f)) /\ Ready(ScheduleImageLoad(w, f))
           /\ Ready(LoadImage(w, f))
  <1>1. Ready(StartLoading(w, f))
    <2>1. /\ StartLoading(w, f).loader = "first" /\ StartLoading(w, f).loading = f
          /\ StartLoading(w, f).scheduled = NoFile
      BY DEF StartLoading, Viewers, Viewer
    <2> QED
      BY <2>1 DEF Ready
  <1>2. Ready(ScheduleImageLoad(w, f))
    <2>1. /\ ScheduleImageLoad(w, f).loader = w.loader
          /\ ScheduleImageLoad(w, f).loading = w.loading
          /\ ScheduleImageLoad(w, f).scheduled = f
      BY DEF ScheduleImageLoad, Viewers, Viewer
    <2> QED
      BY <2>1 DEF Ready
  <1>3. LoadImage(w, f) \in {StartLoading(w, f), ScheduleImageLoad(w, f)}
    BY DEF LoadImage, ScheduleImageLoad
  <1> QED
    BY <1>1, <1>2, <1>3

\* The files it is to load stay whole.
LEMMA StaysReady ==
    ASSUME NEW w \in Viewers, Ready(w),
           \A f \in Files : file[f] = "whole" => file'[f] = "whole"
    PROVE  Ready(w)'
  <1>1. w.loading \in Files \cup {NoFile} /\ w.scheduled \in Files \cup {NoFile}
    BY DEF Viewers, Viewer
  <1> QED
    BY <1>1 DEF Ready

\* A report moves the first viewer to the real space image, and by no other.
LEMMA ReportMoves ==
    ASSUME ReportInv, ViewType, FileInv, WholeInv, ReadyInv, Plain,
           NEW c \in Categories, NEW i \in 1 .. MaxImages, Accepted(<<c, i>>),
           NewestImage(c) # 0 => NewestImage("real") # 0, UNCHANGED file, ProcessFile(c, i)
    PROVE  Ready(view'["real"]) /\ Newest(view'["real"]) = NewestReal'
  <1> DEFINE w == view["real"]
             f == <<c, i>>
             old == IF NewestImage(c) = 0 THEN NoFile ELSE <<c, NewestImage(c)>>
  <1>1. /\ "real" \in DOMAIN view /\ w \in Viewers
        /\ Ready(w) /\ Newest(w) = NewestReal
    BY DEF ViewType, ReadyInv, Plain
  <1>2. /\ f \in Files /\ i # 0 /\ Show(f, old)
        /\ NewestImage(c) # 0 => <<c, NewestImage(c)>> # NoFile
        /\ NewestImage(c)' = i
        /\ \A d \in Categories \ {c} : NewestImage(d)' = NewestImage(d)
    BY ReportedShows
  <1>3. file[f] = "whole"
    <2>1. PICK g \in Files : g = f
      BY <1>2
    <2>2. file[g] # "absent" /\ created[g] # 0
      BY <2>1 DEF Accepted, ValidFile, StartTime
    <2>3. file[g] # "old"
      BY <2>2 DEF FileInv, MadeWhen, Plain
    <2>4. file[g] \in {"absent", "old", "partial", "whole"} /\ file[g] # "partial"
      BY DEF FileInv, FileType, WholeInv, Plain
    <2> QED
      BY <2>1, <2>2, <2>3, <2>4
  <1>4. "real" \in Categories
    BY CategoryNames
  <1>5. /\ Ready(ScheduleImageLoad(w, f)) /\ Ready(LoadImage(w, f))
        /\ Newest(ScheduleImageLoad(w, f)) = f /\ Newest(LoadImage(w, f)) = f
    <2> HIDE DEF w, f
    <2> QED
      BY <1>1, <1>2, <1>3, ReadyLoads, Loads
  <1>6. view'["real"] = IF old # NoFile /\ Newest(w) = old THEN ScheduleImageLoad(w, f)
                        ELSE IF old = NoFile /\ FirstViewer(c, "real") THEN LoadImage(w, f)
                        ELSE w
    BY <1>1, <1>2 DEF Show
  <1>7. CASE c = "real"
    <2>1. view'["real"] \in {ScheduleImageLoad(w, f), LoadImage(w, f)}
      <3>1. old = Newest(w)
        BY <1>1, <1>7 DEF NewestReal
      <3>2. FirstViewer(c, "real")
        BY <1>7 DEF FirstViewer
      <3> HIDE DEF old, w, f
      <3> QED
        BY <1>6, <3>1, <3>2
    <2>2. NewestReal' = f
      BY <1>2, <1>7 DEF NewestReal
    <2> HIDE DEF w, f
    <2>3. Ready(view'["real"]) /\ Newest(view'["real"]) = f
      BY <1>5, <2>1
    <2> QED
      BY <2>2, <2>3
  <1>8. CASE c # "real"
    <2>1. NewestReal' = NewestReal
      BY <1>2, <1>4, <1>8 DEF NewestReal
    <2>2. ~FirstViewer(c, "real")
      BY <1>8 DEF FirstViewer
    <2>3. old # NoFile => Newest(w) # old
      <3>1. ASSUME old # NoFile PROVE old = <<c, NewestImage(c)>> /\ NewestImage("real") # 0
        BY <3>1
      <3>2. ASSUME NewestImage("real") # 0 PROVE Newest(w) = <<"real", NewestImage("real")>>
        BY <1>1, <3>2 DEF NewestReal
      <3>3. \A x, y : <<c, x>> # <<"real", y>>
        BY <1>8
      <3> HIDE DEF old, w
      <3> QED
        BY <3>1, <3>2, <3>3
    <2> HIDE DEF old, f
    <2>4. view'["real"] = w
      BY <1>6, <2>2, <2>3
    <2> QED
      BY <1>1, <2>1, <2>4
  <1> QED
    BY <1>7, <1>8

LEMMA ReadyStep ==
    ASSUME ReportInv, FileInv, ViewType, WholeInv, ReadyInv, [Next]_vars
    PROVE  ReadyInv'
  <1>1. ViewType' /\ DOMAIN view' = DOMAIN view /\ UNCHANGED setting
    BY ViewStep
  <1> SUFFICES ASSUME Plain PROVE Ready(view["real"])' /\ Newest(view'["real"]) = NewestReal'
    BY <1>1 DEF ReadyInv, Plain
  <1> DEFINE w == view["real"]
  <1>2. /\ "real" \in DOMAIN view /\ w \in Viewers /\ view'["real"] \in Viewers
        /\ Ready(w) /\ Newest(w) = NewestReal
    BY <1>1 DEF ViewType, ReadyInv, Plain
  <1>3. \A f \in Files : file[f] = "whole" => file'[f] = "whole"
    BY <1>1, WholeStep DEF Plain
  <1>4. ASSUME NEW c \in Categories, NEW i \in 1 .. MaxImages, Accepted(<<c, i>>),
               ProcessFile(c, i), NewestImage(c) # 0 => NewestImage("real") # 0,
               UNCHANGED file
        PROVE  Ready(view["real"])' /\ Newest(view'["real"]) = NewestReal'
    <2>1. Ready(view'["real"]) /\ Newest(view'["real"]) = NewestReal'
      BY <1>4, ReportMoves
    <2> QED
      BY <1>4, <2>1 DEF Ready
  <1>5. ASSUME UNCHANGED reported PROVE NewestReal' = NewestReal
    BY <1>5 DEF NewestReal, NewestImage
  <1> HIDE DEF w
  <1>6. ASSUME Ready(view'["real"]), Newest(view'["real"]) = Newest(w), UNCHANGED reported
        PROVE  Ready(view["real"])' /\ Newest(view'["real"]) = NewestReal'
    <2>1. PICK x \in Viewers : x = view'["real"] /\ Ready(x)
      BY <1>2, <1>6
    <2>2. Ready(x)'
      BY <1>3, <2>1, StaysReady
    <2>3. Ready(view["real"])'
      BY <2>1, <2>2 DEF Ready
    <2> QED
      BY <1>2, <1>5, <1>6, <2>3
  <1>7. ASSUME view'["real"] = w, UNCHANGED reported
        PROVE  Ready(view["real"])' /\ Newest(view'["real"]) = NewestReal'
    BY <1>2, <1>6, <1>7
  <1>8. ASSUME NEW v \in DOMAIN view, LoadScheduledImage(v), UNCHANGED reported
        PROVE  Ready(view["real"])' /\ Newest(view'["real"]) = NewestReal'
    <2>1. CASE v # "real"
      BY <1>2, <1>7, <1>8, <2>1, StartsScheduled DEF w
    <2>2. CASE v = "real"
      <3>1. w.scheduled # NoFile /\ view'["real"] = StartLoading(w, w.scheduled)
        BY <1>2, <1>8, <2>2 DEF LoadScheduledImage, w
      <3>2. PICK f \in Files : f = w.scheduled /\ file[f] = "whole"
        BY <1>2, <3>1 DEF Viewers, Viewer, Ready
      <3>3. Ready(StartLoading(w, f))
        BY <1>2, <3>2, ReadyLoads
      <3>4. Ready(view'["real"])
        BY <3>1, <3>2, <3>3
      <3>5. Newest(view'["real"]) = Newest(w)
        BY <1>8, <2>2, StartsScheduled DEF w
      <3> QED
        BY <1>6, <1>8, <3>4, <3>5
    <2> QED
      BY <2>1, <2>2
  <1>9. ASSUME NEW v \in DOMAIN view, ReadImage(v), UNCHANGED reported
        PROVE  Ready(view["real"])' /\ Newest(view'["real"]) = NewestReal'
    <2>1. CASE v # "real"
      BY <1>2, <1>7, <1>9, <2>1, Reads DEF w
    <2>2. CASE v = "real"
      <3>1. w.loader # "none" /\ w.loading # NoFile
        BY <1>2, <1>9, <2>2 DEF ReadImage, Viewers, w
      <3>2. file[w.loading] = "whole"
        BY <1>2, <3>1 DEF Ready
      <3>3. view'["real"] = [w EXCEPT !.loader = "loaded"]
        BY <1>2, <1>9, <2>2, <3>2 DEF ReadImage, w
      <3>4. Ready(view'["real"])
        BY <1>2, <3>3 DEF Ready, Viewers, Viewer
      <3>5. Newest(view'["real"]) = Newest(w)
        BY <1>9, <2>2, Reads DEF w
      <3> QED
        BY <1>6, <1>9, <3>4, <3>5
    <2> QED
      BY <2>1, <2>2
  <1>10. ASSUME NEW v \in DOMAIN view, FinishLoadImage(v), UNCHANGED reported
         PROVE  Ready(view["real"])' /\ Newest(view'["real"]) = NewestReal'
    <2>1. CASE v # "real"
      <3>1. OnImageLoaded(w, view[v].loading) = w
        BY DEF OnImageLoaded, Plain
      <3>2. view'["real"] = w
        BY <1>2, <1>10, <2>1, <3>1, Finishes DEF w
      <3> QED
        BY <1>7, <1>10, <3>2
    <2>2. CASE v = "real"
      <3>1. w.loader = "loaded"
        BY <1>2, <1>10, <2>2 DEF FinishLoadImage, Ready, w
      <3>2. view'["real"] = [w EXCEPT !.shown = w.loading, !.loading = NoFile, !.loader = "none"]
        BY <1>2, <1>10, <2>2, <3>1 DEF FinishLoadImage, w
      <3>3. Ready(view'["real"])
        BY <1>2, <3>2 DEF Ready, Viewers, Viewer
      <3>4. Newest(view'["real"]) = Newest(w)
        BY <1>10, <2>2, Finishes DEF w
      <3> QED
        BY <1>6, <1>10, <3>3, <3>4
    <2> QED
      BY <2>1, <2>2
  <1>11. ASSUME NEW v \in DOMAIN view PROVE ~UserLoads(v)
    BY DEF UserLoads, Plain
  <1>12. CASE UNCHANGED <<reported, displayVars>>
    BY <1>7, <1>12 DEF displayVars, w
  <1>13. CASE UNCHANGED reported
    <2>1. CASE \/ FindNext \/ FindCompanion \/ WriteFile \/ Tick \/ ProcessEnds
               \/ Poll \/ Stop \/ UNCHANGED vars
      <3>1. UNCHANGED displayVars
        <4>1. \A c \in Categories, i \in 1 .. MaxImages : ~ProcessFile(c, i)
          <5>1. ASSUME NEW c \in Categories, NEW i \in 1 .. MaxImages, ProcessFile(c, i)
                PROVE  FALSE
            <6>1. reported'[c] = Append(reported[c], i) /\ reported[c] \in Seq(1 .. MaxImages)
              BY <5>1, ReportedAppend DEF ReportInv, ReportType
            <6> QED
              BY <1>13, <6>1
          <5> QED
            BY <5>1
        <4> QED
          BY <2>1, <4>1 DEF FindNext, FindCompanion, WriteFile, Tick, ProcessEnds, Poll, Stop,
                            vars, Accepted, ValidFile, Files
      <3> QED
        BY <1>12, <1>13, <3>1
    <2> QED
      BY <1>8, <1>9, <1>10, <1>11, <1>13, <2>1 DEF Next, GuiStep
  <1> QED
    BY <1>4, <1>13, ReportsWhenThere

\* When the watcher has stopped, the newest image is the last of the run, or the
\* first if stop only looked for that one.
LEMMA NewestIsLast ==
    ASSUME ReportInv, FileInv, KeptTimes, NothingStale, WholeInv, StopInv,
           NEW i \in 1 .. MaxImages, LastOfRun(i)
    PROVE  NewestImage("real") = LastLookedFor(i)
  <1>1. /\ check = "stopped" /\ ~setting.torn /\ ~setting.recent
        /\ file[<<"real", i>>] = "whole"
        /\ i < MaxImages => file[<<"real", i + 1>>] # "whole"
    BY DEF LastOfRun
  <1>2. \A k \in 1 .. MaxImages : file[<<"real", k>>] = "whole" <=> 3 * (k - 1) < written
    BY <1>1 DEF WholeInv
  <1>3. \A k \in 1 .. MaxImages : <<"real", k>> \in Files
    BY CategoryNames DEF Files
  <1>4. "real" \in Categories /\ ReportType /\ written \in Nat
    BY CategoryNames DEF ReportInv, FileInv, WrittenFirst
  <1>5. PICK n \in Nat :
            /\ n = NewestImage("real")
            /\ n # 0 => n \in 1 .. MaxImages /\ file[<<"real", n>>] = "whole"
    <2>1. NewestImage("real") \in Nat
      BY <1>4, NewestType
    <2>2. ASSUME NewestImage("real") # 0
          PROVE  /\ NewestImage("real") \in 1 .. MaxImages
                 /\ file[<<"real", NewestImage("real")>>] = "whole"
      <3>1. PICK j \in 1 .. Len(reported["real"]) : NewestImage("real") = reported["real"][j]
        BY <1>4, <2>2, NewestType
      <3>2. PICK m \in 1 .. MaxImages : m = NewestImage("real")
        BY <1>4, <2>2, ReportedType
      <3>3. OfThisRun(<<"real", m>>)
        BY <1>1, <1>4, <3>1, <3>2 DEF NothingStale
      <3>4. file[<<"real", m>>] # "partial"
        BY <1>1, <1>3 DEF WholeInv
      <3> QED
        BY <3>2, <3>3, <3>4 DEF OfThisRun
    <2> QED
      BY <2>1, <2>2
  <1>6. ASSUME ~Accepted(<<"real", NextImage>>), n + 1 \in 1 .. MaxImages
        PROVE  file[<<"real", n + 1>>] # "whole"
    <2>1. PICK k \in 1 .. MaxImages : k = n + 1 /\ k = NextImage
      BY <1>5, <1>6 DEF NextImage
    <2>2. ~OfThisRun(<<"real", k>>)
      BY <1>4, <1>5, <1>6, <2>1, NoneRefused
    <2> QED
      BY <2>1, <2>2 DEF OfThisRun
  <1>a. CASE setting.every /\ atStop = 0
    <2>1. n = 1 \/ (n = 0 /\ ~Accepted(<<"real", NextImage>>))
      BY <1>1, <1>5, <1>a DEF StopInv, OnlyOneLook
    <2>2. n # 0
      <3>1. SUFFICES ASSUME n = 0 PROVE FALSE
        OBVIOUS
      <3>2. 1 \in 1 .. MaxImages /\ 0 < written
        BY <1>1, <1>2, <1>4, WatcherAssumption
      <3>3. file[<<"real", 1>>] = "whole"
        BY <1>2, <3>2
      <3> QED
        BY <1>6, <2>1, <3>1, <3>2, <3>3
    <2> QED
      BY <1>5, <1>a, <2>1, <2>2 DEF LastLookedFor
  <1>b. CASE ~(setting.every /\ atStop = 0)
    <2>1. ~Accepted(<<"real", NextImage>>) /\ MaxImages \in Nat
      BY <1>1, <1>b, WatcherAssumption DEF StopInv
    <2>2. ~(n < i)
      <3>1. SUFFICES ASSUME n < i PROVE FALSE
        OBVIOUS
      <3>2. PICK k \in 1 .. MaxImages : k = n + 1 /\ k <= i /\ file[<<"real", k>>] # "whole"
        BY <1>6, <2>1, <3>1
      <3>3. 3 * (i - 1) < written /\ ~(3 * (k - 1) < written)
        BY <1>1, <1>2, <3>2
      <3> QED
        BY <1>4, <3>2, <3>3
    <2>3. ~(n > i)
      <3>1. SUFFICES ASSUME n > i PROVE FALSE
        OBVIOUS
      <3>2. PICK k \in 1 .. MaxImages : k = i + 1 /\ k <= n /\ file[<<"real", k>>] # "whole"
        BY <1>1, <1>5, <2>1, <3>1
      <3>3. 3 * (n - 1) < written /\ ~(3 * (k - 1) < written)
        BY <1>2, <1>5, <3>1, <3>2
      <3> QED
        BY <1>4, <3>2, <3>3
    <2> QED
      BY <1>5, <1>b, <2>2, <2>3 DEF LastLookedFor
  <1> QED
    BY <1>a, <1>b

\* What LastImageShownUnlocked asks for is under way: once the watcher has stopped,
\* the viewer of the real space images shows the last one (the first, if stop looks for
\* no other) or is to load it next,
\* and no load of it fails.
LastOnItsWay ==
    \A i \in 1 .. MaxImages : LastOfRun(i) /\ ~setting.lock =>
        LET w == view["real"] IN
        /\ Newest(w) = <<"real", LastLookedFor(i)>>
        /\ w.loader \in {"none", "first", "loaded"}
        /\ w.loader = "none" /\ w.scheduled = NoFile => Shown(LastLookedFor(i))

LEMMA ReadyShows ==
    ASSUME ReportInv, FileInv, KeptTimes, ViewType, NothingStale, WholeInv, StopInv, ReadyInv
    PROVE  LastOnItsWay
  <1> SUFFICES ASSUME NEW i \in 1 .. MaxImages, LastOfRun(i), ~setting.lock
               PROVE  /\ Newest(view["real"]) = <<"real", LastLookedFor(i)>>
                      /\ view["real"].loader \in {"none", "first", "loaded"}
                      /\ view["real"].loader = "none" /\ view["real"].scheduled = NoFile
                            => Shown(LastLookedFor(i))
    BY DEF LastOnItsWay
  <1>1. Plain /\ "real" \in DOMAIN view
    BY DEF Plain, LastOfRun, ViewType
  <1>2. NewestImage("real") = LastLookedFor(i) /\ LastLookedFor(i) # 0
    BY NewestIsLast, WatcherAssumption DEF LastLookedFor
  <1>3. Ready(view["real"]) /\ Newest(view["real"]) = <<"real", LastLookedFor(i)>>
    BY <1>1, <1>2 DEF ReadyInv, NewestReal
  <1> QED
    BY <1>1, <1>3 DEF Ready, Newest, Shown

LEMMA ReadyInit == Init => WholeInv /\ StopInv /\ ReadyInv
  <1> SUFFICES ASSUME Init PROVE WholeInv /\ StopInv /\ ReadyInv
    OBVIOUS
  <1>1. WholeInv
    <2>1. written = 0 /\ \A f \in Files : file[f] \in {"old", "absent"}
      BY DEF Init
    <2>2. \A i \in 1 .. MaxImages : <<"real", i>> \in Files
      BY CategoryNames DEF Files
    <2> QED
      BY <2>1, <2>2 DEF WholeInv
  <1>2. StopInv
    BY DEF Init, StopInv
  <1>3. ReadyInv
    <2>1. NewestReal = NoFile
      BY CategoryNames DEF Init, NewestReal, NewestImage
    <2> QED
      BY <2>1 DEF Init, ReadyInv, Plain, Ready, Newest
  <1> QED
    BY <1>1, <1>2, <1>3

\* For any number of images and viewers: when a run is over and the watcher has
\* stopped, no image was missed at the end, but those after the first of a run
\* that writes every iteration and had none reported before, and the first viewer
\* is at the last real space image looked for or cannot but load it
\* (OutputWatcher::stop, newOutput, ImageView::loadScheduledImage).
THEOREM LastImageIsNotMissed == Spec => []LastOnItsWay
  <1> DEFINE Inv == /\ ReportInv /\ FileInv /\ KeptTimes /\ NothingStale /\ ViewType
                    /\ WholeInv /\ StopInv /\ ReadyInv
  <1>1. Init => Inv
    BY ReportInit, FileInit, StaleInit, ViewInit, ReadyInit
  <1>2. Inv /\ [Next]_vars => Inv'
    BY ReportStep, FileStep, KeptStep, StaleStep, ViewStep, WholeStep, StopStep, ReadyStep
  <1>3. Inv => LastOnItsWay
    BY ReadyShows
  <1> HIDE DEF Inv
  <1> QED
    BY <1>1, <1>2, <1>3, PTL DEF Spec

=============================================================================
