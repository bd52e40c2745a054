------------------------------ MODULE Options ------------------------------
(***************************************************************************)
(* The options of a run: global_options in the GUI, the texts its options  *)
(* tree shows for them, the option files it writes and reads, and what the *)
(* program it launches makes of them.                                      *)
(*                                                                         *)
(* The text of a number is its decimal form: of a real number shown in the *)
(* tree, to six digits, of one written to a file, to seven.  The text of a *)
(* map and of a path (the tool tip, which is what is read back) stands for *)
(* itself.                                                                 *)
(***************************************************************************)
EXTENDS OptionsTable, SequencesExt

CONSTANTS
    Scopes,     \* what the user may change, and how often (bounds)
    OldFiles,   \* option files of older versions
    OldNumbers, \* the numbers they hold
    Typed,      \* numbers typed by the user
    SixDigits,  \* what QString::number leaves of the numbers with more digits
    SevenDigits, \* what %e leaves of the numbers with more digits
    Chosen,     \* files chosen in a file dialog, absolute
    Absolute,   \* QFileInfo::absoluteFilePath of the paths that are not absolute
    LowerCase   \* tolower of the names in files that hold capitals

VARIABLES
    options,    \* global_options of the GUI
    items,      \* text of each entry shown in the tree, by index
    combo,      \* showOptionsCombo
    saved,      \* the file last written by Save
    status,     \* of the GUI: running, fatal (hawk_fatal) or crashed
    scope, edits

ASSUME ScopesAssumption == \A s \in Scopes : s.edits \in Nat
\* Absolute makes absolute the paths that are not.
ASSUME PathsAssumption ==
    \A p \in DOMAIN Absolute : p \notin Chosen /\ Absolute[p] \notin DOMAIN Absolute

vars == <<options, items, combo, saved, status, scope, edits>>

Indices == 0 .. Len(variable_metadata) - 1
Meta(i) == variable_metadata[i + 1]

\* The entries createGUI adds to the tree.
Shown == {i \in Indices :
            LET m == Meta(i) IN ~m.deprecated /\ m.settable /\ m.type # "group"}
\* The entries write_options_file writes, and those read_options_file looks for.
Written == Shown
Read == {i \in Indices : LET m == Meta(i) IN m.settable /\ m.type # "group"}
PathTypes == {"file", "directory"}
ListedNames(m) == {m.list[k].name : k \in DOMAIN m.list}
ListedValues(m) == {m.list[k].value : k \in DOMAIN m.list}
IsNumber(m) == m.type \in {"int", "real"}
HasSpecial(m) == IsNumber(m) /\ m.list # <<>>

NumbersIn(config) == {config[i] : i \in {j \in DOMAIN config : IsNumber(Meta(j))}}
Number == {0} \cup Typed \cup OldNumbers \cup Range(NumberDefaults)
              \cup Range(SixDigits) \cup Range(SevenDigits)
\* A real number, once through its text.
Six(v) == IF v \in DOMAIN SixDigits THEN SixDigits[v] ELSE v
Seven(v) == IF v \in DOMAIN SevenDigits THEN SevenDigits[v] ELSE v
\* Its digits are not cut twice.
ASSUME RoundedOnce ==
    \A v \in Number : Six(Six(v)) = Six(v) /\ Seven(Seven(v)) = Seven(v)
Decimals == [t \in {ToString(n) : n \in Number} |->
                CHOOSE n \in Number : ToString(n) = t]
AbsolutePath(p) == IF p \in DOMAIN Absolute THEN Absolute[p] ELSE p

-----------------------------------------------------------------------------
\* Mutant: the position in the list, counted from 1.
PositionInList(m, name) ==
    IF name \in ListedNames(m)
    THEN CHOOSE k \in DOMAIN m.list : m.list[k].name = name
    ELSE -1

\* The value of a name, -1 when it is not in the list.
get_list_value_from_list_name(m, name) ==
    IF name \in ListedNames(m)
    THEN m.list[CHOOSE k \in DOMAIN m.list : m.list[k].name = name].value
    ELSE -1

Truth(v) == IF v = 0 THEN 0 ELSE 1

\* A file holds values for some entries; no two have the same path in it.
ASSUME OldFilesAssumption ==
    \A config \in OldFiles : DOMAIN config \subseteq Read /\ NumbersIn(config) \subseteq OldNumbers
ASSUME DistinctPaths ==
    \A i, j \in Read : Meta(i).path = Meta(j).path => i = j

\* write_options_file: a name for the choices, seven digits of a real number.
ValueWritten(m, v) ==
    CASE m.type = "choice" ->
                m.list[CHOOSE k \in DOMAIN m.list : m.list[k].value = v].name
      [] m.type = "bool" -> Truth(v)
      [] m.type = "real" -> Seven(v)
      [] OTHER -> v

write_options_file(opt) ==
    [i \in Written |-> LET m == Meta(i) IN ValueWritten(m, opt[m.address])]

\* The value is one of its list, if it is a choice.
Listed(m, v) == m.type = "choice" => v \in ListedValues(m)

\* No "Error invalid list value".
Writable(opt) == \A i \in Written : LET m == Meta(i) IN Listed(m, opt[m.address])

\* A real number stored where an int is kept.
Bits(v) == IF v = 0 THEN 0 ELSE 1065353216
KeepsInt == {a \in Addresses : TypesOf(a) \cap {"int", "bool"} # {}}

tolower(name) == IF name \in DOMAIN LowerCase THEN LowerCase[name] ELSE name

\* What read_options_file makes of what the file holds for an entry.
ValueRead(m, v) ==
    CASE m.type = "choice" -> get_list_value_from_list_name(m, tolower(v))
      [] m.type = "real" /\ m.address \in KeepsInt -> Bits(v)
      [] OTHER -> v

\* Mutant: "false" counts as not in the file.
ReadWithoutFalse(opt, config) ==
    [a \in Addresses |->
        LET named == {i \in DOMAIN config : LET m == Meta(i) IN
                         m.address = a /\ ~(m.type = "bool" /\ config[i] = 0)}
            last == Max(named)
        IN IF named = {} THEN opt[a] ELSE ValueRead(Meta(last), config[last])]

\* Its loop goes through the table: the last entry of an address has the say.
read_options_file(opt, config) ==
    [a \in Addresses |->
        LET named == {i \in DOMAIN config : Meta(i).address = a}
            last == Max(named)
        IN IF named = {} THEN opt[a] ELSE ValueRead(Meta(last), config[last])]

\* Every choice in the file is a name of the list.
Readable(config) ==
    \A i \in DOMAIN config : LET m == Meta(i) IN
        m.type = "choice" => tolower(config[i]) \in ListedNames(m)

-----------------------------------------------------------------------------
\* displayFromMetadata, and the tool tip of paths.  The names of a list are
\* indexed with the value, not with its position.
Display(m, v) ==
    CASE m.type = "directory" -> AbsolutePath(v)
      [] m.type = "file" -> IF v = "" THEN "" ELSE AbsolutePath(v)
      [] m.type = "choice" -> IF v + 1 \in DOMAIN m.list THEN m.list[v + 1].name ELSE ""
      [] m.type = "bool" -> IF v = 0 THEN "false" ELSE "true"
      [] IsNumber(m) -> IF v \in ListedValues(m) THEN m.list[1].name
                        ELSE ToString(IF m.type = "real" THEN Six(v) ELSE v)
      [] OTHER -> v

\* setMetadataFromModel and setMetadataFromItem: the value a text is taken for.
Meaning(m, text) ==
    CASE m.type = "choice" -> get_list_value_from_list_name(m, text)
      [] m.type = "bool" -> IF text = "true" THEN 1 ELSE 0
      [] IsNumber(m) -> IF text \in DOMAIN Decimals THEN Decimals[text]
                        ELSE IF HasSpecial(m) THEN m.list[1].value ELSE 0
      [] OTHER -> text

\* Texts are never taken over into options of type string.
SetMetadata(m, text, opt) ==
    IF m.type = "string" THEN opt ELSE [opt EXCEPT ![m.address] = Meaning(m, text)]

LevelIndex(l) == CHOOSE n \in 1 .. 3 : Levels[n] = l

\* rebuildTree.
Visible(m) ==
    /\ Depends(m.needs, options)
    /\ LevelIndex(m.level) <= LevelIndex(combo)

-----------------------------------------------------------------------------
(* The option tree. *)
Refreshed(opt) == [i \in Shown |-> LET m == Meta(i) IN Display(m, opt[m.address])]

Init ==
    /\ options = Defaults
    /\ items = Refreshed(Defaults)
    /\ combo = "basic" /\ saved = <<>> /\ status = "running"
    /\ scope \in Scopes /\ edits = 0

\* The choices createEditor offers at this level.
Offered(m) == {m.list[k].name : k \in
                  {n \in DOMAIN m.list : LevelIndex(m.list[n].level) <= LevelIndex(combo)}}

\* An editor just closed: that of a special value starts from the option and has
\* an empty text for the special one, that of a real number starts from the item.
Closed(m, shown, v) ==
    CASE HasSpecial(m) -> IF Display(m, v) = m.list[1].name THEN "" ELSE Display(m, v)
      [] m.type = "real" -> ToString(Six(Meaning(m, shown)))
      [] OTHER -> shown

\* What an editor opened on an entry may leave in its item.  When it is closed
\* without a choice, the text stays if the editor knows it and else is lost.
Texts(m, shown, v) ==
    CASE m.type = "choice" ->
            Offered(m) \cup (IF shown \in Offered(m) THEN {} ELSE {""})
      [] m.type = "bool" -> {"true", "false"}
      [] m.type \in PathTypes -> Chosen \cup {shown}
      [] m.type = "map" -> {"edited map", shown}
      [] m.type = "string" -> {"typed"}
      [] IsNumber(m) -> {ToString(n) : n \in Typed} \cup {Closed(m, shown, v)}
                            \cup (IF HasSpecial(m) THEN {m.list[1].name} ELSE {})

\* setModelData: the item, then the option.  The number typed reaches the option
\* with all its digits, and loses them when its editor is opened again.
Edit(i) ==
    LET m == Meta(i) IN
    /\ status = "running" /\ edits < scope.edits
    /\ m.address \in scope.addresses /\ Visible(m)
    /\ \E text \in Texts(m, items[i], options[m.address]) :
          /\ items' = [items EXCEPT ![i] = text]
          /\ options' = SetMetadata(m, text, options)
    /\ edits' = edits + 1
    /\ UNCHANGED <<combo, saved, status, scope>>

\* tooltipFromMetadata looks for the value of a choice in its list without an end.
MayCrash(ends) == {"running"} \cup (IF ends THEN {} ELSE {"crashed"})

\* The item keeps the text it was created with, from the defaults; the paths
\* are asked for by a role that does not exist.
resetSelectedOption(i) ==
    LET m == Meta(i) IN
    /\ status = "running" /\ edits < scope.edits
    /\ m.address \in scope.addresses /\ Visible(m)
    /\ options' = SetMetadata(m, IF m.type \in PathTypes THEN ""
                                 ELSE Display(m, Defaults[m.address]), options)
    /\ items' = [items EXCEPT ![i] = Display(m, options'[m.address])]
    /\ status' \in MayCrash(Listed(m, options'[m.address]))
    /\ edits' = edits + 1
    /\ UNCHANGED <<combo, saved, scope>>

\* Mutants: the items of old entries are shown too; the tree is not filled again.
DeprecatedShown ==
    /\ status = "running"
    /\ options' = set_defaults(options)
    /\ items' = [i \in Read |-> Display(Meta(i), options'[Meta(i).address])]
    /\ UNCHANGED <<combo, saved, status, scope, edits>>
UnrefreshedReset ==
    /\ status = "running"
    /\ options' = set_defaults(options)
    /\ UNCHANGED <<items, combo, saved, status, scope, edits>>

resetAllOptions ==
    /\ status = "running"
    /\ options' = set_defaults(options)
    /\ items' = Refreshed(options')
    /\ UNCHANGED <<combo, saved, status, scope, edits>>

ShowLevel(l) ==
    /\ status = "running" /\ combo' = l
    /\ UNCHANGED <<options, items, saved, status, scope, edits>>

saveOptions ==
    /\ status = "running" /\ saved = <<>>
    /\ \/ /\ Writable(options)
          /\ saved' = write_options_file(options) /\ status' = status
       \/ ~Writable(options) /\ status' = "fatal" /\ saved' = saved
    /\ UNCHANGED <<options, items, combo, scope, edits>>

loadOptions(config) ==
    /\ status = "running" /\ edits < scope.edits
    /\ \/ /\ Readable(config)
          /\ options' = read_options_file(options, config)
          /\ items' = Refreshed(options')
          /\ status' \in MayCrash(Writable(options'))
       \/ ~Readable(config) /\ status' = "fatal" /\ UNCHANGED <<options, items>>
    /\ edits' = edits + 1
    /\ UNCHANGED <<combo, saved, scope>>

-----------------------------------------------------------------------------
(* The programs launched start from the defaults. *)
\* Mutant: the file is read without the defaults.
BareOptions(config) == read_options_file(Zeroed, config)

\* startEmbeddedProcess writes uwrapc.conf, uwrapc_from_file reads it.
uwrapc_from_file(config) == read_options_file(Defaults, config)

\* RPCServer::sendOptions; RPCPeer::receiveOptions picks the directory to work in.
WorkDir(remote) == IF remote # "" THEN remote ELSE "/tmp/hawk"
receiveOptions(config) ==
    LET opt == read_options_file(Defaults, config)
    IN [opt EXCEPT !["work_dir"] = WorkDir(opt["remote_work_dir"])]

\* Either way the GUI itself goes on, unless it cannot write the file.
Launch ==
    /\ status = "running"
    /\ status' = IF Writable(options) THEN "running" ELSE "fatal"
    /\ UNCHANGED <<options, items, combo, saved, scope, edits>>

Next ==
    \/ \E i \in DOMAIN items : Edit(i) \/ resetSelectedOption(i)
    \/ resetAllOptions \/ saveOptions
    \/ \E l \in {Levels[n] : n \in 1 .. 3} : ShowLevel(l)
    \/ \E config \in OldFiles \cup ({saved} \ {<<>>}) : loadOptions(config)
    \/ Launch

Spec == Init /\ [][Next]_vars

-----------------------------------------------------------------------------
TypeOK ==
    /\ DOMAIN options = Addresses /\ DOMAIN items = Shown
    /\ combo \in {Levels[n] : n \in 1 .. 3}
    /\ status \in {"running", "fatal", "crashed"}
    /\ scope \in Scopes /\ edits \in 0 .. scope.edits

\* Choices whose names stand where their values point, all of them at any level.
WellListed(m) ==
    \A k \in DOMAIN m.list : m.list[k].value = k - 1 /\ m.list[k].level = "basic"

\* What an item is taken for is the value of its option, or six digits of it.
Tells(m, item, v) ==
    \/ m.type = "string"
    \/ m.type = "choice" /\ (item = "" \/ ~WellListed(m))
    \/ m.type \in PathTypes /\ item = Display(m, v)
    \/ m.type = "bool" /\ Meaning(m, item) = Truth(v)
    \/ m.type \notin PathTypes \cup {"bool"} /\ Meaning(m, item) = v
    \/ m.type = "real" /\ Meaning(m, item) = Six(v)

\* Each item is taken for the value its option has, whatever was edited, reset
\* or loaded before: the next edit of an entry starts from the truth
\* (treedelegate.cpp).  Of a real number that came from a file the item may have
\* six digits only, and so has the option once its editor was opened.  Not so for
\* the text of a string, which never reaches the option, and for choices that the
\* tree shows no name of or that are badly listed.
ItemsTellOptions ==
    status = "running" =>
        \A i \in Shown : LET m == Meta(i) IN Tells(m, items[i], options[m.address])

\* Only options with a badly listed choice can come to hold a value that
\* write_options_file has no name for, which ends the GUI (configuration.c 407).
OnlyBadListsAreFatal ==
    \A i \in Shown : LET m == Meta(i) IN
                        WellListed(m) => Listed(m, options[m.address])

\* The options as set, real numbers to the seven digits a file has of them, and
\* the defaults of those the tree does not show.
SentAddresses == {Meta(i).address : i \in Written}
BoolAddresses == {a \in Addresses : "bool" \in TypesOf(a)}
RealAddresses == {Meta(i).address : i \in {j \in Written : Meta(j).type = "real"}}
WhatIsSet ==
    [a \in Addresses |->
        CASE a \notin SentAddresses -> Defaults[a]
          [] a \in SentAddresses \cap BoolAddresses -> Truth(options[a])
          [] a \in RealAddresses \ BoolAddresses -> Seven(options[a])
          [] OTHER -> options[a]]

\* A program launched now, here or on another host, can read every name it is
\* sent and runs with what is set in the GUI, real numbers to seven digits, and
\* with the default of everything the tree does not show; only the directory it
\* works in may be another (processcontrol.cpp, rpcserver.cpp, rpcpeer.cpp).
RunsWithWhatIsSet ==
    Writable(options) =>
        LET config == write_options_file(options) IN
        /\ Readable(config)
        /\ uwrapc_from_file(config) = WhatIsSet
        /\ receiveOptions(config) =
                [WhatIsSet EXCEPT !["work_dir"] = WorkDir(options["remote_work_dir"])]

\* Loading the file the GUI has saved brings every setting back, even over the
\* settings of an old file: writing it again gives the same file (optionstree.cpp).
SavedComesBack ==
    [][saved # <<>> /\ loadOptions(saved) /\ status' = "running"
        => write_options_file(options') = saved]_vars

-----------------------------------------------------------------------------
(* What the proofs use of the table (metadata.c) and of the texts. *)
\* The value an entry may show: a number it can write, a choice it can name.
Fits(m, v) ==
    /\ IsNumber(m) => v \in Number
    /\ WellListed(m) => Listed(m, v)

ASSUME TableLength == Len(variable_metadata) \in Nat

\* Every option of the tree is shown by one entry.
ASSUME OneEntryEach ==
    \A i \in Shown : /\ Meta(i).address \in Addresses
                     /\ \A j \in Shown : Meta(j).address = Meta(i).address => j = i

ASSUME DefaultsFit == \A i \in Shown : Fits(Meta(i), Defaults[Meta(i).address])

\* A list names each of its values once; the list of a number is one value.
ASSUME ListsAreNames ==
    \A i \in Shown : LET m == Meta(i) IN
        /\ DOMAIN m.list \subseteq Nat
        /\ m.type = "choice" =>
              \A k, n \in DOMAIN m.list :
                 m.list[k].name = m.list[n].name \/ m.list[k].value = m.list[n].value
                    => k = n
        /\ \A k \in DOMAIN m.list : m.list[k].name \notin DOMAIN LowerCase
        /\ HasSpecial(m) => /\ DOMAIN m.list = {1} /\ m.list[1].value \in Number
                            /\ m.list[1].name \notin DOMAIN Decimals

\* What the entries of older versions hold fits the entry that is shown.
ASSUME OlderEntriesFit ==
    \A i \in Shown : \A j \in {k \in Read : Meta(k).address = Meta(i).address} :
        /\ IsNumber(Meta(i)) =>
              /\ IsNumber(Meta(j))
              /\ Meta(j).type = "real" => Meta(j).address \notin KeepsInt
        /\ Meta(i).type = "choice" /\ WellListed(Meta(i)) =>
              /\ Meta(j).type = "choice"
              /\ ListedValues(Meta(j)) \subseteq ListedValues(Meta(i))

ASSUME BoolsAreShownAsSuch ==
    /\ \A i \in Shown : Meta(i).address \in BoolAddresses <=> Meta(i).type = "bool"
    /\ "remote_work_dir" \in SentAddresses \ (BoolAddresses \cup RealAddresses)

ASSUME DecimalsDiffer == \A x, y \in Number : ToString(x) = ToString(y) => x = y

-----------------------------------------------------------------------------
\* After "Are you sure you want to reset all options to their default values?"
\* every option has its default (optionstree.cpp, resetAllOptions).
ResetAllResets == [][resetAllOptions => options' = Defaults]_vars
=============================================================================
