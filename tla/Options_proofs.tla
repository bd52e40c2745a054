--------------------------- MODULE Options_proofs ---------------------------
(***************************************************************************)
(* Proofs about the options of a run, for any values typed, files chosen,  *)
(* files of older versions, and any number of changes of any options.      *)
(*                                                                         *)
(* The table of options is never expanded: the proofs use the assumptions  *)
(* on it that Options names.                                               *)
(***************************************************************************)
EXTENDS Options, WellFoundedInduction, TLAPS

----------------------------------------------------------------------------
(* The last entry of a file.                                               *)

LEMMA Greatest ==
    ASSUME NEW N \in Nat, NEW S \in SUBSET (0 .. N), S # {}
    PROVE  Max(S) \in S
  <1> DEFINE R == OpToRel(<, Nat)
  <1> DEFINE T == {N - x : x \in S}
  <1>1. IsWellFoundedOn(R, Nat)
    BY NatLessThanWellFounded
  <1>2. \A x, y \in Nat : x < y => <<x, y>> \in R
    BY DEF OpToRel
  <1> HIDE DEF R
  <1>3. T \subseteq Nat /\ T # {}
    <2>1. \A x \in S : N - x \in Nat
      OBVIOUS
    <2> QED
      BY <2>1
  <1>4. PICK t \in T : \A y \in T : ~(<<y, t>> \in R)
    BY <1>1, <1>3, WFMin
  <1>5. PICK x \in S : t = N - x
    BY <1>4
  <1>6. \A y \in S : x >= y
    <2> SUFFICES ASSUME NEW y \in S PROVE x >= y
      OBVIOUS
    <2>1. N - y \in T /\ N - y \in Nat /\ t \in Nat
      BY <1>3, <1>4
    <2>2. ~(N - y < t)
      BY <1>2, <1>4, <2>1
    <2> QED
      BY <1>5, <2>2
  <1> QED
    BY <1>6 DEF Max

LEMMA OnlyOne == ASSUME NEW x \in Int PROVE Max({x}) = x
  BY DEF Max

LEMMA IndicesAreNumbers ==
    ASSUME NEW S \in SUBSET Indices, S # {}
    PROVE  Max(S) \in S
  <1>1. Len(variable_metadata) \in Nat
    BY TableLength
  <1>2. PICK N \in Int : N = Len(variable_metadata) - 1 /\ Indices = 0 .. N
    BY <1>1 DEF Indices
  <1>3. N \in Nat
    <2>1. PICK x \in S : x \in 0 .. N
      BY <1>2
    <2> QED
      BY <2>1
  <1>4. S \in SUBSET (0 .. N)
    BY <1>2
  <1> QED
    BY <1>3, <1>4, Greatest

----------------------------------------------------------------------------
(* The values and the texts of one entry.                                  *)

LEMMA ReadIsIndexed == Shown \subseteq Read /\ Read \subseteq Indices /\ Written = Shown
  BY DEF Shown, Read, Written

LEMMA DecimalOf ==
    ASSUME NEW v \in Number
    PROVE  ToString(v) \in DOMAIN Decimals /\ Decimals[ToString(v)] = v
  <1>1. ToString(v) \in DOMAIN Decimals
    BY DEF Decimals
  <1>2. Decimals[ToString(v)] = CHOOSE n \in Number : ToString(n) = ToString(v)
    BY <1>1 DEF Decimals
  <1>3. \A n \in Number : ToString(n) = ToString(v) => n = v
    BY DecimalsDiffer
  <1> QED
    BY <1>1, <1>2, <1>3

LEMMA DecimalIsNumber ==
    ASSUME NEW t \in DOMAIN Decimals PROVE Decimals[t] \in Number
  <1>1. PICK n \in Number : t = ToString(n)
    BY DEF Decimals
  <1> QED
    BY <1>1, DecimalOf

LEMMA NameGivesValue ==
    ASSUME NEW i \in Shown, Meta(i).type = "choice", NEW k \in DOMAIN Meta(i).list
    PROVE  get_list_value_from_list_name(Meta(i), Meta(i).list[k].name) = Meta(i).list[k].value
  <1> DEFINE m == Meta(i)
  <1>1. \A n \in DOMAIN m.list : m.list[n].name = m.list[k].name => n = k
    BY ListsAreNames
  <1>2. m.list[k].name \in ListedNames(m)
    BY DEF ListedNames
  <1> HIDE DEF m
  <1> QED
    BY <1>1, <1>2 DEF get_list_value_from_list_name, m

LEMMA ValueGivesName ==
    ASSUME NEW i \in Shown, Meta(i).type = "choice", NEW k \in DOMAIN Meta(i).list
    PROVE  ValueWritten(Meta(i), Meta(i).list[k].value) = Meta(i).list[k].name
  <1> DEFINE m == Meta(i)
  <1>1. \A n \in DOMAIN m.list : m.list[n].value = m.list[k].value => n = k
    BY ListsAreNames
  <1> HIDE DEF m
  <1> QED
    BY <1>1 DEF ValueWritten, m

\* The values a text may be taken for, and those a name may stand for.
LEMMA NamedIsListed ==
    ASSUME NEW m, NEW name \in ListedNames(m)
    PROVE  get_list_value_from_list_name(m, name) \in ListedValues(m)
  <1>1. \E k \in DOMAIN m.list : m.list[k].name = name
    BY DEF ListedNames
  <1> QED
    BY <1>1 DEF get_list_value_from_list_name, ListedValues

LEMMA RoundedNumbers ==
    ASSUME NEW v \in Number PROVE Six(v) \in Number /\ Seven(v) \in Number
  BY DEF Six, Seven, Number, Range

LEMMA MeaningIsNumber ==
    ASSUME NEW i \in Shown, IsNumber(Meta(i)), NEW text
    PROVE  Meaning(Meta(i), text) \in Number
  <1>1. 0 \in Number
    BY DEF Number
  <1>2. HasSpecial(Meta(i)) => Meta(i).list[1].value \in Number
    BY ListsAreNames
  <1>3. Meaning(Meta(i), text) = IF text \in DOMAIN Decimals THEN Decimals[text]
                           ELSE IF HasSpecial(Meta(i)) THEN Meta(i).list[1].value ELSE 0
    BY DEF Meaning, IsNumber
  <1> QED
    BY <1>1, <1>2, <1>3, DecimalIsNumber

LEMMA Truths == \A v : Truth(v) \in {0, 1} /\ Truth(Truth(v)) = Truth(v)
  BY DEF Truth

\* A choice shown by its place in the list, when that is its value.
LEMMA NameShown ==
    ASSUME NEW i \in Shown, Meta(i).type = "choice", WellListed(Meta(i)),
           NEW v \in ListedValues(Meta(i))
    PROVE  /\ Display(Meta(i), v) \in ListedNames(Meta(i))
           /\ Meaning(Meta(i), Display(Meta(i), v)) = v
  <1> DEFINE m == Meta(i)
  <1>1. PICK k \in DOMAIN m.list : v = m.list[k].value
    BY DEF ListedValues
  <1>2. k \in Nat /\ m.list[k].value = k - 1
    BY ListsAreNames DEF WellListed
  <1>3. v + 1 = k
    BY <1>1, <1>2
  <1>4. get_list_value_from_list_name(m, m.list[k].name) = v
    BY <1>1, NameGivesValue
  <1>5. Display(m, v) = m.list[k].name
    BY <1>1, <1>3 DEF Display, IsNumber
  <1>6. m.list[k].name \in ListedNames(m)
    BY DEF ListedNames
  <1>7. Meaning(m, m.list[k].name) = get_list_value_from_list_name(m, m.list[k].name)
    BY DEF Meaning, IsNumber
  <1> QED
    BY <1>4, <1>5, <1>6, <1>7

\* A number is shown in full, a real one to six digits.
LEMMA NumberShown ==
    ASSUME NEW i \in Shown, IsNumber(Meta(i)), NEW v \in Number
    PROVE  \/ Meaning(Meta(i), Display(Meta(i), v)) = v
           \/ Meta(i).type = "real" /\ Meaning(Meta(i), Display(Meta(i), v)) = Six(v)
  <1> DEFINE m == Meta(i)
  <1>1. Display(m, v) = IF v \in ListedValues(m) THEN m.list[1].name
                        ELSE ToString(IF m.type = "real" THEN Six(v) ELSE v)
    BY DEF Display, IsNumber
  <1>2. \A t : Meaning(m, t) = IF t \in DOMAIN Decimals THEN Decimals[t]
                               ELSE IF HasSpecial(m) THEN m.list[1].value ELSE 0
    BY DEF Meaning, IsNumber
  <1>3. CASE v \in ListedValues(m)
    <2>1. PICK k \in DOMAIN m.list : v = m.list[k].value
      BY <1>3 DEF ListedValues
    <2>2. HasSpecial(m)
      BY <2>1 DEF HasSpecial
    <2>3. k = 1 /\ m.list[1].name \notin DOMAIN Decimals
      BY <2>1, <2>2, ListsAreNames
    <2> QED
      BY <1>1, <1>2, <1>3, <2>1, <2>2, <2>3
  <1>4. CASE v \notin ListedValues(m) /\ m.type # "real"
    BY <1>1, <1>2, <1>4, DecimalOf
  <1>5. CASE v \notin ListedValues(m) /\ m.type = "real"
    <2>1. PICK w \in Number : w = Six(v)
      BY RoundedNumbers
    <2> QED
      BY <1>1, <1>2, <1>5, <2>1, DecimalOf
  <1> QED
    BY <1>3, <1>4, <1>5

\* The text shown for a value is taken for that value.
LEMMA DisplayTells ==
    ASSUME NEW i \in Shown, NEW v, Fits(Meta(i), v)
    PROVE  Tells(Meta(i), Display(Meta(i), v), v)
  <1> DEFINE m == Meta(i)
  <1>1. CASE m.type = "string"
    BY <1>1 DEF Tells
  <1>2. CASE m.type = "choice"
    <2>1. CASE ~WellListed(m)
      BY <1>2, <2>1 DEF Tells
    <2>2. CASE WellListed(m)
      <3>1. v \in ListedValues(m)
        BY <1>2, <2>2 DEF Fits, Listed
      <3>2. Meaning(m, Display(m, v)) = v
        BY <1>2, <2>2, <3>1, NameShown
      <3> QED
        BY <1>2, <3>2 DEF Tells, PathTypes
    <2> QED
      BY <2>1, <2>2
  <1>3. CASE m.type = "bool"
    <2>1. Meaning(m, Display(m, v)) = Truth(v)
      BY <1>3 DEF IsNumber, Meaning, Display, Truth
    <2> QED
      BY <1>3, <2>1 DEF Tells
  <1>4. CASE m.type \in PathTypes
    BY <1>4 DEF Tells
  <1>5. CASE IsNumber(m)
    <2>1. \/ Meaning(m, Display(m, v)) = v
          \/ m.type = "real" /\ Meaning(m, Display(m, v)) = Six(v)
      BY <1>5, NumberShown DEF Fits
    <2> QED
      BY <1>5, <2>1 DEF Tells, IsNumber, PathTypes
  <1>6. CASE m.type \notin PathTypes \cup {"choice", "bool"} /\ ~IsNumber(m)
    <2>1. Meaning(m, Display(m, v)) = v
      BY <1>6 DEF Meaning, Display, IsNumber, PathTypes
    <2> QED
      BY <1>6, <2>1 DEF Tells
  <1> QED
    BY <1>1, <1>2, <1>3, <1>4, <1>5, <1>6

----------------------------------------------------------------------------
(* All the options, and all the items.                                     *)

AllFit(opt) == \A i \in Shown : Fits(Meta(i), opt[Meta(i).address])
AllTell(texts, opt) == \A i \in Shown : Tells(Meta(i), texts[i], opt[Meta(i).address])
\* The choices that are well listed show one of their names.
AllNamed(texts) ==
    \A i \in Shown : Meta(i).type = "choice" /\ WellListed(Meta(i))
                        => texts[i] \in ListedNames(Meta(i))

\* What a file may hold for an entry, written by saveOptions or by an older version.
Holds(m, w) ==
    /\ m.type = "choice" => w \in ListedNames(m)
    /\ m.type = "bool" => w \in {0, 1}
    /\ IsNumber(m) => w \in Number
    /\ m.type = "real" => Seven(w) = w
HoldsNumbers(config) == \A j \in DOMAIN config : IsNumber(Meta(j)) => config[j] \in Number

LEMMA RefreshedTells ==
    ASSUME NEW opt, AllFit(opt)
    PROVE  /\ DOMAIN Refreshed(opt) = Shown
           /\ AllTell(Refreshed(opt), opt)
           /\ AllNamed(Refreshed(opt))
  <1> SUFFICES ASSUME NEW i \in Shown
               PROVE  /\ Tells(Meta(i), Refreshed(opt)[i], opt[Meta(i).address])
                      /\ Meta(i).type = "choice" /\ WellListed(Meta(i))
                            => Refreshed(opt)[i] \in ListedNames(Meta(i))
    BY DEF AllTell, AllNamed, Refreshed
  <1>1. PICK v : v = opt[Meta(i).address]
    OBVIOUS
  <1>2. Refreshed(opt)[i] = Display(Meta(i), v)
    BY <1>1 DEF Refreshed
  <1>3. Fits(Meta(i), v)
    BY <1>1 DEF AllFit
  <1>4. Tells(Meta(i), Display(Meta(i), v), v)
    BY <1>3, DisplayTells
  <1>5. ASSUME Meta(i).type = "choice", WellListed(Meta(i))
        PROVE  Display(Meta(i), v) \in ListedNames(Meta(i))
    <2>1. v \in ListedValues(Meta(i))
      BY <1>3, <1>5 DEF Fits, Listed
    <2> QED
      BY <1>5, <2>1, NameShown
  <1> QED
    BY <1>1, <1>2, <1>4, <1>5

\* Only the option of the entry is set.
LEMMA OneIsSet ==
    ASSUME NEW opt, DOMAIN opt = Addresses, NEW i \in Shown, NEW text,
           Meta(i).type # "string"
    PROVE  /\ DOMAIN SetMetadata(Meta(i), text, opt) = Addresses
           /\ SetMetadata(Meta(i), text, opt)[Meta(i).address] = Meaning(Meta(i), text)
           /\ \A j \in Shown \ {i} :
                 SetMetadata(Meta(i), text, opt)[Meta(j).address] = opt[Meta(j).address]
  <1>1. SetMetadata(Meta(i), text, opt) =
            [opt EXCEPT ![Meta(i).address] = Meaning(Meta(i), text)]
    BY DEF SetMetadata
  <1>2. Meta(i).address \in Addresses
    BY OneEntryEach
  <1>3. \A j \in Shown \ {i} : Meta(j).address \in Addresses /\ Meta(j).address # Meta(i).address
    BY OneEntryEach
  <1> QED
    BY <1>1, <1>2, <1>3

LEMMA StringIsNotSet ==
    ASSUME NEW opt, NEW m, NEW text, m.type = "string"
    PROVE  SetMetadata(m, text, opt) = opt
  BY DEF SetMetadata

LEMMA SetFits ==
    ASSUME NEW opt, DOMAIN opt = Addresses, AllFit(opt), NEW i \in Shown, NEW text,
           Fits(Meta(i), Meaning(Meta(i), text))
    PROVE  AllFit(SetMetadata(Meta(i), text, opt))
  <1>1. CASE Meta(i).type = "string"
    BY <1>1, StringIsNotSet
  <1>2. CASE Meta(i).type # "string"
    <2>1. PICK new : new = SetMetadata(Meta(i), text, opt)
      OBVIOUS
    <2>2. new[Meta(i).address] = Meaning(Meta(i), text)
      BY <1>2, <2>1, OneIsSet
    <2>3. \A j \in Shown \ {i} : new[Meta(j).address] = opt[Meta(j).address]
      BY <1>2, <2>1, OneIsSet
    <2>4. AllFit(new)
      BY <2>2, <2>3 DEF AllFit
    <2> QED
      BY <2>1, <2>4
  <1> QED
    BY <1>1, <1>2

LEMMA DefaultOrKept ==
    ASSUME NEW opt
    PROVE  /\ DOMAIN set_defaults(opt) = Addresses
           /\ \A a \in Addresses : set_defaults(opt)[a] \in {opt[a], Defaults[a]}
  BY DEF set_defaults, Defaults

LEMMA DefaultsAllFit == AllFit(Defaults) /\ DOMAIN Defaults = Addresses
  BY DefaultsFit, DefaultOrKept DEF AllFit, Defaults

LEMMA ResetFits ==
    ASSUME NEW opt, AllFit(opt)
    PROVE  AllFit(set_defaults(opt))
  <1> SUFFICES ASSUME NEW i \in Shown
               PROVE  Fits(Meta(i), set_defaults(opt)[Meta(i).address])
    BY DEF AllFit
  <1>1. Meta(i).address \in Addresses
    BY OneEntryEach
  <1>2. set_defaults(opt)[Meta(i).address] \in {opt[Meta(i).address], Defaults[Meta(i).address]}
    BY <1>1, DefaultOrKept
  <1> QED
    BY <1>2, DefaultsAllFit DEF AllFit

----------------------------------------------------------------------------
(* Files.                                                                  *)

\* The entries of a file for an address.
NamedIn(config, a) == {j \in DOMAIN config : Meta(j).address = a}

LEMMA ReadOne ==
    ASSUME NEW opt, NEW config, DOMAIN config \subseteq Read, NEW a \in Addresses
    PROVE  IF NamedIn(config, a) = {} THEN read_options_file(opt, config)[a] = opt[a]
           ELSE \E j \in NamedIn(config, a) :
                    read_options_file(opt, config)[a] = ValueRead(Meta(j), config[j])
  <1> DEFINE last == Max(NamedIn(config, a))
  <1>1. read_options_file(opt, config)[a] =
            IF NamedIn(config, a) = {} THEN opt[a] ELSE ValueRead(Meta(last), config[last])
    BY DEF read_options_file, NamedIn
  <1>2. CASE NamedIn(config, a) = {}
    BY <1>1, <1>2
  <1>3. CASE NamedIn(config, a) # {}
    <2>1. NamedIn(config, a) \in SUBSET Indices
      BY ReadIsIndexed DEF NamedIn
    <2>2. last \in NamedIn(config, a)
      BY <1>3, <2>1, IndicesAreNumbers
    <2> HIDE DEF last
    <2> QED
      BY <1>1, <1>3, <2>2
  <1> QED
    BY <1>2, <1>3

LEMMA ReadAll == \A opt, config : DOMAIN read_options_file(opt, config) = Addresses
  BY DEF read_options_file

\* An older entry gives a value the entry shown may show.
LEMMA ValueReadFits ==
    ASSUME NEW config, DOMAIN config \subseteq Read, HoldsNumbers(config), Readable(config),
           NEW i \in Shown, NEW j \in NamedIn(config, Meta(i).address)
    PROVE  Fits(Meta(i), ValueRead(Meta(j), config[j]))
  <1>1. j \in DOMAIN config /\ j \in {k \in Read : Meta(k).address = Meta(i).address}
    BY DEF NamedIn
  <1>2. ASSUME IsNumber(Meta(i)) PROVE ValueRead(Meta(j), config[j]) \in Number
    <2>1. IsNumber(Meta(j)) /\ (Meta(j).type = "real" => Meta(j).address \notin KeepsInt)
      BY <1>1, <1>2, OlderEntriesFit
    <2>2. ValueRead(Meta(j), config[j]) = config[j]
      BY <2>1 DEF ValueRead, IsNumber
    <2> QED
      BY <1>1, <2>1, <2>2 DEF HoldsNumbers
  <1>3. ASSUME Meta(i).type = "choice", WellListed(Meta(i))
        PROVE  ValueRead(Meta(j), config[j]) \in ListedValues(Meta(i))
    <2>1. /\ Meta(j).type = "choice"
          /\ ListedValues(Meta(j)) \subseteq ListedValues(Meta(i))
      BY <1>1, <1>3, OlderEntriesFit
    <2>2. tolower(config[j]) \in ListedNames(Meta(j))
      BY <1>1, <2>1 DEF Readable
    <2>3. ValueRead(Meta(j), config[j]) =
              get_list_value_from_list_name(Meta(j), tolower(config[j]))
      BY <2>1 DEF ValueRead
    <2> QED
      BY <2>1, <2>2, <2>3, NamedIsListed
  <1> QED
    BY <1>2, <1>3 DEF Fits, Listed

LEMMA ReadFits ==
    ASSUME NEW opt, AllFit(opt), NEW config, DOMAIN config \subseteq Read,
           HoldsNumbers(config), Readable(config)
    PROVE  AllFit(read_options_file(opt, config))
  <1> SUFFICES ASSUME NEW i \in Shown
               PROVE  Fits(Meta(i), read_options_file(opt, config)[Meta(i).address])
    BY DEF AllFit
  <1>1. PICK a \in Addresses : a = Meta(i).address
    BY OneEntryEach
  <1>2. CASE NamedIn(config, a) = {}
    <2>1. read_options_file(opt, config)[a] = opt[a]
      BY <1>2, ReadOne
    <2> QED
      BY <1>1, <2>1 DEF AllFit
  <1>3. CASE NamedIn(config, a) # {}
    <2>1. PICK j \in NamedIn(config, a) :
              read_options_file(opt, config)[a] = ValueRead(Meta(j), config[j])
      BY <1>3, ReadOne
    <2> QED
      BY <1>1, <2>1, ValueReadFits
  <1> QED
    BY <1>2, <1>3

\* What is written of a value that can be written.
LEMMA WrittenHolds ==
    ASSUME NEW i \in Shown, NEW v, Fits(Meta(i), v), Listed(Meta(i), v)
    PROVE  Holds(Meta(i), ValueWritten(Meta(i), v))
  <1>1. ASSUME Meta(i).type = "choice"
        PROVE  ValueWritten(Meta(i), v) \in ListedNames(Meta(i))
    <2>1. PICK k \in DOMAIN Meta(i).list : v = Meta(i).list[k].value
      BY <1>1 DEF Listed, ListedValues
    <2>2. ValueWritten(Meta(i), v) = Meta(i).list[k].name
      BY <1>1, <2>1, ValueGivesName
    <2> QED
      BY <2>2 DEF ListedNames
  <1>2. ASSUME Meta(i).type = "bool" PROVE ValueWritten(Meta(i), v) \in {0, 1}
    BY <1>2, Truths DEF ValueWritten
  <1>3. ASSUME IsNumber(Meta(i))
        PROVE  /\ ValueWritten(Meta(i), v) \in Number
               /\ Meta(i).type = "real" =>
                     Seven(ValueWritten(Meta(i), v)) = ValueWritten(Meta(i), v)
    <2>1. v \in Number
      BY <1>3 DEF Fits
    <2>2. Seven(v) \in Number /\ Seven(Seven(v)) = Seven(v)
      BY <2>1, RoundedNumbers, RoundedOnce
    <2>3. ValueWritten(Meta(i), v) = IF Meta(i).type = "real" THEN Seven(v) ELSE v
      BY <1>3 DEF ValueWritten, IsNumber
    <2> QED
      BY <2>1, <2>2, <2>3
  <1> QED
    BY <1>1, <1>2, <1>3 DEF Holds, IsNumber

\* What is read of what was written: the value, with one form of each truth and
\* seven digits of a real number.
Form(type, v) == IF type = "bool" THEN Truth(v) ELSE IF type = "real" THEN Seven(v) ELSE v
LEMMA WrittenComesBack ==
    ASSUME NEW i \in Shown, NEW v, Listed(Meta(i), v)
    PROVE  /\ Meta(i).type = "choice" =>
                  tolower(ValueWritten(Meta(i), v)) \in ListedNames(Meta(i))
           /\ ValueRead(Meta(i), ValueWritten(Meta(i), v)) = Form(Meta(i).type, v)
  <1> DEFINE m == Meta(i)
  <1>1. CASE m.type = "choice"
    <2>1. PICK k \in DOMAIN m.list : v = m.list[k].value
      BY <1>1 DEF Listed, ListedValues
    <2>2. ValueWritten(m, v) = m.list[k].name
      BY <1>1, <2>1, ValueGivesName
    <2>3. tolower(m.list[k].name) = m.list[k].name /\ m.list[k].name \in ListedNames(m)
      BY ListsAreNames DEF tolower, ListedNames
    <2>4. ValueRead(m, m.list[k].name) = get_list_value_from_list_name(m, m.list[k].name)
      BY <1>1, <2>3 DEF ValueRead
    <2> QED
      BY <1>1, <2>1, <2>2, <2>3, <2>4, NameGivesValue DEF Form
  <1>2. CASE m.type = "bool"
    BY <1>2 DEF ValueRead, ValueWritten, Form
  <1>3. CASE m.type \notin {"choice", "bool"}
    <2>1. i \in {k \in Read : Meta(k).address = Meta(i).address}
      BY ReadIsIndexed
    <2>2. m.type = "real" => m.address \notin KeepsInt
      BY <2>1, OlderEntriesFit DEF IsNumber
    <2> QED
      BY <1>3, <2>2 DEF ValueRead, ValueWritten, Form
  <1> QED
    BY <1>1, <1>2, <1>3

\* What is written of what a saved file holds: the same.
LEMMA HeldIsWritten ==
    ASSUME NEW i \in Shown, NEW w, Holds(Meta(i), w)
    PROVE  ValueWritten(Meta(i), ValueRead(Meta(i), w)) = w
  <1> DEFINE m == Meta(i)
  <1>1. CASE m.type = "choice"
    <2>1. PICK k \in DOMAIN m.list : w = m.list[k].name
      BY <1>1 DEF Holds, ListedNames
    <2>2. tolower(w) = w
      BY <2>1, ListsAreNames DEF tolower
    <2>3. ValueRead(m, w) = m.list[k].value
      BY <1>1, <2>1, <2>2, NameGivesValue DEF ValueRead
    <2> QED
      BY <1>1, <2>1, <2>3, ValueGivesName
  <1>2. CASE m.type = "bool"
    BY <1>2 DEF ValueRead, ValueWritten, Holds, Truth
  <1>3. CASE m.type \notin {"choice", "bool"}
    <2>1. i \in {k \in Read : Meta(k).address = Meta(i).address}
      BY ReadIsIndexed
    <2>2. m.type = "real" => m.address \notin KeepsInt
      BY <2>1, OlderEntriesFit DEF IsNumber
    <2> QED
      BY <1>3, <2>2 DEF ValueRead, ValueWritten, Holds
  <1> QED
    BY <1>1, <1>2, <1>3

\* A file the program has written sets each option it holds once.
LEMMA ReadOfWritten ==
    ASSUME NEW opt, NEW config, DOMAIN config = Shown
    PROVE  /\ \A i \in Shown : read_options_file(opt, config)[Meta(i).address] =
                                ValueRead(Meta(i), config[i])
           /\ \A a \in Addresses \ SentAddresses : read_options_file(opt, config)[a] = opt[a]
  <1>1. DOMAIN config \subseteq Read
    BY ReadIsIndexed
  <1>2. ASSUME NEW i \in Shown
        PROVE  read_options_file(opt, config)[Meta(i).address] = ValueRead(Meta(i), config[i])
    <2>1. PICK a \in Addresses : a = Meta(i).address
      BY OneEntryEach
    <2>2. NamedIn(config, a) = {i}
      BY <2>1, OneEntryEach DEF NamedIn
    <2>3. PICK j \in NamedIn(config, a) :
              read_options_file(opt, config)[a] = ValueRead(Meta(j), config[j])
      BY <1>1, <2>2, ReadOne
    <2> QED
      BY <2>1, <2>2, <2>3
  <1>3. ASSUME NEW a \in Addresses \ SentAddresses
        PROVE  read_options_file(opt, config)[a] = opt[a]
    <2>1. NamedIn(config, a) = {}
      BY ReadIsIndexed DEF NamedIn, SentAddresses
    <2> QED
      BY <1>1, <2>1, ReadOne
  <1> QED
    BY <1>2, <1>3

----------------------------------------------------------------------------
(* A program launched runs with what is set.                               *)

LEMMA WrittenIsReadable ==
    ASSUME NEW opt, Writable(opt)
    PROVE  Readable(write_options_file(opt))
  <1> DEFINE config == write_options_file(opt)
  <1> SUFFICES ASSUME NEW i \in Shown, Meta(i).type = "choice"
               PROVE  tolower(config[i]) \in ListedNames(Meta(i))
    BY ReadIsIndexed DEF Readable, write_options_file
  <1>1. Listed(Meta(i), opt[Meta(i).address])
    BY ReadIsIndexed DEF Writable
  <1>2. config[i] = ValueWritten(Meta(i), opt[Meta(i).address])
    BY ReadIsIndexed DEF write_options_file
  <1> QED
    BY <1>1, <1>2, WrittenComesBack

\* What the program launched makes of the file.
LEMMA LaunchedWith ==
    ASSUME Writable(options), NEW a \in Addresses
    PROVE  read_options_file(Defaults, write_options_file(options))[a] = WhatIsSet[a]
  <1> DEFINE config == write_options_file(options)
  <1>1. DOMAIN config = Shown
    BY ReadIsIndexed DEF write_options_file
  <1>2. CASE a \notin SentAddresses
    <2>1. a \notin RealAddresses
      BY <1>2 DEF RealAddresses, SentAddresses
    <2>2. WhatIsSet[a] = Defaults[a]
      BY <1>2, <2>1 DEF WhatIsSet
    <2> QED
      BY <1>1, <1>2, <2>2, ReadOfWritten
  <1>3. CASE a \in SentAddresses
    <2>1. PICK i \in Shown : a = Meta(i).address
      BY <1>3, ReadIsIndexed DEF SentAddresses
    <2>2. Listed(Meta(i), options[a])
      BY <2>1, ReadIsIndexed DEF Writable
    <2>3. config[i] = ValueWritten(Meta(i), options[a])
      BY <2>1, ReadIsIndexed DEF write_options_file
    <2>4. read_options_file(Defaults, config)[a] = ValueRead(Meta(i), config[i])
      BY <1>1, <2>1, ReadOfWritten
    <2>5. ValueRead(Meta(i), ValueWritten(Meta(i), options[a])) =
              Form(Meta(i).type, options[a])
      BY <2>2, WrittenComesBack
    <2>6. a \in BoolAddresses <=> Meta(i).type = "bool"
      BY <2>1, BoolsAreShownAsSuch
    <2>7. a \in RealAddresses <=> Meta(i).type = "real"
      <3>1. \A j \in Shown : Meta(j).address = a => j = i
        BY <2>1, OneEntryEach
      <3> QED
        BY <2>1, <3>1, ReadIsIndexed DEF RealAddresses
    <2>8. WhatIsSet[a] = Form(Meta(i).type, options[a])
      BY <1>3, <2>6, <2>7 DEF WhatIsSet, Form
    <2> QED
      BY <2>3, <2>4, <2>5, <2>8
  <1> QED
    BY <1>2, <1>3

LEMMA LaunchAgrees == RunsWithWhatIsSet
  <1> SUFFICES ASSUME Writable(options)
               PROVE  LET config == write_options_file(options) IN
                      /\ Readable(config)
                      /\ uwrapc_from_file(config) = WhatIsSet
                      /\ receiveOptions(config) = [WhatIsSet EXCEPT
                            !["work_dir"] = WorkDir(options["remote_work_dir"])]
    BY DEF RunsWithWhatIsSet
  <1> DEFINE config == write_options_file(options)
  <1>1. Readable(config)
    BY WrittenIsReadable
  <1>2. read_options_file(Defaults, config) = WhatIsSet
    <2>1. DOMAIN WhatIsSet = Addresses /\ DOMAIN read_options_file(Defaults, config) = Addresses
      BY ReadAll DEF WhatIsSet
    <2>2. \A a \in Addresses : read_options_file(Defaults, config)[a] = WhatIsSet[a]
      BY LaunchedWith
    <2> HIDE DEF config
    <2>3. read_options_file(Defaults, config) =
              [a \in Addresses |-> read_options_file(Defaults, config)[a]]
      BY DEF read_options_file
    <2>4. WhatIsSet = [a \in Addresses |-> WhatIsSet[a]]
      BY DEF WhatIsSet
    <2> QED
      BY <2>2, <2>3, <2>4
  <1>3. WhatIsSet["remote_work_dir"] = options["remote_work_dir"]
    <2>1. \A i \in Shown : Meta(i).address \in Addresses
      BY OneEntryEach
    <2>2. "remote_work_dir" \in Addresses
      BY <2>1, BoolsAreShownAsSuch, ReadIsIndexed DEF SentAddresses
    <2> QED
      BY <2>2, BoolsAreShownAsSuch DEF WhatIsSet, SentAddresses
  <1> QED
    BY <1>1, <1>2, <1>3 DEF uwrapc_from_file, receiveOptions

----------------------------------------------------------------------------
(* The inductive invariant: the options fit their entries, the items are   *)
(* taken for them while the program runs, and the file saved can be read.  *)

ItemsTrue == status = "running" => AllTell(items, options) /\ AllNamed(items)
SavedHolds ==
    saved # <<>> => /\ saved = [i \in Written |-> saved[i]]
                    /\ \A i \in Written : Holds(Meta(i), saved[i])
TreeInv == TypeOK /\ AllFit(options) /\ ItemsTrue /\ SavedHolds

LEMMA TreeInit == Init => TreeInv
  <1> SUFFICES ASSUME Init PROVE TreeInv
    OBVIOUS
  <1>1. AllTell(items, options) /\ AllNamed(items) /\ DOMAIN items = Shown
    BY DefaultsAllFit, RefreshedTells DEF Init
  <1>2. scope \in Scopes /\ scope.edits \in Nat
    BY ScopesAssumption DEF Init
  <1>3. combo \in {Levels[n] : n \in 1 .. 3}
    <2>1. Levels[1] = "basic"
      BY DEF Levels
    <2> QED
      BY <2>1 DEF Init
  <1>4. TypeOK
    BY <1>1, <1>2, <1>3, DefaultsAllFit DEF Init, TypeOK
  <1> QED
    BY <1>1, <1>4, DefaultsAllFit DEF Init, TreeInv, ItemsTrue, SavedHolds

\* What is left alone.
LEMMA SavedKept == ASSUME SavedHolds, saved' = saved PROVE SavedHolds'
  BY DEF SavedHolds

LEMMA TreeKept ==
    ASSUME TreeInv, options' = options, items' = items, status' = status \/ status' # "running"
    PROVE  AllFit(options)' /\ ItemsTrue'
  BY DEF TreeInv, ItemsTrue, AllFit, AllTell, AllNamed

\* One item shows a text that is taken for the value its option gets.
LEMMA OneItemTells ==
    ASSUME NEW opt, DOMAIN opt = Addresses, NEW texts, DOMAIN texts = Shown,
           AllTell(texts, opt), AllNamed(texts),
           NEW i \in Shown, NEW text, NEW shown,
           Tells(Meta(i), shown, SetMetadata(Meta(i), text, opt)[Meta(i).address]),
           Meta(i).type = "choice" /\ WellListed(Meta(i)) => shown \in ListedNames(Meta(i))
    PROVE  /\ AllTell([texts EXCEPT ![i] = shown], SetMetadata(Meta(i), text, opt))
           /\ AllNamed([texts EXCEPT ![i] = shown])
  <1> DEFINE all == [texts EXCEPT ![i] = shown]
  <1>1. all[i] = shown /\ \A j \in Shown \ {i} : all[j] = texts[j]
    OBVIOUS
  <1>2. PICK new : new = SetMetadata(Meta(i), text, opt)
    OBVIOUS
  <1>3. \A j \in Shown \ {i} : new[Meta(j).address] = opt[Meta(j).address]
    <2>1. CASE Meta(i).type = "string"
      BY <1>2, <2>1, StringIsNotSet
    <2>2. CASE Meta(i).type # "string"
      BY <1>2, <2>2, OneIsSet
    <2> QED
      BY <2>1, <2>2
  <1>4. Tells(Meta(i), shown, new[Meta(i).address])
    BY <1>2
  <1> HIDE DEF all
  <1>5. AllTell(all, new)
    BY <1>1, <1>3, <1>4 DEF AllTell
  <1>6. AllNamed(all)
    BY <1>1 DEF AllNamed
  <1> QED
    BY <1>2, <1>5, <1>6 DEF all

\* At any level a list that is well made offers all its names.
LEMMA OfferedAll ==
    ASSUME NEW m, WellListed(m), combo \in {Levels[n] : n \in 1 .. 3}
    PROVE  Offered(m) = ListedNames(m)
  <1>1. LevelIndex("basic") = 1
    <2>1. 1 \in 1 .. 3 /\ Levels[1] = "basic"
      BY DEF Levels
    <2>2. \A n \in 1 .. 3 : Levels[n] = "basic" => n = 1
      BY DEF Levels
    <2> QED
      BY <2>1, <2>2 DEF LevelIndex
  <1>2. LevelIndex(combo) \in 1 .. 3
    <2>1. \E n \in 1 .. 3 : Levels[n] = combo
      OBVIOUS
    <2> QED
      BY <2>1 DEF LevelIndex
  <1>3. \A k \in DOMAIN m.list : LevelIndex(m.list[k].level) <= LevelIndex(combo)
    BY <1>1, <1>2 DEF WellListed
  <1> QED
    BY <1>3 DEF Offered, ListedNames

\* A path shown is absolute.
LEMMA ShownPath ==
    ASSUME NEW m, m.type \in PathTypes, NEW v, NEW text,
           text \in Chosen \cup {Display(m, v)}
    PROVE  Display(m, text) = text
  <1>1. \A w : Display(m, w) = IF m.type = "file" /\ w = "" THEN "" ELSE AbsolutePath(w)
    <2> SUFFICES ASSUME NEW w
                 PROVE  Display(m, w) = IF m.type = "file" /\ w = "" THEN "" ELSE AbsolutePath(w)
      OBVIOUS
    <2>1. CASE m.type = "file"
      BY <2>1 DEF Display, IsNumber
    <2>2. CASE m.type = "directory"
      BY <2>2 DEF Display, IsNumber
    <2> QED
      BY <2>1, <2>2 DEF PathTypes
  <1>2. \A p : AbsolutePath(AbsolutePath(p)) = AbsolutePath(p)
    BY PathsAssumption DEF AbsolutePath
  <1>3. CASE text \in Chosen
    <2>1. AbsolutePath(text) = text
      BY <1>3, PathsAssumption DEF AbsolutePath
    <2> QED
      BY <1>1, <2>1
  <1>4. CASE text = Display(m, v)
    BY <1>1, <1>2, <1>4
  <1> QED
    BY <1>3, <1>4

\* What an editor leaves is taken for what it sets.
LEMMA EditTells ==
    ASSUME NEW m, m.type # "string", NEW v, NEW shown, Tells(m, shown, v),
           NEW text \in Texts(m, shown, v)
    PROVE  Tells(m, text, Meaning(m, text))
  <1>1. CASE m.type \in PathTypes
    <2>1. shown = Display(m, v)
      BY <1>1 DEF Tells, PathTypes
    <2>2. text \in Chosen \cup {shown}
      BY <1>1 DEF Texts, PathTypes, HasSpecial, IsNumber
    <2>3. Display(m, text) = text
      BY <1>1, <2>1, <2>2, ShownPath
    <2>4. Meaning(m, text) = text
      BY <1>1 DEF Meaning, PathTypes, IsNumber
    <2> QED
      BY <1>1, <2>3, <2>4 DEF Tells
  <1>2. CASE m.type = "bool"
    <2>1. Meaning(m, text) \in {0, 1}
      BY <1>2 DEF Meaning, IsNumber
    <2>2. Meaning(m, text) = Truth(Meaning(m, text))
      BY <2>1 DEF Truth
    <2> QED
      BY <1>2, <2>2 DEF Tells
  <1>3. CASE m.type \notin PathTypes \cup {"bool"}
    BY <1>3 DEF Tells
  <1> QED
    BY <1>1, <1>2, <1>3

----------------------------------------------------------------------------
(* The steps.                                                              *)

LEMMA OneMoreEdit ==
    ASSUME TypeOK, edits < scope.edits, edits' = edits + 1, scope' = scope
    PROVE  scope' \in Scopes /\ edits' \in 0 .. scope'.edits
  <1>1. scope \in Scopes /\ scope.edits \in Nat /\ edits \in 0 .. scope.edits
    BY ScopesAssumption DEF TypeOK
  <1>2. edits + 1 \in 0 .. scope.edits
    BY <1>1
  <1> QED
    BY <1>1, <1>2

LEMMA EditKeeps ==
    ASSUME TreeInv, NEW i \in DOMAIN items, Edit(i)
    PROVE  TreeInv'
  <1> DEFINE m == Meta(i)
  <1>1. i \in Shown /\ DOMAIN items = Shown /\ DOMAIN options = Addresses /\ status = "running"
    BY DEF TreeInv, TypeOK, Edit
  <1>2. AllTell(items, options) /\ AllNamed(items) /\ AllFit(options)
    BY <1>1 DEF TreeInv, ItemsTrue
  <1>3. PICK text \in Texts(m, items[i], options[m.address]) :
            items' = [items EXCEPT ![i] = text] /\ options' = SetMetadata(m, text, options)
    BY DEF Edit
  <1>4. ASSUME m.type = "choice", WellListed(m) PROVE text \in ListedNames(m)
    <2>1. Offered(m) = ListedNames(m)
      BY <1>4, OfferedAll DEF TreeInv, TypeOK
    <2>2. items[i] \in ListedNames(m)
      BY <1>1, <1>2, <1>4 DEF AllNamed
    <2>3. Texts(m, items[i], options[m.address]) =
              Offered(m) \cup (IF items[i] \in Offered(m) THEN {} ELSE {""})
      BY <1>4 DEF Texts, HasSpecial, IsNumber, PathTypes
    <2> QED
      BY <1>3, <2>1, <2>2, <2>3
  <1>5. Fits(m, Meaning(m, text))
    <2>1. IsNumber(m) => Meaning(m, text) \in Number
      BY <1>1, MeaningIsNumber
    <2>2. ASSUME m.type = "choice", WellListed(m) PROVE Meaning(m, text) \in ListedValues(m)
      <3>1. Meaning(m, text) = get_list_value_from_list_name(m, text)
        BY <2>2 DEF Meaning, IsNumber
      <3> QED
        BY <1>4, <2>2, <3>1, NamedIsListed
    <2> QED
      BY <2>1, <2>2 DEF Fits, Listed
  <1>6. Tells(m, text, SetMetadata(m, text, options)[m.address])
    <2>1. CASE m.type = "string"
      BY <2>1 DEF Tells
    <2>2. CASE m.type # "string"
      <3>1. Tells(m, items[i], options[m.address])
        BY <1>1, <1>2 DEF AllTell
      <3>2. Tells(m, text, Meaning(m, text))
        BY <1>3, <2>2, <3>1, EditTells
      <3> QED
        BY <1>1, <2>2, <3>2, OneIsSet
    <2> QED
      BY <2>1, <2>2
  <1>7. AllFit(options')
    BY <1>1, <1>2, <1>3, <1>5, SetFits
  <1>8. AllTell(items', options') /\ AllNamed(items')
    BY <1>1, <1>2, <1>3, <1>4, <1>6, OneItemTells
  <1>9. TypeOK'
    <2>1. DOMAIN options' = Addresses
      BY <1>1, <1>3, OneIsSet, StringIsNotSet
    <2>2. DOMAIN items' = Shown
      BY <1>1, <1>3
    <2>3. scope' \in Scopes /\ edits' \in 0 .. scope'.edits
      BY OneMoreEdit DEF Edit, TreeInv
    <2>4. combo' = combo /\ status' = status
      BY DEF Edit
    <2> QED
      BY <2>1, <2>2, <2>3, <2>4 DEF TypeOK, TreeInv
  <1>10. SavedHolds'
    BY SavedKept DEF Edit, TreeInv
  <1> QED
    BY <1>7, <1>8, <1>9, <1>10 DEF TreeInv, ItemsTrue

LEMMA ResetOneKeeps ==
    ASSUME TreeInv, NEW i \in DOMAIN items, resetSelectedOption(i)
    PROVE  TreeInv'
  <1> DEFINE m == Meta(i)
  <1> DEFINE kept == Display(m, Defaults[m.address])
  <1>1. i \in Shown /\ DOMAIN items = Shown /\ DOMAIN options = Addresses /\ status = "running"
    BY DEF TreeInv, TypeOK, resetSelectedOption
  <1>2. AllTell(items, options) /\ AllNamed(items) /\ AllFit(options)
    BY <1>1 DEF TreeInv, ItemsTrue
  <1>3. PICK text : /\ text = IF m.type \in PathTypes THEN "" ELSE kept
                    /\ options' = SetMetadata(m, text, options)
    BY DEF resetSelectedOption
  <1>4. PICK shown : /\ shown = Display(m, options'[m.address])
                     /\ items' = [items EXCEPT ![i] = shown]
    BY DEF resetSelectedOption
  <1>5. Fits(m, Meaning(m, text))
    <2>1. IsNumber(m) => Meaning(m, text) \in Number
      BY <1>1, MeaningIsNumber
    <2>2. ASSUME m.type = "choice", WellListed(m) PROVE Meaning(m, text) \in ListedValues(m)
      <3>1. Defaults[m.address] \in ListedValues(m)
        BY <1>1, <2>2, DefaultsFit DEF Fits, Listed
      <3>2. text = kept
        BY <1>3, <2>2 DEF PathTypes
      <3> QED
        BY <1>1, <2>2, <3>1, <3>2, NameShown
    <2> QED
      BY <2>1, <2>2 DEF Fits, Listed
  <1>6. AllFit(options')
    BY <1>1, <1>2, <1>3, <1>5, SetFits
  <1>7. Fits(m, options'[m.address])
    BY <1>1, <1>6 DEF AllFit
  <1>8. Tells(m, shown, SetMetadata(m, text, options)[m.address])
    BY <1>1, <1>3, <1>4, <1>7, DisplayTells
  <1>9. ASSUME m.type = "choice", WellListed(m) PROVE shown \in ListedNames(m)
    <2>1. options'[m.address] \in ListedValues(m)
      BY <1>7, <1>9 DEF Fits, Listed
    <2> QED
      BY <1>1, <1>4, <1>9, <2>1, NameShown
  <1>10. AllTell(items', options') /\ AllNamed(items')
    BY <1>1, <1>2, <1>3, <1>4, <1>8, <1>9, OneItemTells
  <1>11. TypeOK'
    <2>1. DOMAIN options' = Addresses
      BY <1>1, <1>3, OneIsSet, StringIsNotSet
    <2>2. DOMAIN items' = Shown
      BY <1>1, <1>4
    <2>3. scope' \in Scopes /\ edits' \in 0 .. scope'.edits
      BY OneMoreEdit DEF resetSelectedOption, TreeInv
    <2>4. combo' = combo /\ status' \in {"running", "crashed"}
      BY DEF resetSelectedOption, MayCrash
    <2> QED
      BY <2>1, <2>2, <2>3, <2>4 DEF TypeOK, TreeInv
  <1>12. SavedHolds'
    BY SavedKept DEF resetSelectedOption, TreeInv
  <1> QED
    BY <1>6, <1>10, <1>11, <1>12 DEF TreeInv, ItemsTrue

LEMMA ResetAllKeeps == ASSUME TreeInv, resetAllOptions PROVE TreeInv'
  <1>1. AllFit(options') /\ DOMAIN options' = Addresses
    BY ResetFits, DefaultOrKept DEF TreeInv, resetAllOptions
  <1>2. AllTell(items', options') /\ AllNamed(items') /\ DOMAIN items' = Shown
    BY <1>1, RefreshedTells DEF resetAllOptions
  <1>3. TypeOK'
    BY <1>1, <1>2 DEF resetAllOptions, TypeOK, TreeInv
  <1>4. SavedHolds'
    BY SavedKept DEF resetAllOptions, TreeInv
  <1> QED
    BY <1>1, <1>2, <1>3, <1>4 DEF TreeInv, ItemsTrue

LEMMA ShowLevelKeeps ==
    ASSUME TreeInv, NEW l \in {Levels[n] : n \in 1 .. 3}, ShowLevel(l)
    PROVE  TreeInv'
  <1>1. TypeOK'
    BY DEF ShowLevel, TypeOK, TreeInv
  <1>2. AllFit(options)' /\ ItemsTrue'
    BY TreeKept DEF ShowLevel
  <1>3. SavedHolds'
    BY SavedKept DEF ShowLevel, TreeInv
  <1> QED
    BY <1>1, <1>2, <1>3 DEF TreeInv

LEMMA SaveKeeps == ASSUME TreeInv, saveOptions PROVE TreeInv'
  <1>1. TypeOK'
    BY DEF saveOptions, TypeOK, TreeInv
  <1>2. AllFit(options)' /\ ItemsTrue'
    BY TreeKept DEF saveOptions
  <1>3. SavedHolds'
    <2>1. CASE saved' = saved
      BY <2>1, SavedKept DEF TreeInv
    <2>2. CASE Writable(options) /\ saved' = write_options_file(options)
      <3>1. saved' = [i \in Written |-> saved'[i]]
        BY <2>2 DEF write_options_file
      <3>2. ASSUME NEW i \in Shown PROVE Holds(Meta(i), saved'[i])
        <4>1. PICK v : v = options[Meta(i).address]
          OBVIOUS
        <4>2. saved'[i] = ValueWritten(Meta(i), v)
          BY <2>2, <4>1, ReadIsIndexed DEF write_options_file
        <4>3. Listed(Meta(i), v)
          BY <2>2, <4>1, ReadIsIndexed DEF Writable
        <4>4. Fits(Meta(i), v)
          BY <4>1 DEF TreeInv, AllFit
        <4> QED
          BY <4>2, <4>3, <4>4, WrittenHolds
      <3> QED
        BY <3>1, <3>2, ReadIsIndexed DEF SavedHolds
    <2> QED
      BY <2>1, <2>2 DEF saveOptions
  <1> QED
    BY <1>1, <1>2, <1>3 DEF TreeInv

\* Whatever file is loaded holds numbers where numbers belong.
LEMMA LoadedHolds ==
    ASSUME TreeInv, NEW config \in OldFiles \cup ({saved} \ {<<>>})
    PROVE  DOMAIN config \subseteq Read /\ HoldsNumbers(config)
  <1>1. CASE config \in OldFiles
    <2>1. NumbersIn(config) \subseteq Number
      BY <1>1, OldFilesAssumption DEF Number
    <2>2. HoldsNumbers(config)
      BY <2>1 DEF HoldsNumbers, NumbersIn
    <2> QED
      BY <1>1, <2>2, OldFilesAssumption
  <1>2. CASE config = saved /\ saved # <<>>
    BY <1>2, ReadIsIndexed DEF TreeInv, SavedHolds, HoldsNumbers, Holds
  <1> QED
    BY <1>1, <1>2

LEMMA LoadKeeps ==
    ASSUME TreeInv, NEW config \in OldFiles \cup ({saved} \ {<<>>}), loadOptions(config)
    PROVE  TreeInv'
  <1>1. SavedHolds'
    BY SavedKept DEF loadOptions, TreeInv
  <1>2. /\ scope' \in Scopes /\ edits' \in 0 .. scope'.edits /\ combo' = combo
        /\ DOMAIN options = Addresses /\ DOMAIN items = Shown
        /\ combo \in {Levels[n] : n \in 1 .. 3}
    BY OneMoreEdit DEF loadOptions, TreeInv, TypeOK
  <1>3. CASE Readable(config) /\ options' = read_options_file(options, config)
             /\ items' = Refreshed(options') /\ status' \in MayCrash(Writable(options'))
    <2>1. AllFit(options')
      BY <1>3, LoadedHolds, ReadFits DEF TreeInv
    <2>2. AllTell(items', options') /\ AllNamed(items') /\ DOMAIN items' = Shown
      BY <1>3, <2>1, RefreshedTells
    <2>3. DOMAIN options' = Addresses
      BY <1>3, ReadAll
    <2>4. status' \in {"running", "crashed"}
      BY <1>3 DEF MayCrash
    <2>5. TypeOK'
      BY <1>2, <2>2, <2>3, <2>4 DEF TypeOK
    <2> QED
      BY <1>1, <2>1, <2>2, <2>5 DEF TreeInv, ItemsTrue
  <1>4. CASE status' = "fatal" /\ UNCHANGED <<options, items>>
    <2>1. TypeOK'
      BY <1>2, <1>4 DEF TypeOK
    <2>2. AllFit(options)' /\ ItemsTrue'
      BY <1>4, TreeKept
    <2> QED
      BY <1>1, <2>1, <2>2 DEF TreeInv
  <1> QED
    BY <1>3, <1>4 DEF loadOptions

LEMMA LaunchKeeps == ASSUME TreeInv, Launch PROVE TreeInv'
  <1>1. TypeOK'
    BY DEF Launch, TypeOK, TreeInv
  <1>2. AllFit(options)' /\ ItemsTrue'
    BY TreeKept DEF Launch
  <1>3. SavedHolds'
    BY SavedKept DEF Launch, TreeInv
  <1> QED
    BY <1>1, <1>2, <1>3 DEF TreeInv

LEMMA TreeStep == ASSUME TreeInv, [Next]_vars PROVE TreeInv'
  <1>1. CASE Next
    BY <1>1, EditKeeps, ResetOneKeeps, ResetAllKeeps, ShowLevelKeeps, SaveKeeps, LoadKeeps,
       LaunchKeeps DEF Next
  <1>2. CASE UNCHANGED vars
    BY <1>2 DEF vars, TreeInv, TypeOK, ItemsTrue, SavedHolds, AllFit, AllTell, AllNamed
  <1> QED
    BY <1>1, <1>2

----------------------------------------------------------------------------
(* The theorems.                                                           *)

LEMMA TreeHolds == Spec => []TreeInv
  <1>1. TreeInv /\ [Next]_vars => TreeInv'
    BY TreeStep
  <1> QED
    BY TreeInit, <1>1, PTL DEF Spec

\* Every option has a value and every entry of the tree a text, whatever is
\* edited, reset, loaded and saved (optionstree.cpp).
THEOREM TypeCorrect == Spec => []TypeOK
  <1>1. TreeInv => TypeOK
    BY DEF TreeInv
  <1> QED
    BY TreeHolds, <1>1, PTL

\* For any number of edits, resets and files loaded, each item of the tree is
\* taken for the value its option has, or for six digits of a real number
\* (optionstree.cpp, treedelegate.cpp).
THEOREM TreeTellsTruth == Spec => []ItemsTellOptions
  <1>1. TreeInv => ItemsTellOptions
    BY DEF TreeInv, ItemsTrue, AllTell, ItemsTellOptions
  <1> QED
    BY TreeHolds, <1>1, PTL

\* An option whose choices are well listed always has a value that
\* write_options_file has a name for (configuration.c).
THEOREM WellListedIsWritten == Spec => []OnlyBadListsAreFatal
  <1>1. TreeInv => OnlyBadListsAreFatal
    BY DEF TreeInv, AllFit, Fits, OnlyBadListsAreFatal
  <1> QED
    BY TreeHolds, <1>1, PTL

\* A program launched reads every name it is sent and runs with what is set in
\* the tree, real numbers to seven digits, whatever that is (processcontrol.cpp,
\* rpcserver.cpp, rpcpeer.cpp).
THEOREM LaunchedAsSet == Spec => []RunsWithWhatIsSet
  BY LaunchAgrees, PTL

\* The file saved brings back what was saved, whatever was loaded or edited in
\* between (optionstree.cpp, saveOptions and loadOptions).
THEOREM SavedIsRestored == Spec => SavedComesBack
  <1>1. ASSUME TreeInv, saved # <<>>, loadOptions(saved), status' = "running"
        PROVE  write_options_file(options') = saved
    <2>1. saved = [i \in Shown |-> saved[i]] /\ \A i \in Shown : Holds(Meta(i), saved[i])
      BY <1>1, ReadIsIndexed DEF TreeInv, SavedHolds
    <2>2. options' = read_options_file(options, saved)
      BY <1>1 DEF loadOptions
    <2>3. ASSUME NEW i \in Shown PROVE write_options_file(options')[i] = saved[i]
      <3>1. options'[Meta(i).address] = ValueRead(Meta(i), saved[i])
        BY <2>1, <2>2, ReadOfWritten
      <3>2. write_options_file(options')[i] = ValueWritten(Meta(i), options'[Meta(i).address])
        BY ReadIsIndexed DEF write_options_file
      <3> QED
        BY <2>1, <3>1, <3>2, HeldIsWritten
    <2>4. write_options_file(options') = [i \in Shown |-> write_options_file(options')[i]]
      BY ReadIsIndexed DEF write_options_file
    <2> QED
      BY <2>1, <2>3, <2>4
  <1>2. TreeInv /\ [Next]_vars =>
            [saved # <<>> /\ loadOptions(saved) /\ status' = "running"
                => write_options_file(options') = saved]_vars
    BY <1>1
  <1> QED
    BY TreeHolds, <1>2, PTL DEF Spec, SavedComesBack
=============================================================================
