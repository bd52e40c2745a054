----------------------------- MODULE MCOptions -----------------------------
(* Small instances of Options for TLC.                                     *)
EXTENDS Options

\* One change of any option, or a few changes of options of each kind.
Breadth == [addresses |-> Addresses, edits |-> 1]
Depth == [addresses |-> {"algorithm", "patterson_level_algorithm", "output_precision",
                         "max_iterations", "log_file", "image_guess_filename",
                         "enforce_real", "beta"},
          edits |-> 2]
BothScopes == {Breadth, Depth}

At(name) == CHOOSE i \in Read : Meta(i).path = name

\* What files of older versions may hold.
OldVersions ==
    {At(<<"", "algorithm">>) :> "RAAR" @@ At(<<"", "enforce_positivity">>) :> 100
        @@ At(<<"", "beta">>) :> 12345678,
     At(<<"", "patterson_level_algorithm">>) :> "stepped",
     At(<<"", "output_precision">>) :> 16 @@ At(<<"", "automatic">>) :> 1
        @@ At(<<"logging", "remote_work_directory">>) :> "/scratch",
     At(<<"", "support_update_algorithm">>) :> "area"}

LowerCaseNames == "RAAR" :> "raar"
\* The one with eight digits keeps six in the tree and seven in a file.
TypedNumbers == {0, 12345678}
OfSixDigits == 12345678 :> 12345700 @@ 12345680 :> 12345700
OfSevenDigits == 12345678 :> 12345680
ChosenFiles == {"/data/file"}
AbsolutePaths == "" :> "/home" @@ "." :> "/home" @@ "uwrapc.log" :> "/home/uwrapc.log"
=============================================================================
