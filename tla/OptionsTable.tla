---------------------------- MODULE OptionsTable ----------------------------
(***************************************************************************)
(* The table of options (variable_metadata in metadata.c), the functions   *)
(* that say which options go together, and the defaults (set_defaults).    *)
(*                                                                         *)
(* An entry is known by its index in the C array, from 0.  Several entries *)
(* may have the same address: those of older versions (deprecated) stay in *)
(* the table so that old files can be read.  Real numbers are in           *)
(* hundredths, maps and vectors are opaque.                                *)
(***************************************************************************)
EXTENDS Integers, Sequences, Functions, TLC

Levels == <<"basic", "advanced", "testing">>

Entry(group, name, type, address, level, settable, deprecated) ==
    [path |-> <<group, name>>, type |-> type, address |-> address, level |-> level,
     settable |-> settable, deprecated |-> deprecated, list |-> <<>>, needs |-> "nothing"]

Group(name) == Entry("", name, "group", "none", "basic", TRUE, FALSE)
Opt(level, group, name, type, address) ==
    Entry(group, name, type, address, level, TRUE, FALSE)
Old(group, name, type, address) == Entry(group, name, type, address, "basic", TRUE, TRUE)
\* An entry that cannot be set before a run.
Unset(group, name, type, address) ==
    Entry(group, name, type, address, "basic", FALSE, FALSE)

\* list_valid_names with list_valid_values, dependencies.
Of(entry, list) == [entry EXCEPT !.list = list]
When(entry, needs) == [entry EXCEPT !.needs = needs]
Choice(name, value) == [name |-> name, value |-> value, level |-> "basic"]
InTesting(name, value) == [name |-> name, value |-> value, level |-> "testing"]

\* metadata.c 0 to 9
Entries0 == <<
    Group("ROOT"),
    Group("input_data"),
    Old("", "amplitudes_file", "file", "diffraction_filename"),
    Group("initial_support"),
    When(Old("", "patterson_threshold", "real", "init_level"),
        "patterson_algorithm_fixed"),
    Old("", "beta", "real", "beta"),
    Old("", "innerloop_iterations", "int", "iterations"),
    Old("", "fixed_support_mask", "file", "support_mask_filename"),
    Old("", "initial_support_image", "file", "init_support_filename"),
    Old("", "image_guess", "file", "image_guess_filename")>>

\* metadata.c 10 to 19
Entries10 == <<
    Old("", "added_noise", "real", "noise"),
    Old("", "beamstop_radius", "real", "beamstop"),
    Old("", "support_intensity_threshold", "real", "new_level"),
    Old("", "iterations_to_min_blur", "int", "iterations_to_min_blur"),
    Of(Old("", "blur_radius_reduction_method", "choice",
        "blur_radius_reduction_method"), <<Choice("gaussian", 0), Choice("geometrical",
        1)>>),
    Old("", "minimum_blur_radius", "real", "min_blur"),
    Group("logging"),
    Unset("", "commandline", "string", "commandline"),
    Old("", "output_period", "int", "output_period"),
    Old("", "log_output_period", "int", "log_output_period")>>

\* metadata.c 20 to 30
Entries20 == <<
    Group("phasing_method"),
    Old("", "RAAR_sigma", "real", "exp_sigma"),
    Old("", "dynamic_beta", "real", "dyn_beta"),
    Old("", "random_initial_phases", "bool", "rand_phases"),
    Old("", "random_initial_intensities", "bool", "rand_intensities"),
    Unset("", "cur_iteration", "int", "cur_iteration"),
    Old("", "adapt_thres", "bool", "adapt_thres"),
    Old("", "automatic", "bool", "dyn_beta"),
    Opt("basic", "logging", "work_directory", "directory", "work_dir"),
    Old("", "support_real_error_threshold", "real", "real_error_threshold"),
    Group("support_update_method")>>

\* metadata.c 31 to 42
Entries31 == <<
    Old("", "output_precision", "int", "output_precision"),
    Old("", "error_reduction_iterations_after_loop", "int",
        "error_reduction_iterations_after_loop"),
    Old("", "enforce_positivity", "real", "enforce_positivity"),
    Old("", "enforce_real", "int", "enforce_real"),
    Old("", "genetic_optimization", "bool", "genetic_optimization"),
    Old("", "charge_flip_sigma", "real", "charge_flip_sigma"),
    Old("", "rescale_amplitudes", "bool", "rescale_amplitudes"),
    Old("", "square_mask", "real", "square_mask"),
    Old("", "patterson_blur_radius", "real", "patterson_blur_radius"),
    Old("", "remove_central_pixel_phase", "bool", "remove_central_pixel_phase"),
    Old("", "perturb_weak_reflections", "real", "perturb_weak_reflections"),
    Opt("advanced", "", "nthreads", "int", "nthreads")>>

\* metadata.c 43 to 54
Entries43 == <<
    Old("", "break_centrosym_period", "int", "break_centrosym_period"),
    Unset("", "reconstruction_finished", "bool", "reconstruction_finished"),
    Old("", "real_error_tolerance", "real", "real_error_tolerance"),
    Of(Opt("advanced", "", "max_iterations", "int", "max_iterations"),
        <<Choice("Infinity", 0)>>),
    Of(Old("", "patterson_level_algorithm", "choice", "patterson_level_algorithm"),
        <<Choice("fixed", 0), Choice("stepped", 2), Choice("real_error_capped", 3),
        Choice("real_error_adaptative", 4), Choice("constant_area", 5),
        Choice("decreasing_area", 6)>>),
    Old("", "object_area", "real", "object_area"),
    Old("", "image_blur_period", "int", "image_blur_period"),
    Old("", "image_blur_radius", "real", "image_blur_radius"),
    Old("", "iterations_to_min_object_area", "int", "iterations_to_min_object_area"),
    Old("", "min_object_area", "real", "min_object_area"),
    Unset("", "current_real_space_image", "image", "current_real_space_image"),
    Unset("", "current_support", "image", "current_support")>>

\* metadata.c 55 to 66
Entries55 == <<
    Opt("testing", "input_data", "solution_file", "file", "solution_filename"),
    Old("", "phases_min_blur_radius", "real", "phases_min_blur_radius"),
    Old("", "phases_max_blur_radius", "real", "phases_max_blur_radius"),
    Old("", "iterations_to_min_phases_blur", "int", "iterations_to_min_phases_blur"),
    Old("", "intensities_std_dev_file", "file", "intensities_std_dev_filename"),
    Old("", "autocorrelation_support_file", "file", "autocorrelation_support_filename"),
    Old("", "filter_intensities", "bool", "filter_intensities"),
    Old("", "object_area_checkpoints", "vector", "object_area_checkpoints"),
    Old("", "object_area_at_checkpoints", "vector", "object_area_at_checkpoints"),
    Old("", "beta_checkpoints", "vector", "beta_checkpoints"),
    Old("", "beta_at_checkpoints", "vector", "beta_at_checkpoints"),
    When(Old("", "gamma1", "real", "gamma1"), "diff_map")>>

\* metadata.c 67 to 76
Entries67 == <<
    Old("", "gamma2", "real", "gamma2"),
    Old("", "support_image_averaging", "int", "support_image_averaging"),
    Of(Opt("advanced", "", "random_seed", "int", "random_seed"), <<Choice("auto", -1)>>),
    Of(Opt("testing", "input_data", "added_noise", "real", "noise"), <<Choice("off",
        0)>>),
    Of(Opt("testing", "input_data", "beamstop_radius", "real", "beamstop"),
        <<Choice("off", 0)>>),
    Old("support_update_method", "maximum_blur_radius", "real", "max_blur_radius"),
    Opt("advanced", "support_update_method", "fixed_support_mask", "file",
        "support_mask_filename"),
    Opt("basic", "initial_support", "initial_support_image", "file",
        "init_support_filename"),
    When(Opt("basic", "support_update_method", "support_intensity_threshold", "real",
        "new_level"), "support_algorithm_with_threshold"),
    Opt("testing", "phasing_method", "adapt_thres", "bool", "adapt_thres")>>

\* metadata.c 77 to 86
Entries77 == <<
    When(Opt("basic", "support_update_method", "blur", "map", "support_blur_evolution"),
        "support_algorithm_with_blur"),
    Of(Old("support_update_method", "blur_radius_reduction_method", "choice",
        "blur_radius_reduction_method"), <<Choice("gaussian", 0), Choice("geometrical",
        1)>>),
    Old("support_update_method", "minimum_blur_radius", "real", "min_blur"),
    When(Opt("testing", "phasing_method", "RAAR_sigma", "real", "exp_sigma"),
        "phasing_algorithm_is_raar"),
    Of(Old("phasing_method", "dynamic_beta", "real", "dyn_beta"), <<Choice("off", 0)>>),
    Group("initial_image"),
    Opt("basic", "initial_image", "image_guess", "file", "image_guess_filename"),
    When(Of(Old("initial_image", "initial_phases", "choice", "rand_phases"),
        <<Choice("support", 0), Choice("zero", 1), Choice("random", 2)>>),
        "no_realspace_image_file"),
    When(Old("initial_image", "random_initial_intensities", "bool", "rand_intensities"),
        "no_realspace_image_file"),
    When(Of(Opt("testing", "support_update_method", "support_real_error_threshold",
        "real", "real_error_threshold"), <<Choice("auto", -100)>>),
        "support_algorithm_with_real_error_threshold")>>

\* metadata.c 87 to 96
Entries87 == <<
    Opt("advanced", "support_update_method",
        "error_reduction_iterations_in_support_update", "int",
        "error_reduction_iterations_in_support_update"),
    When(Opt("basic", "phasing_method", "enforce_positivity", "bool",
        "enforce_positivity"), "phasing_algorithm_with_positivity"),
    When(Opt("basic", "phasing_method", "enforce_real", "bool", "enforce_real"),
        "phasing_algorithm_with_enforce_real"),
    When(Opt("testing", "phasing_method", "charge_flip_sigma", "real",
        "charge_flip_sigma"), "phasing_algorithm_is_cflip"),
    When(Opt("testing", "phasing_method", "espresso_tau", "real", "espresso_tau"),
        "phasing_algorithm_is_espresso"),
    Old("", "real_image_file", "file", "real_image_filename"),
    Opt("testing", "initial_image", "rescale_initial_image", "bool",
        "rescale_amplitudes"),
    Opt("testing", "phasing_method", "remove_central_pixel_phase", "bool",
        "remove_central_pixel_phase"),
    When(Of(Opt("basic", "phasing_method", "perturb_weak_reflections", "real",
        "perturb_weak_reflections"), <<Choice("No", 0)>>),
        "phasing_algorithm_with_perturb_reflections"),
    When(Of(Opt("basic", "initial_support", "autocorrelation_algorithm", "choice",
        "patterson_level_algorithm"), <<Choice("threshold", 0), Choice("area", 5)>>),
        "initial_support_from_autocorrelation")>>

\* metadata.c 97 to 106
Entries97 == <<
    When(Opt("basic", "support_update_method", "object_area", "map",
        "object_area_evolution"), "support_algorithm_with_area"),
    Of(Opt("advanced", "support_update_method", "square_mask", "real", "square_mask"),
        <<Choice("off", 0)>>),
    When(Of(Opt("advanced", "initial_support", "autocorrelation_blur_radius", "real",
        "patterson_blur_radius"), <<Choice("off", 0)>>),
        "patterson_algorithm_constant_area"),
    Of(Opt("testing", "phasing_method", "real_error_tolerance", "real",
        "real_error_tolerance"), <<Choice("off", -100)>>),
    Of(Opt("advanced", "phasing_method", "image_blur_period", "int",
        "image_blur_period"), <<Choice("off", 0)>>),
    Opt("advanced", "phasing_method", "image_blur_radius", "real", "image_blur_radius"),
    When(Old("support_update_method", "iterations_to_min_object_area", "int",
        "iterations_to_min_object_area"), "support_algorithm_with_changing_area"),
    When(Old("support_update_method", "min_object_area", "real", "min_object_area"),
        "support_algorithm_with_changing_area"),
    Old("", "logfile", "file", "log_file"),
    Opt("basic", "logging", "logfile", "file", "log_file")>>

\* metadata.c 107 to 116
Entries107 == <<
    Opt("basic", "logging", "output_period", "int", "output_period"),
    Opt("basic", "logging", "log_output_period", "int", "log_output_period"),
    Of(Opt("testing", "logging", "output_precision", "choice", "output_precision"),
        <<Choice("32", 4), Choice("64", 8)>>),
    Old("phasing_method", "phases_min_blur_radius", "real", "phases_min_blur_radius"),
    Old("phasing_method", "phases_max_blur_radius", "real", "phases_max_blur_radius"),
    Opt("testing", "phasing_method", "phases_blur", "map", "phases_blur_evolution"),
    When(Opt("testing", "input_data", "intensities_std_dev_file", "file",
        "intensities_std_dev_filename"), "amplitudes_file"),
    Opt("testing", "input_data", "autocorrelation_support_file", "file",
        "autocorrelation_support_filename"),
    Opt("advanced", "support_update_method", "filter_intensities", "bool",
        "filter_intensities"),
    When(Of(Opt("basic", "phasing_method", "gamma1", "real", "gamma1"), <<Choice("auto",
        -1000000)>>), "diff_map")>>

\* metadata.c 117 to 126
Entries117 == <<
    When(Of(Opt("basic", "phasing_method", "gamma2", "real", "gamma2"), <<Choice("auto",
        -1000000)>>), "diff_map"),
    Of(Opt("testing", "support_update_method", "support_image_averaging", "int",
        "support_image_averaging"), <<Choice("off", 1)>>),
    When(Opt("basic", "input_data", "intensities_file", "file", "diffraction_filename"),
        "no_realspace_image_file"),
    When(Opt("basic", "initial_support", "autocorrelation_threshold", "real",
        "init_level"), "patterson_algorithm_fixed"),
    When(Opt("testing", "input_data", "real_image_file", "file", "real_image_filename"),
        "no_amplitudes_file"),
    Of(Opt("basic", "phasing_method", "algorithm", "choice", "algorithm"),
        <<Choice("hio", 0), Choice("raar", 1), Choice("diff_map", 2), InTesting("hpr",
        3), InTesting("cflip", 4), InTesting("raar_cflip", 5), InTesting("espresso", 6),
        InTesting("haar", 7), InTesting("so2d", 8), InTesting("raar_proj", 9),
        InTesting("hio_proj", 10)>>),
    Of(Old("", "algorithm", "choice", "algorithm"), <<Choice("hio", 0), Choice("raar",
        1), Choice("hpr", 3), Choice("cflip", 4), Choice("raar_cflip", 5),
        Choice("espresso", 6), Choice("haar", 7), Choice("so2d", 8), Choice("raar_proj",
        9), Choice("hio_proj", 10), Choice("diff_map", 2)>>),
    Of(Opt("basic", "support_update_method", "support_update_algorithm", "choice",
        "support_update_algorithm"), <<Choice("threshold", 0), Choice("static", 1),
        InTesting("stepped", 2), InTesting("real_error_capped", 3),
        InTesting("real_error_adaptative", 4), InTesting("constant_area", 5),
        Choice("area", 6), InTesting("complex_decreasing_area", 7),
        Choice("template_area", 8)>>),
    Of(Old("", "support_update_algorithm", "choice", "support_update_algorithm"),
        <<Choice("fixed", 0), Choice("stepped", 2), Choice("real_error_capped", 3),
        Choice("real_error_adaptative", 4), Choice("constant_area", 5),
        Choice("decreasing_area", 6), Choice("complex_decreasing_area", 7)>>),
    When(Opt("basic", "initial_support", "autocorrelation_area", "real",
        "autocorrelation_area"), "patterson_algorithm_constant_area")>>

\* metadata.c 127 to 136
Entries127 == <<
    When(Opt("basic", "phasing_method", "beta", "map", "beta_evolution"),
        "phasing_algorithm_with_beta"),
    Opt("advanced", "support_update_method", "innerloop_iterations", "int",
        "iterations"),
    Opt("advanced", "logging", "remote_work_directory", "string", "remote_work_dir"),
    Opt("advanced", "logging", "save_remote_files", "bool", "save_remote_files"),
    When(Opt("basic", "support_update_method", "template_blur_radius", "real",
        "template_blur_radius"), "support_algorithm_with_template"),
    When(Opt("basic", "support_update_method", "template_area", "map",
        "template_area_evolution"), "support_algorithm_with_template"),
    Opt("advanced", "", "debug_level", "int", "debug_level"),
    Old("", "max_blur_radius", "real", "max_blur_radius"),
    When(Opt("testing", "phasing_method", "enforce_centrosymmetry", "bool",
        "enforce_centrosymmetry"), "phasing_algorithm_with_positivity"),
    Opt("testing", "support_update_method", "support_closure_radius", "int",
        "support_closure_radius")>>

\* metadata.c 137 to 141
Entries137 == <<
    When(Of(Opt("basic", "initial_image", "realspace_starting_point", "choice",
        "realspace_starting_point"), <<Choice("random phases", 0),
        Choice("random density", 1), Choice("zero phases", 2),
        Choice("starting support", 3)>>), "no_realspace_image_file"),
    When(Opt("advanced", "phasing_method", "enforce_ramp", "bool", "enforce_ramp"),
        "phasing_algorithm_with_enforce_real"),
    When(Opt("basic", "support_update_method", "center_image", "bool", "center_image"),
        "support_algorithm_with_area"),
    Of(Opt("advanced", "", "phasing_engine", "choice", "phasing_engine"),
        <<Choice("automatic", 0), Choice("cpu", 1), Choice("cuda", 2)>>),
    Of(Opt("advanced", "phasing_method", "output_projection", "choice",
        "output_projection"), <<Choice("project_intensities", 0),
        Choice("no_projection", 1)>>)>>

variable_metadata ==
    Entries0 \o Entries10 \o Entries20 \o Entries31 \o Entries43 \o
    Entries55 \o Entries67 \o Entries77 \o Entries87 \o Entries97 \o
    Entries107 \o Entries117 \o Entries127 \o Entries137

-----------------------------------------------------------------------------
\* Phasing_Algorithms and Support_Update_Algorithms, by value.
HIO == 0
RAAR == 1
DIFF_MAP == 2
HPR == 3
CFLIP == 4
ESPRESSO == 6
RAAR_PROJ == 9
HIO_PROJ == 10
FIXED == 0
CONSTANT_AREA == 5

\* depends_on_...: does the entry go with the other options?
Depends(needs, opt) ==
    LET algorithm == opt["algorithm"]
        update == opt["support_update_algorithm"]
        fromAutocorrelation == opt["init_support_filename"] = ""
    IN CASE needs = "nothing" -> TRUE
         [] needs = "diff_map" -> algorithm = DIFF_MAP
         [] needs = "initial_support_from_autocorrelation" -> fromAutocorrelation
         [] needs = "amplitudes_file" -> opt["diffraction_filename"] # ""
         [] needs = "no_amplitudes_file" -> opt["diffraction_filename"] = ""
         [] needs = "no_realspace_image_file" -> opt["image_guess_filename"] = ""
         [] needs = "patterson_algorithm_fixed" ->
                fromAutocorrelation /\ opt["patterson_level_algorithm"] = FIXED
         [] needs = "patterson_algorithm_constant_area" ->
                fromAutocorrelation /\ opt["patterson_level_algorithm"] = CONSTANT_AREA
         [] needs = "phasing_algorithm_is_cflip" -> algorithm = CFLIP
         [] needs = "phasing_algorithm_is_espresso" -> algorithm = ESPRESSO
         [] needs = "phasing_algorithm_is_raar" -> algorithm = RAAR
         [] needs \in {"phasing_algorithm_with_positivity",
                       "phasing_algorithm_with_enforce_real"} ->
                algorithm \in {RAAR, HIO, HPR, CFLIP, DIFF_MAP}
         [] needs = "phasing_algorithm_with_beta" ->
                algorithm \in {RAAR, HIO, HPR, RAAR_PROJ, HIO_PROJ, DIFF_MAP, ESPRESSO}
         [] needs = "phasing_algorithm_with_perturb_reflections" ->
                algorithm \in {RAAR, CFLIP}
         [] needs = "support_algorithm_with_threshold" -> update \in {0, 2}
         [] needs = "support_algorithm_with_area" -> update \in {5, 6, 7}
         [] needs = "support_algorithm_with_changing_area" -> update \in {6, 7}
         [] needs = "support_algorithm_with_real_error_threshold" -> update \in {3, 4}
         [] needs = "support_algorithm_with_template" -> update = 8
         [] needs = "support_algorithm_with_blur" -> update # 8

-----------------------------------------------------------------------------
Addresses == {m.address : m \in Range(variable_metadata)} \ {"none"}
TypesOf(a) == {m.type : m \in {n \in Range(variable_metadata) : n.address = a}}
IsPath(a) == TypesOf(a) \cap {"file", "directory", "string"} # {}
IsOpaque(a) == TypesOf(a) \cap {"map", "vector", "image"} # {}

\* The values set_defaults gives that are not 0, "" or an empty pointer.
NumberDefaults ==
    [max_blur_radius |-> 300, init_level |-> 4, beta |-> 90, iterations |-> 20,
     new_level |-> 20, min_blur |-> 70, output_period |-> 100,
     log_output_period |-> 20, support_update_algorithm |-> 6,
     real_error_threshold |-> -100, iterations_to_min_blur |-> 7000,
     output_precision |-> 4, charge_flip_sigma |-> 5, espresso_tau |-> 5,
     rescale_amplitudes |-> 1, nthreads |-> 1, real_error_tolerance |-> -100,
     gamma1 |-> -1000000, gamma2 |-> -1000000, support_image_averaging |-> 1,
     random_seed |-> -1, autocorrelation_area |-> 10, template_blur_radius |-> 500]
PathDefaults == [work_dir |-> ".", log_file |-> "uwrapc.log"]

\* Options set_defaults does not mention: they keep the value they have, 0 at
\* the start of a program.
NotInDefaults == {"enforce_real", "enforce_centrosymmetry", "perturb_weak_reflections",
                  "error_reduction_iterations_after_loop", "commandline",
                  "current_real_space_image", "current_support"}

Zeroed == [a \in Addresses |-> IF IsPath(a) THEN "" ELSE IF IsOpaque(a) THEN "none" ELSE 0]

Maps == {a \in Addresses : "map" \in TypesOf(a)}

set_defaults(opt) ==
    [a \in Addresses |->
        IF a \in DOMAIN NumberDefaults THEN NumberDefaults[a]
        ELSE IF a \in DOMAIN PathDefaults THEN PathDefaults[a]
        ELSE IF a \in NotInDefaults THEN opt[a]
        ELSE IF a \in Maps THEN "default map"
        ELSE Zeroed[a]]

Defaults == set_defaults(Zeroed)
=============================================================================
