----------------------------- MODULE CryoTempo -----------------------------
(***************************************************************************)
(* One L1b file on its way through the algorithms of the Cryo-TEMPO land   *)
(* ice chain (src/src/clev2er/algorithms/cryotempo/).  Every algorithm is  *)
(* an action: it reads the L1b file, the configuration and the keys that   *)
(* earlier algorithms left in shared_dict, and either adds keys and passes *)
(* the file on, or ends the file with a skip, an error or an exception.    *)
(*                                                                         *)
(* A track has the records 1..NumRecords.  An array of the dictionary is a *)
(* function on the records, or the set of the records where it is true or  *)
(* finite; what a mask, a waveform test, a retracker or a geolocation      *)
(* finds in a record is chosen freely.                                     *)
(***************************************************************************)
EXTENDS Integers, Sequences

CONSTANTS
    NumRecords,   \* number of 20Hz records of the file
    Latitudes,    \* latitudes (degrees) a record can have
    TrackStep,    \* largest change of latitude from one record to the next
    Modes,        \* values of sir_op_mode
    Surfaces,     \* Bedmachine surface values a record can lie on
    Options,      \* settings of the chain's config: records of booleans
    Chains        \* algorithm lists a file can be processed with

Records == 1..NumRecords

(* Options that are set, and settings that are left out.                   *)
OptionNames == {"grn_only", "ais_only", "lrm_only", "sin_only",
                "no_height_limits", "no_max_diff", "no_product_output"}

(* The algorithm lists of baseline D and of baseline B, which has another  *)
(* algorithm at place 12, and one with the LEPTA geolocation there and the *)
(* dump of the dictionary, two algorithms in neither baseline's list.      *)
D001 ==
    <<"alg_identify_file", "alg_skip_on_mode", "alg_skip_on_area_bounds",
      "alg_surface_type", "alg_dilated_coastal_mask",
      "alg_fes2014b_tide_correction", "alg_cats2008a_tide_correction",
      "alg_geo_corrections", "alg_waveform_quality", "alg_retrack", "alg_backscatter",
      "alg_geolocate_roemer", "alg_geolocate_sin", "alg_basin_ids", "alg_ref_dem",
      "alg_filter_height", "alg_uncertainty", "alg_product_output">>

B001 == [D001 EXCEPT ![12] = "alg_geolocate_lrm"]
LeptaList == Append([D001 EXCEPT ![12] = "alg_geolocate_lepta"], "alg_dump")

ASSUME SizesAssumption ==
    /\ NumRecords \in Nat \ {0}
    /\ Latitudes \subseteq -90..90
    /\ TrackStep \in Nat
    /\ Modes \subseteq {"LRM", "SAR", "SIN", "invalid"}
    /\ Surfaces \subseteq 0..4
ASSUME ConfigAssumption ==
    /\ Options \subseteq [OptionNames -> BOOLEAN]
    /\ Chains \subseteq {D001, B001, LeptaList}

VARIABLES
    config,       \* self.config, the settings that steer the algorithms
    l1b,          \* the input file: mode, latitude and surface of every record
    chain,        \* the algorithm list
    pos,          \* index of the algorithm to call next
    shared_dict,  \* the dictionary handed from algorithm to algorithm
    outcome,      \* "running", how the file ended, or the exception
    product       \* the product file on disk: "none", "partial" or "complete"

vars == <<config, l1b, chain, pos, shared_dict, outcome, product>>

Exceptions == {"KeyError", "ValueError", "ZeroDivisionError", "AttributeError", "TypeError"}
WriteFailures == {"FileNotFoundError", "RuntimeError"}   \* no git; the disk is full
Outcomes == {"running", "ok", "skip", "error", "no hemisphere", "no key"}
              \cup Exceptions \cup WriteFailures
-----------------------------------------------------------------------------
(* Calling an algorithm.                                                   *)

Has(key) == key \in DOMAIN shared_dict

Tracks ==
    {t \in [Records -> Latitudes] :
        \A r \in 1..NumRecords - 1 : t[r + 1] - t[r] \in -TrackStep..TrackStep}

Init ==
    /\ config \in Options
    /\ l1b \in [mode : Modes, lats : Tracks, surface : [Records -> Surfaces]]
    /\ chain \in Chains
    /\ pos = 1
    /\ shared_dict = [l1b_file_name |-> "file"]
    /\ outcome = "running"
    /\ product = "none"

(* Entries of update replace or join those of the dictionary.              *)
Updated(dict, update) ==
    [k \in DOMAIN update \cup DOMAIN dict |->
        IF k \in DOMAIN update THEN update[k] ELSE dict[k]]

Calls(alg) == outcome = "running" /\ chain[pos] = alg

Returns(update) ==
    /\ shared_dict' = Updated(shared_dict, update)
    /\ pos' = IF pos < Len(chain) THEN pos + 1 ELSE pos
    /\ outcome' = IF pos < Len(chain) THEN "running" ELSE "ok"

PassesThrough ==
    /\ pos' = IF pos < Len(chain) THEN pos + 1 ELSE pos
    /\ outcome' = IF pos < Len(chain) THEN "running" ELSE "ok"
    /\ UNCHANGED shared_dict

StopsAfter(update, how) ==
    /\ shared_dict' = Updated(shared_dict, update)
    /\ outcome' = how
    /\ UNCHANGED pos

Stops(how) == outcome' = how /\ UNCHANGED <<pos, shared_dict>>

(* An algorithm that reads a key no earlier algorithm stored raises a      *)
(* KeyError.                                                               *)
Reading(keys, body) ==
    IF keys \subseteq DOMAIN shared_dict THEN body ELSE Stops("KeyError")

(* Or it looks for the key first, and its absence is a returned error.     *)
Looking(keys, body) ==
    IF keys \subseteq DOMAIN shared_dict THEN body ELSE Stops("no key")

Fixed == UNCHANGED <<config, l1b, chain, product>>
-----------------------------------------------------------------------------
(* Which files are wanted.                                                 *)

IdentifyFile ==
    /\ Calls("alg_identify_file")
    /\ \/ Stops("error")                                  \* no lat_20_ku
       \/ /\ l1b.mode = "invalid"
          /\ StopsAfter([num_20hz_records |-> NumRecords], "error")
       \/ /\ l1b.mode # "invalid"
          /\ Returns([num_20hz_records |-> NumRecords, instr_mode |-> l1b.mode])
    /\ Fixed

SkipOnMode ==
    /\ Calls("alg_skip_on_mode")
    /\ Looking({"instr_mode"},
         LET mode == shared_dict["instr_mode"] IN
           \/ /\ \/ mode = "SAR"
                 \/ config["lrm_only"] /\ mode # "LRM"
                 \/ config["sin_only"] /\ mode # "SIN"
              /\ Stops("skip")
           \/ /\ mode # "SAR"
              /\ config["lrm_only"] => mode = "LRM"
              /\ config["sin_only"] => mode = "SIN"
              /\ PassesThrough)
    /\ Fixed

OutsideCryosphere(mode, firstLat) ==
    \/ mode = "LRM" /\ 62 > firstLat /\ firstLat > -69
    \/ mode = "SIN" /\ 58 > firstLat /\ firstLat > -59

(* The first record beyond 55 degrees decides; "none" if there is none.    *)
Hemisphere(lats) ==
    LET polar == {r \in Records : lats[r] < -55 \/ lats[r] > 55}
        first == CHOOSE r \in polar : \A q \in polar : r <= q
    IN  IF polar = {} THEN "none"
        ELSE IF lats[first] < -55 THEN "south" ELSE "north"

SkipOnAreaBounds ==
    /\ Calls("alg_skip_on_area_bounds")
    /\ \/ Stops("error")                              \* no first_record_lat
       \/ Looking({"instr_mode"},
            LET hemisphere == Hemisphere(l1b.lats)
                located == [hemisphere |-> hemisphere,
                            lats_nadir |-> l1b.lats, lons_nadir |-> l1b.lats]
            IN  IF OutsideCryosphere(shared_dict["instr_mode"], l1b.lats[1])
                THEN Stops("skip")
                ELSE IF hemisphere = "none"
                THEN Stops("no hemisphere")
                ELSE \/ hemisphere = "north" /\ StopsAfter(located, "skip") \* none over Greenland
                     \/ /\ hemisphere = "south" /\ config["grn_only"]
                        /\ StopsAfter(located, "skip")
                     \/ /\ ~(hemisphere = "south" /\ config["grn_only"])
                        /\ Returns(located))
    /\ Fixed

(* Bedmachine values 0 ocean, 1 ice free land, 2 grounded, 3 floating,     *)
(* 4 Lake Vostok (south) or land other than Greenland (north) become       *)
(* 0 ocean, 1 grounded, 2 floating, 3 ice free land, 4 other land.         *)
CryoTempoSurface(value, hemisphere) ==
    CASE value = 1 -> 3
      [] value = 2 -> 1
      [] value = 3 -> 2
      [] value = 4 /\ hemisphere = "south" -> 1
      [] OTHER -> value

NoIceOrLand(mask) == \A r \in Records : mask[r] \notin {1, 2, 3}

Surface(type) ==
    LET Locations(t) == {r \in Records : type[r] = t} IN
    [cryotempo_surface_type |-> type,
     ocean_locations        |-> Locations(0),
     grounded_ice_locations |-> Locations(1),
     floating_ice_locations |-> Locations(2),
     icefree_land_locations |-> Locations(3),
     non_grn_land_locations |-> Locations(4)]

(* Mutant for TideOnce: the locations are found before the values of the   *)
(* mask are recoded.                                                       *)
SurfaceTypeUnrecoded ==
    /\ Calls("alg_surface_type")
    /\ ~NoIceOrLand(l1b.surface)
    /\ Returns([Surface(l1b.surface) EXCEPT !["cryotempo_surface_type"] =
                   [r \in Records |-> CryoTempoSurface(l1b.surface[r],
                                                       shared_dict["hemisphere"])]])
    /\ Fixed

SurfaceType ==
    /\ Calls("alg_surface_type")
    /\ Reading({"hemisphere", "lats_nadir", "lons_nadir", "num_20hz_records"},
         LET hem == shared_dict["hemisphere"] IN
           IF hem = "south" /\ config["grn_only"]  \* no Antarctic mask is loaded
           THEN Stops("skip")
           ELSE \/ NoIceOrLand(l1b.surface) /\ Stops("skip")
                \/ /\ ~NoIceOrLand(l1b.surface)
                   /\ Returns(Surface([r \in Records |-> CryoTempoSurface(l1b.surface[r], hem)])))
    /\ Fixed

DilatedCoastalMask ==
    /\ Calls("alg_dilated_coastal_mask")
    /\ Looking({"hemisphere"},
         Reading({"lats_nadir", "lons_nadir", "num_20hz_records"},
           IF shared_dict["hemisphere"] = "south" /\ config["grn_only"]
           THEN Stops("skip")
           ELSE \E inside \in SUBSET Records :
                  \/ inside = {} /\ Stops("skip")
                  \/ inside # {} /\ Returns([dilated_surface_mask |-> inside])))
    /\ Fixed
-----------------------------------------------------------------------------
(* Corrections to the range.                                               *)

(* The file of tides computed beforehand for this L1b file is read, or is  *)
(* missing, unreadable or of another length.                               *)
Fes2014bTideCorrection ==
    /\ Calls("alg_fes2014b_tide_correction")
    /\ Reading({"l1b_file_name", "instr_mode", "num_20hz_records"},
         \/ Stops("error")
         \/ Returns([fes2014b_corrections |-> "tides"]))
    /\ Fixed

CatsTideRequired ==
    /\ shared_dict["hemisphere"] # "north"
    /\ shared_dict["instr_mode"] = "SIN"
    /\ shared_dict["floating_ice_locations"] \cup shared_dict["ocean_locations"] # {}

(* Mutant for KeysInOrder: cats_tide_required is only stored when it       *)
(* is true.                                                                *)
Cats2008aTideCorrectionNoDefault ==
    /\ Calls("alg_cats2008a_tide_correction")
    /\ \/ ~CatsTideRequired /\ PassesThrough
       \/ CatsTideRequired /\ Returns([cats_tide_required |-> TRUE, cats_tide |-> "tide"])
    /\ Fixed

Cats2008aTideCorrection ==
    /\ Calls("alg_cats2008a_tide_correction")
    /\ Reading({"hemisphere", "instr_mode", "floating_ice_locations",
                "ocean_locations", "num_20hz_records"},
         \/ ~CatsTideRequired /\ Returns([cats_tide_required |-> FALSE])
         \/ /\ CatsTideRequired
            /\ \/ StopsAfter([cats_tide_required |-> FALSE], "error")
               \/ Returns([cats_tide_required |-> TRUE, cats_tide |-> "tide"]))
    /\ Fixed

LandCorrections == {"DRY", "WET", "GIM", "OLT", "SET", "GPT"}

OceanCorrections ==
    IF shared_dict["hemisphere"] = "north" THEN {"DAC", "LPEOT", "OT"}
    ELSE IF shared_dict["instr_mode"] = "SIN" THEN {"DAC", "CATS"} ELSE {}

Times(condition) == IF condition THEN 1 ELSE 0

(* How often each correction is in the sum of record r: those of the ocean *)
(* are added over the floating ice and then again over the ocean.          *)
CorrectionsOf(r) ==
    [c \in LandCorrections \cup {"DAC", "LPEOT", "OT", "CATS"} |->
        Times(c \in LandCorrections)
          + Times(c \in OceanCorrections /\ r \in shared_dict["floating_ice_locations"])
          + Times(c \in OceanCorrections /\ r \in shared_dict["ocean_locations"])]

GeoCorrections ==
    /\ Calls("alg_geo_corrections")
    /\ Looking({"fes2014b_corrections"},
         Reading({"cats_tide_required", "hemisphere", "instr_mode",
                  "floating_ice_locations", "ocean_locations"},
           IF shared_dict["cats_tide_required"] /\ ~Has("cats_tide")
           THEN Stops("no key")
           ELSE \/ Stops("error")                    \* no tide variables in the file
                \/ LET cor == [r \in Records |-> CorrectionsOf(r)] IN
                     IF ~shared_dict["cats_tide_required"] /\ \E r \in Records : cor[r]["CATS"] > 0
                     THEN Stops("TypeError")          \* cats_tide is None
                     ELSE \E invalid \in SUBSET Records :
                            Returns([sum_cor_20_ku |-> cor, invalid_corrections_locs |-> invalid])))
    /\ Fixed
-----------------------------------------------------------------------------
(* Waveforms.                                                              *)

(* Mutant for RecordsSound: the dilated mask is not applied.               *)
WaveformQualityUnmasked ==
    /\ Calls("alg_waveform_quality")
    /\ \E waveforms_ok \in SUBSET Records : Returns([waveforms_to_include |-> waveforms_ok])
    /\ Fixed

WaveformQuality ==
    /\ Calls("alg_waveform_quality")
    /\ Reading({"instr_mode", "dilated_surface_mask"},
         \E waveforms_ok \in SUBSET Records :
            Returns([waveforms_to_include |->
                       waveforms_ok \cap shared_dict["dilated_surface_mask"]]))
    /\ Fixed

RetrackKeys == {"ind_wfm_retrack_20_ku", "pwr_at_rtrk_point", "leading_edge_start",
                "leading_edge_stop", "geo_corrected_tracker_range",
                "retracker_correction", "range_cor_20_ku", "num_retracker_failures",
                "percent_retracker_failure"}

(* The records whose waveform the retracker succeeds on, and of these the  *)
(* ones with a valid sum of corrections.                                   *)
Retrack ==
    /\ Calls("alg_retrack")
    /\ Reading({"instr_mode", "waveforms_to_include", "sum_cor_20_ku"},
         LET include == shared_dict["waveforms_to_include"] IN
           \/ include = {} /\ Stops("ZeroDivisionError")
           \/ /\ include # {}
              /\ \E retracked \in SUBSET include :
                   Returns([k \in RetrackKeys |->
                     CASE k = "range_cor_20_ku" ->
                            retracked \ shared_dict["invalid_corrections_locs"]
                       [] OTHER -> retracked]))
    /\ Fixed

Backscatter ==
    /\ Calls("alg_backscatter")
    /\ Reading({"pwr_at_rtrk_point", "range_cor_20_ku", "instr_mode"},
         IF shared_dict["instr_mode"] \in {"LRM", "SIN"}
         THEN Returns([sig0_20_ku |-> "sig0"])
         ELSE Stops("error"))
    /\ Fixed
-----------------------------------------------------------------------------
(* Geolocation.  The source of a location is "nadir", "poca" or "nan";     *)
(* height_20_ku is the set of the records with a finite height.            *)

Source(pocas, otherwise) ==
    [r \in Records |-> IF r \in pocas THEN "poca" ELSE otherwise]

(* The nadir in place of the records that failed.                          *)
Filled(location, failed) ==
    [r \in Records |-> IF r \in failed THEN "nadir" ELSE location[r]]

(* The POCA was found for the records of pocas.  The records without a     *)
(* latitude are given the nadir in both arrays, in place: lat_poca_20_ku   *)
(* is the array of the latitudes, lon_poca_20_ku a copy taken before (SIN) *)
(* or after.                                                               *)
Located(pocas, heights) ==
    LET lats == Source(pocas, "nan")
        lons == Source(pocas, "nan")
        failed == {r \in Records : lats[r] = "nan"}
    IN  [lat_poca_20_ku |-> Filled(lats, failed), lon_poca_20_ku |-> Filled(lons, failed),
         latitudes      |-> Filled(lats, failed), longitudes     |-> Filled(lons, failed),
         height_20_ku   |-> heights]

(* geolocate_roemer(): a record is relocated when the POCA is found in the *)
(* DEM, and has a height when it is grounded ice and was retracked.        *)
RoemerHeights(slope_ok) ==
    {r \in slope_ok \cap shared_dict["range_cor_20_ku"] :
        shared_dict["cryotempo_surface_type"][r] = 1}

SlopeReads == {"instr_mode", "hemisphere", "cryotempo_surface_type",
               "geo_corrected_tracker_range", "retracker_correction",
               "waveforms_to_include"}

GeolocateRoemer ==
    /\ Calls("alg_geolocate_roemer")
    /\ Reading(SlopeReads,
         \/ shared_dict["instr_mode"] # "LRM" /\ PassesThrough
         \/ /\ shared_dict["instr_mode"] = "LRM"
            /\ IF \/ shared_dict["hemisphere"] = "south" /\ config["grn_only"]
                  \/ shared_dict["hemisphere"] = "north" /\ config["ais_only"]
               THEN Stops("ValueError")                 \* thisdem is None
               ELSE \E slope_ok \in SUBSET shared_dict["waveforms_to_include"] :
                      Returns(Updated(Located(slope_ok, RoemerHeights(slope_ok)),
                                      [roemer_slope_ok |-> slope_ok,
                                       relocation_distance |-> slope_ok])))
    /\ Fixed

(* The LEPTA method does not look at the mode of the file.                 *)
GeolocateLepta ==
    /\ Calls("alg_geolocate_lepta")
    /\ Reading((SlopeReads \ {"instr_mode"}) \cup {"leading_edge_start", "leading_edge_stop"},
         IF shared_dict["hemisphere"] = "south" /\ config["grn_only"]
         THEN Stops("ValueError")
         ELSE \E slope_ok \in SUBSET shared_dict["waveforms_to_include"] :
                Returns(Updated(Located(slope_ok, RoemerHeights(slope_ok)),
                                [lepta_slope_ok |-> slope_ok])))
    /\ Fixed

(* The slope model of baseline B relocates grounded ice only; any other    *)
(* record keeps its nadir location and has a height without a correction.  *)
GeolocateLrm ==
    /\ Calls("alg_geolocate_lrm")
    /\ Reading({"instr_mode", "cryotempo_surface_type", "range_cor_20_ku"},
         LET ranged == shared_dict["range_cor_20_ku"]
             grounded == {r \in Records : shared_dict["cryotempo_surface_type"][r] = 1}
         IN  \/ shared_dict["instr_mode"] # "LRM" /\ PassesThrough
             \/ /\ shared_dict["instr_mode"] = "LRM"
                /\ \E sloped \in SUBSET (grounded \cap ranged) :
                     Returns(Located(sloped, sloped \cup (ranged \ grounded))))
    /\ Fixed

(* Here shared_dict["lon_poca_20_ku"] is copied before the nadir is filled *)
(* in and keeps its NaNs.                                                  *)
GeolocateSin ==
    /\ Calls("alg_geolocate_sin")
    /\ Reading({"instr_mode"},
         \/ shared_dict["instr_mode"] # "SIN" /\ PassesThrough
         \/ /\ shared_dict["instr_mode"] = "SIN"
            /\ Reading({"range_cor_20_ku", "ind_wfm_retrack_20_ku"},
                 IF l1b.lats[1] < 0 /\ config["grn_only"]
                 THEN Stops("AttributeError")           \* dem_ant is None
                 ELSE \E pocas \in SUBSET shared_dict["range_cor_20_ku"] :
                        Returns([Located(pocas, pocas) EXCEPT
                                   !["lon_poca_20_ku"] = Source(pocas, "nan")])))
    /\ Fixed
-----------------------------------------------------------------------------
(* Attributes of the located records, and the product.                     *)

BasinIds ==
    /\ Calls("alg_basin_ids")
    /\ Reading({"hemisphere", "latitudes", "longitudes"},
         IF shared_dict["hemisphere"] = "south" /\ config["grn_only"]
         THEN Stops("ValueError")
         ELSE LET south == shared_dict["hemisphere"] = "south" IN
                Returns([basin_mask_values_rignot   |-> "basins",
                         basin_mask_values_zwally   |-> IF south THEN "basins" ELSE "None",
                         basin_mask_values_mouginot |-> IF south THEN "None" ELSE "basins"]))
    /\ Fixed

(* With grn_only nothing of Antarctica is loaded: the values are None.     *)
ValuesHere(values) ==
    IF shared_dict["hemisphere"] = "south" /\ config["grn_only"] THEN "None" ELSE values

RefDem ==
    /\ Calls("alg_ref_dem")
    /\ Reading({"hemisphere", "latitudes", "longitudes"},
         Returns([dem_elevation_values |-> ValuesHere("elevations")]))
    /\ Fixed

FilterHeight ==
    /\ Calls("alg_filter_height")
    /\ Looking({"height_20_ku", "dem_elevation_values"},
         IF config["no_height_limits"]
         THEN Stops("error")
         ELSE LET height == shared_dict["height_20_ku"]
                  Fails(exception) == StopsAfter([height_filt |-> height], exception)
              IN  IF ~Has("instr_mode") \/ ~Has("hemisphere") THEN Fails("KeyError")
                  ELSE IF config["no_max_diff"] THEN Fails("ValueError")
                  ELSE IF shared_dict["dem_elevation_values"] = "None" THEN Fails("TypeError")
                  ELSE \E outliers \in SUBSET height : Returns([height_filt |-> height \ outliers]))
    /\ Fixed

Uncertainty ==
    /\ Calls("alg_uncertainty")
    /\ Reading({"hemisphere", "latitudes", "longitudes"},
         Returns([uncertainty |-> ValuesHere("uncertainty")]))
    /\ Fixed

ProductKeys == {"instr_mode", "l1b_file_name", "lats_nadir", "latitudes",
                "longitudes", "height_20_ku", "height_filt", "sig0_20_ku",
                "cryotempo_surface_type", "dem_elevation_values",
                "basin_mask_values_rignot", "uncertainty"}

BasinKey ==
    IF shared_dict["hemisphere"] = "south" THEN "basin_mask_values_zwally"
                                           ELSE "basin_mask_values_mouginot"

(* What happens between the creation of the file and its close: git is not *)
(* installed, the disk is full, a key is missing, None stands for an array *)
(* or the settings of the additional parameters are missing.               *)
WriteProduct ==
    \/ \E failure \in WriteFailures : Stops(failure)
    \/ Reading(ProductKeys \cup {BasinKey},
         IF "None" \in {shared_dict[k] : k \in {BasinKey, "dem_elevation_values", "uncertainty"}}
         THEN Stops("TypeError")
         ELSE IF config["no_product_output"] THEN Stops("KeyError")
         ELSE Returns([product_filename |-> "product"]))

(* The directory or the file cannot be created, or the product is written. *)
(* A failure leaves what was written under the name of the product.        *)
ProductOutput ==
    /\ Calls("alg_product_output")
    /\ IF ~Has("hemisphere") THEN Stops("KeyError") /\ UNCHANGED product
       ELSE \/ Stops("error") /\ UNCHANGED product
            \/ /\ WriteProduct
               /\ product' = IF outcome' \in {"running", "ok"} THEN "complete" ELSE "partial"
    /\ UNCHANGED <<config, l1b, chain>>

(* alg_dump prints the dictionary.                                         *)
Dump ==
    /\ Calls("alg_dump")
    /\ PassesThrough
    /\ Fixed

Next ==
    \/ IdentifyFile \/ SkipOnMode \/ SkipOnAreaBounds \/ SurfaceType \/ DilatedCoastalMask
    \/ Fes2014bTideCorrection \/ Cats2008aTideCorrection \/ GeoCorrections
    \/ WaveformQuality \/ Retrack \/ Backscatter
    \/ GeolocateRoemer \/ GeolocateLepta \/ GeolocateLrm \/ GeolocateSin
    \/ BasinIds \/ RefDem \/ FilterHeight \/ Uncertainty \/ ProductOutput \/ Dump

Spec == Init /\ [][Next]_vars
-----------------------------------------------------------------------------
(* Properties.                                                             *)

(* The position stays inside the list, the file ends in a known way, and   *)
(* what the later algorithms compute with are sets of records.             *)
TypeOK ==
    /\ config \in Options /\ chain \in Chains
    /\ pos \in 1..Len(chain)
    /\ outcome \in Outcomes
    /\ product \in {"none", "partial", "complete"}
    /\ \A k \in {"dilated_surface_mask", "waveforms_to_include", "range_cor_20_ku",
                 "height_20_ku", "height_filt"} \cap DOMAIN shared_dict :
           shared_dict[k] \subseteq Records

(* The ways to end that come of asking for what is not there.              *)
NotThere == (Exceptions \ {"ZeroDivisionError"}) \cup {"no key"}

(* No algorithm reads a key that is missing on some path through the       *)
(* algorithms before it, and none uses a mask or DEM that its init() did   *)
(* not load, whichever of mode, hemisphere and grn_only come together: the *)
(* skips come before the use.  The exceptions are the DEM of Greenland     *)
(* with ais_only, an option only alg_geolocate_roemer knows, and the two   *)
(* settings that process() reads without a test in init().                 *)
ReadsWhatExists ==
    outcome \in NotThere =>
        \/ /\ config["ais_only"] /\ chain[pos] = "alg_geolocate_roemer"
           /\ shared_dict["hemisphere"] = "north"
        \/ config["no_max_diff"] /\ chain[pos] = "alg_filter_height"
        \/ config["no_product_output"] /\ chain[pos] = "alg_product_output"

(* alg_skip_on_area_bounds never fails to find the hemisphere of a file    *)
(* that passed its latitude bounds: the bounds lie beyond 55 degrees.      *)
HemisphereFound == outcome # "no hemisphere"

(* alg_geo_corrections adds no correction twice to a record, although it   *)
(* adds those of the ocean over two lists of locations: an ocean tide with *)
(* the DAC where the record floats, from FES2014b in the north and from    *)
(* CATS2008a in the south, and neither where it does not float.  In the    *)
(* south only files of the SIN mode get a tide at all.                     *)
TideOnce ==
    Has("sum_cor_20_ku") =>
        \A r \in Records :
            LET cor == shared_dict["sum_cor_20_ku"][r]
                afloat == shared_dict["cryotempo_surface_type"][r] \in {0, 2}
                north == shared_dict["hemisphere"] = "north"
                sin == shared_dict["instr_mode"] = "SIN"
            IN  /\ \A c \in LandCorrections : cor[c] = 1
                /\ cor["OT"] = Times(afloat /\ north) /\ cor["LPEOT"] = cor["OT"]
                /\ cor["CATS"] = Times(afloat /\ ~north /\ sin)
                /\ cor["DAC"] = cor["OT"] + cor["CATS"]

(* Types, and no algorithm asks for what is not there: neither a key, nor  *)
(* a grid, nor a hemisphere.                                               *)
KeysInOrder == TypeOK /\ ReadsWhatExists /\ HemisphereFound

(* After the geolocation every record has a latitude and a longitude, both *)
(* of the POCA or both of the nadir, as the comments of the product's      *)
(* variables promise.                                                      *)
LocationsMatch ==
    Has("latitudes") =>
        \A r \in Records :
            /\ shared_dict["latitudes"][r] = shared_dict["longitudes"][r]
            /\ shared_dict["latitudes"][r] # "nan"

(* A height in the product belongs to a record inside the dilated mask,    *)
(* that passed the waveform tests and was retracked with valid             *)
(* corrections, at its POCA; only the slope model of baseline B keeps      *)
(* heights at the nadir, over anything but grounded ice.                   *)
HeightsEarned ==
    product = "complete" =>
        \A r \in shared_dict["height_filt"] :
            /\ r \in shared_dict["dilated_surface_mask"]
            /\ r \in shared_dict["waveforms_to_include"]
            /\ r \notin shared_dict["invalid_corrections_locs"]
            /\ \/ shared_dict["latitudes"][r] = "poca"
               \/ /\ chain = B001
                  /\ shared_dict["cryotempo_surface_type"][r] # 1

(* What the algorithms say of a record, location and height, is true of    *)
(* that record.                                                            *)
RecordsSound == LocationsMatch /\ HeightsEarned
=============================================================================
