-------------------------- MODULE CryoTempoProofs --------------------------
(***************************************************************************)
(* Proofs about CryoTempo, for files of any length, on any track, over any *)
(* surface and with any settings, processed by each of the three lists:    *)
(* the algorithms find what they read, no correction is added twice, and   *)
(* the records keep their decisions.                                       *)
(*                                                                         *)
(* KInv has a part for each algorithm: what is in shared_dict once it has  *)
(* run, and how the values are related.  An algorithm can only disturb the *)
(* parts about the keys that it stores (UpdateKeeps).                      *)
(***************************************************************************)
EXTENDS CryoTempo, TLAPS

LEMMA AppendFacts ==
    ASSUME NEW T, NEW t \in Seq(T), NEW x \in T
    PROVE  /\ Len(Append(t, x)) = Len(t) + 1 /\ Append(t, x)[Len(t) + 1] = x
           /\ \A i \in 1..Len(t) : Append(t, x)[i] = t[i]
  OBVIOUS

(* The place of an algorithm in the lists.                                 *)
LEMMA ListFacts ==
    /\ Len(D001) = 18 /\ Len(B001) = 18 /\ Len(LeptaList) = 19
    /\ \A i \in 1..18 : i # 12 => B001[i] = D001[i] /\ LeptaList[i] = D001[i]
    /\ D001[12] = "alg_geolocate_roemer" /\ B001[12] = "alg_geolocate_lrm"
    /\ LeptaList[12] = "alg_geolocate_lepta" /\ LeptaList[19] = "alg_dump"
<1> DEFINE Names == {D001[i] : i \in 1..18}
                      \cup {"alg_geolocate_lrm", "alg_geolocate_lepta", "alg_dump"}
<1>1. /\ D001 \in Seq(Names) /\ Len(D001) = 18 /\ D001[12] = "alg_geolocate_roemer"
      /\ D001 = [i \in 1..18 |-> D001[i]]
  <2>1. DOMAIN D001 = 1..18 /\ Len(D001) = 18 /\ D001[12] = "alg_geolocate_roemer"
    BY DEF D001
  <2>2. D001 = [i \in 1..18 |-> D001[i]]
    BY <2>1 DEF D001
  <2>3. \A i \in 1..18 : D001[i] \in Names
    OBVIOUS
  <2>4. D001 \in Seq(Names)
    <3> HIDE DEF Names
    <3> QED
      BY <2>2, <2>3
  <2> QED
    BY <2>1, <2>2, <2>4
<1>n. "alg_geolocate_lrm" \in Names /\ "alg_geolocate_lepta" \in Names /\ "alg_dump" \in Names
  OBVIOUS
<1> HIDE DEF Names
<1> DEFINE Replaced(alg) == [D001 EXCEPT ![12] = alg]
<1>2. ASSUME NEW alg \in Names
      PROVE  /\ Replaced(alg) \in Seq(Names) /\ Len(Replaced(alg)) = 18
             /\ Replaced(alg)[12] = alg
             /\ \A i \in 1..18 : i # 12 => Replaced(alg)[i] = D001[i]
  <2>1. Replaced(alg) = [i \in 1..18 |-> IF i = 12 THEN alg ELSE D001[i]]
    BY <1>1
  <2> HIDE DEF Replaced
  <2>2. \A i \in 1..18 : Replaced(alg)[i] \in Names
    BY <1>1, <2>1
  <2> QED
    BY <1>1, <2>1, <2>2
<1>3. /\ Len(B001) = 18 /\ B001[12] = "alg_geolocate_lrm"
      /\ \A i \in 1..18 : i # 12 => B001[i] = D001[i]
  BY <1>n, <1>2 DEF B001
<1>4. /\ Len(LeptaList) = 19 /\ LeptaList[12] = "alg_geolocate_lepta"
      /\ LeptaList[19] = "alg_dump"
      /\ \A i \in 1..18 : i # 12 => LeptaList[i] = D001[i]
  <2> DEFINE s == Replaced("alg_geolocate_lepta")
  <2>1. s \in Seq(Names) /\ Len(s) = 18 /\ s[12] = "alg_geolocate_lepta"
        /\ \A i \in 1..18 : i # 12 => s[i] = D001[i]
    BY <1>n, <1>2
  <2>2. LeptaList = Append(s, "alg_dump")
    BY DEF LeptaList
  <2> HIDE DEF s
  <2>3. /\ Len(LeptaList) = Len(s) + 1 /\ LeptaList[Len(s) + 1] = "alg_dump"
        /\ \A i \in 1..Len(s) : LeptaList[i] = s[i]
    <3>1. s \in Seq(Names)
      BY <2>1
    <3> QED
      BY <1>n, <2>2, <3>1, AppendFacts
  <2> QED
    BY <2>1, <2>3
<1> QED
  BY <1>1, <1>3, <1>4

LEMMA Places ==
    ASSUME NEW i \in 1..18, NEW alg, alg = D001[i]
    PROVE  /\ alg = "alg_identify_file" => i = 1
           /\ alg = "alg_skip_on_mode" => i = 2
           /\ alg = "alg_skip_on_area_bounds" => i = 3
           /\ alg = "alg_surface_type" => i = 4
           /\ alg = "alg_dilated_coastal_mask" => i = 5
           /\ alg = "alg_fes2014b_tide_correction" => i = 6
           /\ alg = "alg_cats2008a_tide_correction" => i = 7
           /\ alg = "alg_geo_corrections" => i = 8
           /\ alg = "alg_waveform_quality" => i = 9
           /\ alg = "alg_retrack" => i = 10
           /\ alg = "alg_backscatter" => i = 11
           /\ alg = "alg_geolocate_roemer" => i = 12
           /\ alg = "alg_geolocate_sin" => i = 13
           /\ alg = "alg_basin_ids" => i = 14
           /\ alg = "alg_ref_dem" => i = 15
           /\ alg = "alg_filter_height" => i = 16
           /\ alg = "alg_uncertainty" => i = 17
           /\ alg = "alg_product_output" => i = 18
           /\ alg \notin {"alg_geolocate_lrm", "alg_geolocate_lepta", "alg_dump"}
<1>1. \/ i = 1 \/ i = 2 \/ i = 3 \/ i = 4 \/ i = 5 \/ i = 6 \/ i = 7 \/ i = 8 \/ i = 9
      \/ i = 10 \/ i = 11 \/ i = 12 \/ i = 13 \/ i = 14 \/ i = 15 \/ i = 16 \/ i = 17
      \/ i = 18
  OBVIOUS
<1> QED
  BY <1>1 DEF D001

(* Where the next algorithm is in the list.                                *)
LEMMA At ==
    ASSUME chain \in Chains, pos \in 1..Len(chain)
    PROVE  /\ Len(chain) \in {18, 19} /\ pos \in 1..19
           /\ chain[pos] = "alg_identify_file" => pos = 1
           /\ chain[pos] = "alg_skip_on_mode" => pos = 2
           /\ chain[pos] = "alg_skip_on_area_bounds" => pos = 3
           /\ chain[pos] = "alg_surface_type" => pos = 4
           /\ chain[pos] = "alg_dilated_coastal_mask" => pos = 5
           /\ chain[pos] = "alg_fes2014b_tide_correction" => pos = 6
           /\ chain[pos] = "alg_cats2008a_tide_correction" => pos = 7
           /\ chain[pos] = "alg_geo_corrections" => pos = 8
           /\ chain[pos] = "alg_waveform_quality" => pos = 9
           /\ chain[pos] = "alg_retrack" => pos = 10
           /\ chain[pos] = "alg_backscatter" => pos = 11
           /\ chain[pos] = "alg_geolocate_sin" => pos = 13
           /\ chain[pos] = "alg_basin_ids" => pos = 14
           /\ chain[pos] = "alg_ref_dem" => pos = 15
           /\ chain[pos] = "alg_filter_height" => pos = 16
           /\ chain[pos] = "alg_uncertainty" => pos = 17
           /\ chain[pos] = "alg_product_output" => pos = 18
           /\ chain[pos] = "alg_geolocate_roemer" => pos = 12 /\ chain = D001
           /\ chain[pos] = "alg_geolocate_lrm" => pos = 12 /\ chain = B001
           /\ chain[pos] = "alg_geolocate_lepta" => pos = 12 /\ chain = LeptaList
           /\ chain[pos] = "alg_dump" => pos = 19
<1>1. chain = D001 \/ chain = B001 \/ chain = LeptaList
  BY ConfigAssumption
<1>2. Len(chain) \in {18, 19} /\ pos \in 1..19
  <2>1. Len(chain) = 18 \/ Len(chain) = 19
    BY <1>1, ListFacts
  <2>2. ASSUME NEW n, n = 18 \/ n = 19, NEW p \in 1..n PROVE p \in 1..19
    BY <2>2
  <2> QED
    BY <2>1, <2>2
<1>3. CASE pos = 12
  BY <1>1, <1>2, <1>3, ListFacts
<1>4. CASE pos \in 1..18 /\ pos # 12
  <2>1. chain[pos] = D001[pos]
    BY <1>1, <1>4, ListFacts
  <2>2. D001[pos] # "alg_geolocate_roemer"
    BY <1>4, Places
  <2> QED
    BY <1>2, <1>4, <2>1, <2>2, Places, SMTT(30)
<1>5. CASE pos = 19
  <2>1. ASSUME NEW n, n = 18 PROVE 19 \notin 1..n
    BY <2>1
  <2>2. Len(chain) # 18
    BY <1>5, <2>1
  <2>3. chain = LeptaList
    BY <1>1, <2>2, ListFacts
  <2> QED
    BY <1>2, <1>5, <2>3, ListFacts
<1>6. pos \in 1..18 \/ pos = 19
  BY <1>2
<1> QED
  BY <1>3, <1>4, <1>5, <1>6
-----------------------------------------------------------------------------
(* The invariant.  When the file has come past an algorithm, the keys this *)
(* algorithm stores are there and have the values it gave them: later      *)
(* algorithms store other keys.                                            *)

Stored(keys) == keys \subseteq DOMAIN shared_dict

Started ==
    /\ config \in Options /\ chain \in Chains
    /\ pos \in 1..Len(chain) /\ outcome \in Outcomes
    /\ l1b \in [mode : Modes, lats : Tracks, surface : [Records -> Surfaces]]
    /\ Stored({"l1b_file_name"})

Identified ==
    pos > 1 => /\ Stored({"num_20hz_records", "instr_mode"})
               /\ shared_dict["instr_mode"] = l1b.mode /\ l1b.mode # "invalid"

ModeWanted == pos > 2 => shared_dict["instr_mode"] \in {"LRM", "SIN"}

(* A file of the SIN mode that starts in the south is one of the south,    *)
(* and none of the south comes here when nothing of Antarctica is loaded.  *)
InBounds ==
    pos > 3 =>
        /\ Stored({"hemisphere", "lats_nadir", "lons_nadir"})
        /\ shared_dict["hemisphere"] \in {"north", "south"}
        /\ ~(shared_dict["hemisphere"] = "south" /\ config["grn_only"])
        /\ shared_dict["instr_mode"] = "SIN" /\ l1b.lats[1] < 0 =>
             shared_dict["hemisphere"] = "south"

TypeAt(r) == shared_dict["cryotempo_surface_type"][r]

OnSurface ==
    pos > 4 =>
        /\ Stored({"cryotempo_surface_type", "ocean_locations", "floating_ice_locations"})
        /\ shared_dict["ocean_locations"] = {r \in Records : TypeAt(r) = 0}
        /\ shared_dict["floating_ice_locations"] = {r \in Records : TypeAt(r) = 2}

InMask ==
    /\ Has("dilated_surface_mask") => pos > 5
    /\ pos > 5 => /\ Stored({"dilated_surface_mask"})
                  /\ shared_dict["dilated_surface_mask"] \subseteq Records

TidesRead == pos > 6 => Stored({"fes2014b_corrections"})

CatsDecided ==
    pos > 7 => /\ Stored({"cats_tide_required"})
               /\ \/ shared_dict["cats_tide_required"] = FALSE /\ ~CatsTideRequired
                  \/ /\ shared_dict["cats_tide_required"] = TRUE
                     /\ CatsTideRequired /\ Stored({"cats_tide"})

Corrected ==
    /\ Has("sum_cor_20_ku") => pos > 8
    /\ pos > 8 => /\ Stored({"sum_cor_20_ku", "invalid_corrections_locs"})
                  /\ shared_dict["sum_cor_20_ku"] = [r \in Records |-> CorrectionsOf(r)]

Included ==
    /\ Has("waveforms_to_include") => pos > 9
    /\ pos > 9 => /\ Stored({"waveforms_to_include"})
                  /\ shared_dict["waveforms_to_include"]
                       \subseteq shared_dict["dilated_surface_mask"]

Retracked ==
    /\ Has("range_cor_20_ku") => pos > 10
    /\ pos > 10 => /\ Stored(RetrackKeys)
                   /\ shared_dict["range_cor_20_ku"]
                        \subseteq shared_dict["waveforms_to_include"]
                                    \ shared_dict["invalid_corrections_locs"]

Scattered == pos > 11 => Stored({"sig0_20_ku"})

(* A location is stored by one geolocation, or, in a list with the LEPTA   *)
(* method, by two.                                                         *)
Place(r) == shared_dict["latitudes"][r]

Geolocated ==
    /\ pos > 12 /\ shared_dict["instr_mode"] = "LRM" => Has("latitudes")
    /\ pos > 13 => Has("latitudes")
    /\ Has("height_20_ku") => Has("latitudes")
    /\ Has("latitudes") =>
         /\ pos > 12 /\ Stored({"longitudes", "height_20_ku"})
         /\ shared_dict["longitudes"] = shared_dict["latitudes"]
         /\ \A r \in Records : Place(r) # "nan"
         /\ shared_dict["height_20_ku"] \subseteq shared_dict["range_cor_20_ku"]
         /\ \A r \in shared_dict["height_20_ku"] :
              Place(r) = "poca" \/ (chain = B001 /\ TypeAt(r) # 1)

Basins ==
    pos > 14 => /\ Stored({"basin_mask_values_rignot", "basin_mask_values_zwally",
                           "basin_mask_values_mouginot"})
                /\ shared_dict[BasinKey] # "None"

Elevated ==
    pos > 15 => /\ Stored({"dem_elevation_values"})
                /\ shared_dict["dem_elevation_values"] # "None"

Filtered ==
    /\ Has("height_filt") => /\ pos > 15
                             /\ shared_dict["height_filt"] \subseteq shared_dict["height_20_ku"]
    /\ pos > 16 => Stored({"height_filt"})

Uncertain ==
    pos > 17 => Stored({"uncertainty"}) /\ shared_dict["uncertainty"] # "None"

Produced ==
    /\ outcome = "running" /\ pos <= 18 => product = "none"
    /\ product # "none" => product \in {"partial", "complete"} /\ pos > 17

KInv ==
    /\ Started /\ Identified /\ ModeWanted /\ InBounds /\ OnSurface /\ InMask
    /\ TidesRead /\ CatsDecided /\ Corrected /\ Included /\ Retracked /\ Scattered
    /\ Geolocated /\ Basins /\ Elevated /\ Filtered /\ Uncertain /\ Produced
    /\ ReadsWhatExists /\ HemisphereFound
-----------------------------------------------------------------------------
(* What a step may do to the dictionary.                                   *)

(* The places in the list of the algorithms that store a key.              *)
WrittenAt(k) ==
    CASE k \in {"num_20hz_records", "instr_mode"} -> {1}
      [] k \in {"hemisphere", "lats_nadir", "lons_nadir"} -> {3}
      [] k \in {"cryotempo_surface_type", "ocean_locations", "grounded_ice_locations",
                "floating_ice_locations", "icefree_land_locations",
                "non_grn_land_locations"} -> {4}
      [] k = "dilated_surface_mask" -> {5}
      [] k = "fes2014b_corrections" -> {6}
      [] k \in {"cats_tide_required", "cats_tide"} -> {7}
      [] k \in {"sum_cor_20_ku", "invalid_corrections_locs"} -> {8}
      [] k = "waveforms_to_include" -> {9}
      [] k \in RetrackKeys -> {10}
      [] k = "sig0_20_ku" -> {11}
      [] k \in {"roemer_slope_ok", "relocation_distance", "lepta_slope_ok"} -> {12}
      [] k \in {"lat_poca_20_ku", "lon_poca_20_ku", "latitudes", "longitudes",
                "height_20_ku"} -> {12, 13}
      [] k \in {"basin_mask_values_rignot", "basin_mask_values_zwally",
                "basin_mask_values_mouginot"} -> {14}
      [] k = "dem_elevation_values" -> {15}
      [] k = "height_filt" -> {16}
      [] k = "uncertainty" -> {17}
      [] k = "product_filename" -> {18}
      [] OTHER -> {}

LEMMA Writers ==
    /\ \A k \in {"num_20hz_records", "instr_mode"} : WrittenAt(k) = {1}
    /\ \A k \in {"hemisphere", "lats_nadir", "lons_nadir"} : WrittenAt(k) = {3}
    /\ \A k \in {"cryotempo_surface_type", "ocean_locations", "grounded_ice_locations",
                 "floating_ice_locations", "icefree_land_locations",
                 "non_grn_land_locations"} : WrittenAt(k) = {4}
    /\ WrittenAt("dilated_surface_mask") = {5} /\ WrittenAt("fes2014b_corrections") = {6}
    /\ WrittenAt("cats_tide_required") = {7} /\ WrittenAt("cats_tide") = {7}
    /\ WrittenAt("sum_cor_20_ku") = {8} /\ WrittenAt("invalid_corrections_locs") = {8}
    /\ WrittenAt("waveforms_to_include") = {9} /\ WrittenAt("sig0_20_ku") = {11}
    /\ \A k \in RetrackKeys : WrittenAt(k) = {10}
    /\ \A k \in {"roemer_slope_ok", "relocation_distance", "lepta_slope_ok"} :
         WrittenAt(k) = {12}
    /\ \A k \in {"lat_poca_20_ku", "lon_poca_20_ku", "latitudes", "longitudes",
                 "height_20_ku"} : WrittenAt(k) = {12, 13}
    /\ \A k \in {"basin_mask_values_rignot", "basin_mask_values_zwally",
                 "basin_mask_values_mouginot"} : WrittenAt(k) = {14}
    /\ WrittenAt("dem_elevation_values") = {15} /\ WrittenAt("height_filt") = {16}
    /\ WrittenAt("uncertainty") = {17} /\ WrittenAt("product_filename") = {18}
  BY DEF WrittenAt, RetrackKeys

(* A step stores keys of the algorithm it calls and touches no other.      *)
Keeps ==
    /\ DOMAIN shared_dict \subseteq DOMAIN shared_dict'
    /\ \A k \in DOMAIN shared_dict' :
         pos \notin WrittenAt(k) => /\ k \in DOMAIN shared_dict
                                    /\ shared_dict'[k] = shared_dict[k]

(* The file stays, ends or goes on to the next algorithm.                  *)
Moves ==
    /\ UNCHANGED <<config, l1b, chain>>
    /\ outcome = "running" /\ outcome' \in Outcomes \ {"no hemisphere"}
    /\ \/ pos' = pos + 1 /\ pos < Len(chain) /\ outcome' = "running"
       \/ pos' = pos /\ outcome' # "running"

LEMMA UpdateFacts ==
    ASSUME NEW update, shared_dict' = Updated(shared_dict, update)
    PROVE  /\ DOMAIN shared_dict' = DOMAIN update \cup DOMAIN shared_dict
           /\ \A k \in DOMAIN update : shared_dict'[k] = update[k]
           /\ \A k \in DOMAIN shared_dict :
                k \notin DOMAIN update => shared_dict'[k] = shared_dict[k]
  BY DEF Updated

LEMMA UpdateKeeps ==
    ASSUME NEW update, shared_dict' = Updated(shared_dict, update),
           \A k \in DOMAIN update : pos \in WrittenAt(k)
    PROVE  Keeps
  BY UpdateFacts DEF Keeps

LEMMA SameKeeps == UNCHANGED shared_dict => Keeps
  BY DEF Keeps

(* A key of an algorithm that the file has passed.                         *)
LEMMA OldKey ==
    ASSUME Keeps, NEW k \in DOMAIN shared_dict, pos \notin WrittenAt(k)
    PROVE  k \in DOMAIN shared_dict' /\ shared_dict'[k] = shared_dict[k]
  BY DEF Keeps

LEMMA PositionMoves ==
    ASSUME KInv, Moves
    PROVE  /\ pos \in 1..19 /\ pos' \in 1..19 /\ pos' \in 1..Len(chain)
           /\ pos' = pos \/ pos' = pos + 1
<1>1. chain \in Chains /\ pos \in 1..Len(chain)
  BY DEF KInv, Started
<1>2. pos \in 1..19 /\ Len(chain) \in {18, 19}
  BY <1>1, At
<1>3. pos' = pos \/ (pos' = pos + 1 /\ pos < Len(chain))
  BY DEF Moves
<1>4. ASSUME NEW n \in {18, 19}, NEW p \in 1..n, NEW q, q = p \/ (q = p + 1 /\ p < n)
      PROVE  q \in 1..n /\ q \in 1..19
  BY <1>4
<1> QED
  BY <1>1, <1>2, <1>3, <1>4

(* The facts about an algorithm's keys change only in its own step.        *)
LEMMA FrameFirst ==
    ASSUME KInv, Moves, Keeps
    PROVE  /\ Started'
           /\ pos # 1 => Identified'
           /\ pos # 2 => ModeWanted'
           /\ pos # 3 => InBounds'
           /\ pos # 4 => OnSurface'
           /\ pos # 5 => InMask'
           /\ pos # 6 => TidesRead'
           /\ pos # 7 => CatsDecided'
<1>0. pos \in 1..19 /\ pos' \in 1..19 /\ pos' \in 1..Len(chain) /\ (pos' = pos \/ pos' = pos + 1)
      /\ UNCHANGED <<config, l1b, chain>>
  BY PositionMoves DEF Moves
<1>1. Started'
  <2>1. DOMAIN shared_dict \subseteq DOMAIN shared_dict'
    BY DEF Keeps
  <2> QED
    BY <1>0, <2>1 DEF KInv, Started, Moves, Stored
<1>2. ASSUME pos # 1 PROVE Identified'
  <2>1. CASE pos > 1
    BY <1>0, <2>1, OldKey, Writers DEF KInv, Identified, Stored
  <2> QED
    BY <1>0, <1>2, <2>1
<1>3. ASSUME pos # 2 PROVE ModeWanted'
  <2>1. CASE pos > 2
    BY <1>0, <2>1, OldKey, Writers DEF KInv, Identified, ModeWanted, Stored
  <2> QED
    BY <1>0, <1>3, <2>1 DEF ModeWanted
<1>4. ASSUME pos # 3 PROVE InBounds'
  <2>1. CASE pos > 3
    BY <1>0, <2>1, OldKey, Writers DEF KInv, Identified, InBounds, Stored
  <2> QED
    BY <1>0, <1>4, <2>1 DEF InBounds
<1>5. ASSUME pos # 4 PROVE OnSurface'
  <2>1. CASE pos > 4
    BY <1>0, <2>1, OldKey, Writers DEF KInv, OnSurface, Stored, TypeAt
  <2> QED
    BY <1>0, <1>5, <2>1 DEF OnSurface
<1>6. ASSUME pos # 5 PROVE InMask'
  <2>1. CASE pos > 5
    BY <1>0, <2>1, OldKey, Writers DEF KInv, InMask, Stored
  <2>2. CASE pos < 5
    <3>1. "dilated_surface_mask" \notin DOMAIN shared_dict
      BY <1>0, <2>2 DEF KInv, InMask, Has
    <3>2. "dilated_surface_mask" \notin DOMAIN shared_dict' /\ ~(pos' > 5)
      BY <1>0, <2>2, <3>1, Writers DEF Keeps
    <3> QED
      BY <3>2 DEF InMask, Has
  <2> QED
    BY <1>0, <1>6, <2>1, <2>2
<1>7. ASSUME pos # 6 PROVE TidesRead'
  <2>1. CASE pos > 6
    BY <1>0, <2>1, OldKey, Writers DEF KInv, TidesRead, Stored
  <2> QED
    BY <1>0, <1>7, <2>1 DEF TidesRead
<1>8. ASSUME pos # 7 PROVE CatsDecided'
  <2>1. CASE pos > 7
    BY <1>0, <2>1, OldKey, Writers
       DEF KInv, Identified, InBounds, OnSurface, CatsDecided, CatsTideRequired, Stored
  <2>2. CASE pos < 7
    <3>1. ~(pos' > 7)
      BY <1>0, <2>2
    <3> QED
      BY <3>1 DEF CatsDecided
  <2> QED
    BY <1>0, <1>8, <2>1, <2>2
<1> QED
  BY <1>1, <1>2, <1>3, <1>4, <1>5, <1>6, <1>7, <1>8

LEMMA FrameLast ==
    ASSUME KInv, Moves, Keeps
    PROVE  /\ pos # 8 => Corrected'
           /\ pos # 9 => Included'
           /\ pos # 10 => Retracked'
           /\ pos # 11 => Scattered'
           /\ pos \notin {12, 13} => Geolocated'
           /\ pos # 14 => Basins'
           /\ pos # 15 => Elevated'
           /\ pos # 16 => Filtered'
           /\ pos # 17 => Uncertain'
<1>0. pos \in 1..19 /\ pos' \in 1..19 /\ (pos' = pos \/ pos' = pos + 1)
      /\ UNCHANGED <<config, l1b, chain>>
  BY PositionMoves DEF Moves
<1>2. ASSUME pos # 8 PROVE Corrected'
  <2>1. CASE pos > 8
    <3>1. Stored({"sum_cor_20_ku", "invalid_corrections_locs", "floating_ice_locations",
                  "ocean_locations", "hemisphere", "instr_mode"})
      BY <1>0, <2>1 DEF KInv, Corrected, OnSurface, InBounds, Identified, Stored
    <3>2. \A k \in {"sum_cor_20_ku", "invalid_corrections_locs", "floating_ice_locations",
                    "ocean_locations", "hemisphere", "instr_mode"} :
             k \in DOMAIN shared_dict' /\ shared_dict'[k] = shared_dict[k]
      BY <1>0, <2>1, <3>1, OldKey, Writers DEF Stored
    <3>3. shared_dict'["sum_cor_20_ku"] = [r \in Records |-> CorrectionsOf(r)']
      BY <1>0, <2>1, <3>2 DEF KInv, Corrected, CorrectionsOf, OceanCorrections
    <3> QED
      BY <1>0, <2>1, <3>2, <3>3 DEF Corrected, Stored
  <2>2. CASE pos < 8
    <3>1. "sum_cor_20_ku" \notin DOMAIN shared_dict
      BY <1>0, <2>2 DEF KInv, Corrected, Has
    <3>2. "sum_cor_20_ku" \notin DOMAIN shared_dict'
      BY <1>0, <2>2, <3>1, Writers DEF Keeps
    <3>3. ~(pos' > 8)
      BY <1>0, <2>2
    <3> QED
      BY <3>2, <3>3 DEF Corrected, Has
  <2> QED
    BY <1>0, <1>2, <2>1, <2>2
<1>3. ASSUME pos # 9 PROVE Included'
  <2>1. CASE pos > 9
    BY <1>0, <2>1, OldKey, Writers DEF KInv, InMask, Included, Stored
  <2>2. CASE pos < 9
    <3>1. "waveforms_to_include" \notin DOMAIN shared_dict
      BY <1>0, <2>2 DEF KInv, Included, Has
    <3>2. "waveforms_to_include" \notin DOMAIN shared_dict' /\ ~(pos' > 9)
      BY <1>0, <2>2, <3>1, Writers DEF Keeps
    <3> QED
      BY <3>2 DEF Included, Has
  <2> QED
    BY <1>0, <1>3, <2>1, <2>2
<1>4. ASSUME pos # 10 PROVE Retracked'
  <2>1. CASE pos > 10
    <3>1. /\ Stored(RetrackKeys) /\ Stored({"waveforms_to_include", "invalid_corrections_locs"})
          /\ shared_dict["range_cor_20_ku"] \subseteq shared_dict["waveforms_to_include"]
                                                 \ shared_dict["invalid_corrections_locs"]
      BY <1>0, <2>1 DEF KInv, Retracked, Included, Corrected, Stored
    <3>2. \A k \in RetrackKeys : k \in DOMAIN shared_dict' /\ shared_dict'[k] = shared_dict[k]
      BY <1>0, <2>1, <3>1, OldKey, Writers DEF Stored
    <3>3. \A k \in {"waveforms_to_include", "invalid_corrections_locs"} :
             k \in DOMAIN shared_dict' /\ shared_dict'[k] = shared_dict[k]
      BY <1>0, <2>1, <3>1, OldKey, Writers DEF Stored
    <3>4. "range_cor_20_ku" \in RetrackKeys
      BY DEF RetrackKeys
    <3> QED
      BY <1>0, <2>1, <3>1, <3>2, <3>3, <3>4 DEF Retracked, Stored
  <2>2. CASE pos < 10
    <3>1. "range_cor_20_ku" \notin DOMAIN shared_dict
      BY <1>0, <2>2 DEF KInv, Retracked, Has
    <3>2. WrittenAt("range_cor_20_ku") = {10}
      BY Writers DEF RetrackKeys
    <3>3. "range_cor_20_ku" \notin DOMAIN shared_dict' /\ ~(pos' > 10)
      BY <1>0, <2>2, <3>1, <3>2 DEF Keeps
    <3> QED
      BY <3>3 DEF Retracked, Has
  <2> QED
    BY <1>0, <1>4, <2>1, <2>2
<1>5. ASSUME pos # 11 PROVE Scattered'
  <2>1. CASE pos > 11
    BY <1>0, <2>1, OldKey, Writers DEF KInv, Scattered, Stored
  <2> QED
    BY <1>0, <1>5, <2>1 DEF Scattered
<1>6. ASSUME pos \notin {12, 13} PROVE Geolocated'
  <2>1. CASE pos > 13
    <3>1. Has("latitudes") /\ Stored({"latitudes", "longitudes", "height_20_ku", "instr_mode",
                                      "cryotempo_surface_type"}) /\ Stored(RetrackKeys)
      BY <1>0, <2>1 DEF KInv, Geolocated, Identified, OnSurface, Retracked, Stored, Has
    <3>2. \A k \in {"latitudes", "longitudes", "height_20_ku", "instr_mode",
                    "cryotempo_surface_type"} :
             k \in DOMAIN shared_dict' /\ shared_dict'[k] = shared_dict[k]
      BY <1>0, <2>1, <3>1, OldKey, Writers DEF Stored
    <3>3. shared_dict'["range_cor_20_ku"] = shared_dict["range_cor_20_ku"]
      <4>1. "range_cor_20_ku" \in RetrackKeys
        BY DEF RetrackKeys
      <4> QED
        BY <1>0, <2>1, <3>1, <4>1, OldKey, Writers DEF Stored
    <3>4. Geolocated
      BY DEF KInv
    <3> QED
      BY <1>0, <2>1, <3>1, <3>2, <3>3, <3>4 DEF Geolocated, Has, Stored, Place, TypeAt
  <2>2. CASE pos < 12
    <3>1. "latitudes" \notin DOMAIN shared_dict /\ "height_20_ku" \notin DOMAIN shared_dict
      BY <1>0, <2>2 DEF KInv, Geolocated, Has
    <3>2. "latitudes" \notin DOMAIN shared_dict' /\ "height_20_ku" \notin DOMAIN shared_dict'
      BY <1>0, <2>2, <3>1, Writers DEF Keeps
    <3>3. ~(pos' > 12)
      BY <1>0, <2>2
    <3> QED
      BY <1>0, <3>2, <3>3 DEF Geolocated, Has
  <2> QED
    BY <1>0, <1>6, <2>1, <2>2
<1>7. ASSUME pos # 14 PROVE Basins'
  <2>1. CASE pos > 14
    <3>1. Stored({"basin_mask_values_rignot", "basin_mask_values_zwally",
                  "basin_mask_values_mouginot", "hemisphere"})
      BY <1>0, <2>1 DEF KInv, Basins, InBounds, Stored
    <3>2. \A k \in {"basin_mask_values_rignot", "basin_mask_values_zwally",
                    "basin_mask_values_mouginot", "hemisphere"} :
             k \in DOMAIN shared_dict' /\ shared_dict'[k] = shared_dict[k]
      BY <1>0, <2>1, <3>1, OldKey, Writers DEF Stored
    <3> QED
      BY <1>0, <2>1, <3>2 DEF KInv, Basins, BasinKey, Stored
  <2>2. CASE pos < 14
    <3>1. ~(pos' > 14)
      BY <1>0, <2>2
    <3> QED
      BY <3>1 DEF Basins
  <2> QED
    BY <1>0, <1>7, <2>1, <2>2
<1>8. ASSUME pos # 15 PROVE Elevated'
  <2>1. CASE pos > 15
    BY <1>0, <2>1, OldKey, Writers DEF KInv, Elevated, Stored
  <2> QED
    BY <1>0, <1>8, <2>1 DEF Elevated
<1>9. ASSUME pos # 16 PROVE Filtered'
  <2>1. CASE pos > 16
    BY <1>0, <2>1, OldKey, Writers DEF KInv, Geolocated, Filtered, Stored, Has
  <2>2. CASE pos < 16
    <3>1. "height_filt" \notin DOMAIN shared_dict
      BY <1>0, <2>2 DEF KInv, Filtered, Has
    <3>2. "height_filt" \notin DOMAIN shared_dict' /\ ~(pos' > 16)
      BY <1>0, <2>2, <3>1, Writers DEF Keeps
    <3> QED
      BY <3>2 DEF Filtered, Has
  <2> QED
    BY <1>0, <1>9, <2>1, <2>2
<1>10. ASSUME pos # 17 PROVE Uncertain'
  <2>1. CASE pos > 17
    BY <1>0, <2>1, OldKey, Writers DEF KInv, Uncertain, Stored
  <2> QED
    BY <1>0, <1>10, <2>1 DEF Uncertain
<1> QED
  BY <1>2, <1>3, <1>4, <1>5, <1>6, <1>7, <1>8, <1>9, <1>10
-----------------------------------------------------------------------------
(* The ways an algorithm ends.                                             *)

LEMMA Ends ==
    ASSUME KInv, outcome = "running", UNCHANGED <<config, l1b, chain>>
    PROVE  /\ \A update : Returns(update) => Moves /\ outcome' \in {"running", "ok"}
           /\ PassesThrough => Moves /\ Keeps /\ outcome' \in {"running", "ok"}
           /\ \A how \in Outcomes \ {"running", "no hemisphere"} :
                /\ Stops(how) => Moves /\ Keeps /\ outcome' = how /\ pos' = pos
                /\ \A update : StopsAfter(update, how) => Moves /\ outcome' = how /\ pos' = pos
<1>1. pos \in 1..Len(chain) /\ Len(chain) \in {18, 19} /\ pos \in 1..19
  BY At DEF KInv, Started
<1>2. ASSUME pos' = (IF pos < Len(chain) THEN pos + 1 ELSE pos),
             outcome' = (IF pos < Len(chain) THEN "running" ELSE "ok")
      PROVE  Moves /\ outcome' \in {"running", "ok"}
  BY <1>1, <1>2 DEF Moves, Outcomes
<1> QED
  BY <1>2, SameKeeps DEF Returns, PassesThrough, Stops, StopsAfter, Moves

(* Every list goes on after place 17.                                      *)
LEMMA After ==
    ASSUME KInv, pos < 18, pos' = IF pos < Len(chain) THEN pos + 1 ELSE pos
    PROVE  pos' = pos + 1
<1>1. pos \in 1..Len(chain) /\ Len(chain) \in {18, 19} /\ pos \in 1..19
  BY At DEF KInv, Started
<1>2. ASSUME NEW n \in {18, 19}, NEW p \in 1..n, p < 18 PROVE p < n
  BY <1>2
<1>3. pos < Len(chain)
  BY <1>1, <1>2
<1> QED
  BY <1>3

LEMMA Stores ==
    ASSUME NEW update, NEW keys, DOMAIN update = keys,
           shared_dict' = Updated(shared_dict, update),
           \A k \in keys : pos \in WrittenAt(k)
    PROVE  /\ Keeps
           /\ \A k \in keys : k \in DOMAIN shared_dict' /\ shared_dict'[k] = update[k]
           /\ \A k \in DOMAIN shared_dict :
                k \in DOMAIN shared_dict' /\ (k \notin keys => shared_dict'[k] = shared_dict[k])
  BY UpdateFacts, UpdateKeeps

(* The facts about the keys of the algorithm that is called.               *)
Passed ==
    /\ pos = 1 => Identified'
    /\ pos = 2 => ModeWanted'
    /\ pos = 3 => InBounds'
    /\ pos = 4 => OnSurface'
    /\ pos = 5 => InMask'
    /\ pos = 6 => TidesRead'
    /\ pos = 7 => CatsDecided'
    /\ pos = 8 => Corrected'
    /\ pos = 9 => Included'
    /\ pos = 10 => Retracked'
    /\ pos = 11 => Scattered'
    /\ pos \in {12, 13} => Geolocated'
    /\ pos = 14 => Basins'
    /\ pos = 15 => Elevated'
    /\ pos = 16 => Filtered'
    /\ pos = 17 => Uncertain'

LEMMA Carry ==
    ASSUME KInv, Moves, Keeps, Passed, UNCHANGED product, pos <= 18, ReadsWhatExists'
    PROVE  KInv'
<1>1. Started' /\ Identified' /\ ModeWanted' /\ InBounds' /\ OnSurface' /\ InMask'
      /\ TidesRead' /\ CatsDecided'
  BY FrameFirst DEF Passed
<1>2. Corrected' /\ Included' /\ Retracked' /\ Scattered' /\ Geolocated' /\ Basins'
      /\ Elevated' /\ Filtered' /\ Uncertain'
  BY FrameLast DEF Passed
<1>3. Produced' /\ HemisphereFound'
  BY DEF KInv, Produced, Moves, HemisphereFound
<1> QED
  BY <1>1, <1>2, <1>3 DEF KInv

LEMMA NoException ==
    ASSUME outcome' \in {"running", "ok", "skip", "error", "ZeroDivisionError"} \cup WriteFailures
    PROVE  ReadsWhatExists'
  BY DEF ReadsWhatExists, NotThere, Exceptions, WriteFailures
-----------------------------------------------------------------------------
(* The algorithms.                                                         *)

LEMMA IdentifyFileKInv == ASSUME KInv, IdentifyFile PROVE KInv'
<1>1. pos = 1 /\ outcome = "running" /\ UNCHANGED <<config, l1b, chain, product>>
  BY At DEF KInv, Started, IdentifyFile, Calls, Fixed
<1>2. CASE StopsAfter([num_20hz_records |-> NumRecords], "error")
  <2>1. Moves /\ outcome' = "error" /\ pos' = 1
    BY <1>1, <1>2, Ends DEF Outcomes
  <2>2. Keeps
    BY <1>1, <1>2, Stores, Writers DEF StopsAfter
  <2>3. Passed /\ ReadsWhatExists'
    BY <1>1, <2>1, NoException DEF Passed, Identified, Exceptions
  <2> QED
    BY <1>1, <2>1, <2>2, <2>3, Carry
<1>3. CASE /\ Returns([num_20hz_records |-> NumRecords, instr_mode |-> l1b.mode])
           /\ l1b.mode # "invalid"
  <2>1. Moves /\ outcome' \in {"running", "ok"}
    BY <1>1, <1>3, Ends
  <2>2. Keeps /\ Stored({"num_20hz_records", "instr_mode"})'
        /\ shared_dict'["instr_mode"] = l1b.mode
    BY <1>1, <1>3, Stores, Writers DEF Stored, Returns
  <2>3. Passed /\ ReadsWhatExists'
    BY <1>1, <1>3, <2>1, <2>2, NoException DEF Passed, Identified, Exceptions
  <2> QED
    BY <1>1, <2>1, <2>2, <2>3, Carry
<1>4. CASE Stops("error")
  <2>1. Moves /\ Keeps /\ outcome' = "error" /\ pos' = 1
    BY <1>1, <1>4, Ends DEF Outcomes
  <2>2. Passed /\ ReadsWhatExists'
    BY <1>1, <2>1, NoException DEF Passed, Identified
  <2> QED
    BY <1>1, <2>1, <2>2, Carry
<1> QED
  BY <1>2, <1>3, <1>4 DEF IdentifyFile

LEMMA SkipOnModeKInv == ASSUME KInv, SkipOnMode PROVE KInv'
<1>1. pos = 2 /\ outcome = "running" /\ UNCHANGED <<config, l1b, chain, product>>
  BY At DEF KInv, Started, SkipOnMode, Calls, Fixed
<1>2. shared_dict["instr_mode"] \in Modes \ {"invalid"} /\ Stored({"instr_mode"})
  BY <1>1 DEF KInv, Started, Identified, Stored
<1>3. CASE Stops("skip")
  <2>1. Moves /\ Keeps /\ outcome' = "skip" /\ pos' = 2
    BY <1>1, <1>3, Ends DEF Outcomes
  <2>2. Passed /\ ReadsWhatExists'
    BY <1>1, <2>1, NoException DEF Passed, ModeWanted, Exceptions
  <2> QED
    BY <1>1, <2>1, <2>2, Carry
<1>4. CASE PassesThrough /\ shared_dict["instr_mode"] # "SAR"
  <2>1. Moves /\ Keeps /\ outcome' \in {"running", "ok"} /\ UNCHANGED shared_dict
    BY <1>1, <1>4, Ends DEF PassesThrough
  <2>2. shared_dict'["instr_mode"] \in {"LRM", "SIN"}
    BY <1>2, <1>4, <2>1, SizesAssumption
  <2>3. Passed /\ ReadsWhatExists'
    BY <1>1, <2>1, <2>2, NoException DEF Passed, ModeWanted, Exceptions
  <2> QED
    BY <1>1, <2>1, <2>3, Carry
<1> QED
  BY <1>2, <1>3, <1>4 DEF SkipOnMode, Looking, Stored

(* A track that starts beyond 55 degrees has the hemisphere of its start.  *)
LEMMA HemisphereFacts ==
    ASSUME NEW lats \in Tracks
    PROVE  /\ lats[1] \in Int
           /\ Hemisphere(lats) \in {"none", "north", "south"}
           /\ lats[1] > 55 => Hemisphere(lats) # "none"
           /\ lats[1] < -55 => Hemisphere(lats) = "south"
<1> DEFINE polar == {r \in Records : lats[r] < -55 \/ lats[r] > 55}
           first == CHOOSE r \in polar : \A q \in polar : r <= q
<1>1. 1 \in Records /\ Records \subseteq Nat /\ \A q \in Records : 1 <= q
  BY SizesAssumption DEF Records
<1>2. lats[1] \in Int
  <2>1. lats \in [Records -> Latitudes] /\ Latitudes \subseteq Int
    BY SizesAssumption DEF Tracks
  <2> QED
    BY <1>1, <2>1
<1>3. Hemisphere(lats) = IF polar = {} THEN "none"
                         ELSE IF lats[first] < -55 THEN "south" ELSE "north"
  BY DEF Hemisphere
<1>4. ASSUME 1 \in polar PROVE first = 1
  <2>1. \A q \in polar : 1 <= q
    BY <1>1
  <2>2. first \in polar /\ \A q \in polar : first <= q
    BY <1>4, <2>1
  <2>3. first <= 1 /\ 1 <= first /\ first \in Nat
    <3>1. polar \subseteq Nat
      BY <1>1
    <3> HIDE DEF first, polar
    <3> QED
      BY <1>4, <2>1, <2>2, <3>1
  <2> QED
    BY <2>3
<1>5. lats[1] > 55 \/ lats[1] < -55 => 1 \in polar
  BY <1>1
<1> HIDE DEF first, polar
<1>6. lats[1] > 55 => polar # {}
  BY <1>5
<1>7. lats[1] < -55 => first = 1 /\ polar # {}
  BY <1>4, <1>5
<1> QED
  BY <1>2, <1>3, <1>6, <1>7

LEMMA SkipOnAreaBoundsKInv == ASSUME KInv, SkipOnAreaBounds PROVE KInv'
<1> DEFINE hemisphere == Hemisphere(l1b.lats)
           located == [hemisphere |-> hemisphere,
                       lats_nadir |-> l1b.lats, lons_nadir |-> l1b.lats]
           keys == {"hemisphere", "lats_nadir", "lons_nadir"}
<1>1. pos = 3 /\ outcome = "running" /\ UNCHANGED <<config, l1b, chain, product>>
  BY At DEF KInv, Started, SkipOnAreaBounds, Calls, Fixed
<1>2. shared_dict["instr_mode"] \in {"LRM", "SIN"} /\ Stored({"instr_mode"})
  BY <1>1 DEF KInv, Identified, ModeWanted, Stored
<1>3. l1b.lats \in Tracks
  BY DEF KInv, Started
<1>4. DOMAIN located = keys /\ located["hemisphere"] = hemisphere
  OBVIOUS
<1>5. CASE Stops("error")
  <2>1. Moves /\ Keeps /\ outcome' = "error" /\ pos' = 3
    BY <1>1, <1>5, Ends DEF Outcomes
  <2>2. Passed /\ ReadsWhatExists'
    BY <1>1, <2>1, NoException DEF Passed, InBounds
  <2> QED
    BY <1>1, <2>1, <2>2, Carry
<1> SUFFICES ASSUME ~Stops("error") PROVE KInv'
  BY <1>5
<1>9. /\ \/ Stops("skip") \/ StopsAfter(located, "skip")
         \/ Returns(located) /\ ~(hemisphere = "south" /\ config["grn_only"])
      /\ ~Stops("skip") => /\ hemisphere \in {"north", "south"}
                           /\ shared_dict["instr_mode"] = "SIN" /\ l1b.lats[1] < 0 =>
                                hemisphere = "south"
  <2>1. ASSUME ~OutsideCryosphere(shared_dict["instr_mode"], l1b.lats[1])
        PROVE  /\ hemisphere \in {"north", "south"}
               /\ shared_dict["instr_mode"] = "SIN" /\ l1b.lats[1] < 0 =>
                    hemisphere = "south"
    <3>1. l1b.lats[1] \in Int /\ (l1b.lats[1] < -55 \/ l1b.lats[1] > 55)
      BY <1>2, <1>3, <2>1, HemisphereFacts DEF OutsideCryosphere
    <3> QED
      BY <1>3, <3>1, HemisphereFacts
  <2> QED
    BY <1>2, <2>1 DEF SkipOnAreaBounds, Looking, Stored
<1> HIDE DEF hemisphere, located
<1>6. CASE Stops("skip")
  <2>1. Moves /\ Keeps /\ outcome' = "skip" /\ pos' = 3
    BY <1>1, <1>6, Ends DEF Outcomes
  <2>2. Passed /\ ReadsWhatExists'
    BY <1>1, <2>1, NoException DEF Passed, InBounds, Exceptions
  <2> QED
    BY <1>1, <2>1, <2>2, Carry
<1>7. CASE StopsAfter(located, "skip")
  <2>1. Moves /\ outcome' = "skip" /\ pos' = 3
    BY <1>1, <1>7, Ends DEF Outcomes
  <2>2. Keeps
    BY <1>1, <1>4, <1>7, Stores, Writers DEF StopsAfter
  <2>3. Passed /\ ReadsWhatExists'
    BY <1>1, <2>1, NoException DEF Passed, InBounds, Exceptions
  <2> QED
    BY <1>1, <2>1, <2>2, <2>3, Carry
<1>8. CASE ~Stops("skip") /\ ~StopsAfter(located, "skip")
  <2>0. Returns(located)
    BY <1>9, <1>8
  <2>1. Moves /\ outcome' \in {"running", "ok"}
    BY <1>1, <2>0, Ends
  <2>2. /\ Keeps /\ Stored(keys)' /\ shared_dict'["hemisphere"] = hemisphere
        /\ shared_dict'["instr_mode"] = shared_dict["instr_mode"]
    BY <1>1, <1>2, <1>4, <2>0, Stores, Writers DEF Returns, Stored
  <2>3. InBounds'
    BY <1>1, <1>9, <1>8, <2>2 DEF InBounds
  <2>4. Passed /\ ReadsWhatExists'
    BY <1>1, <2>1, <2>3, NoException DEF Passed, Exceptions
  <2> QED
    BY <1>1, <2>1, <2>2, <2>4, Carry
<1> QED
  BY <1>6, <1>7, <1>8

LEMMA SurfaceTypeKInv == ASSUME KInv, SurfaceType PROVE KInv'
<1> DEFINE type == [r \in Records |-> CryoTempoSurface(l1b.surface[r], shared_dict["hemisphere"])]
           keys == {"cryotempo_surface_type", "ocean_locations", "grounded_ice_locations",
                    "floating_ice_locations", "icefree_land_locations",
                    "non_grn_land_locations"}
<1>1. pos = 4 /\ outcome = "running" /\ UNCHANGED <<config, l1b, chain, product>>
  BY At DEF KInv, Started, SurfaceType, Calls, Fixed
<1>2. Stored({"hemisphere", "lats_nadir", "lons_nadir", "num_20hz_records"})
  BY <1>1 DEF KInv, Identified, InBounds, Stored
<1>3. Stops("skip") \/ Returns(Surface(type))
  BY <1>2 DEF SurfaceType, Reading, Stored
<1>4. /\ DOMAIN Surface(type) = keys
      /\ Surface(type)["cryotempo_surface_type"] = type
      /\ Surface(type)["ocean_locations"] = {r \in Records : type[r] = 0}
      /\ Surface(type)["floating_ice_locations"] = {r \in Records : type[r] = 2}
  BY DEF Surface
<1> HIDE DEF type
<1>5. CASE Stops("skip")
  <2>1. Moves /\ Keeps /\ outcome' = "skip" /\ pos' = 4
    BY <1>1, <1>5, Ends DEF Outcomes
  <2>2. Passed /\ ReadsWhatExists'
    BY <1>1, <2>1, NoException DEF Passed, OnSurface, Exceptions
  <2> QED
    BY <1>1, <2>1, <2>2, Carry
<1>6. CASE Returns(Surface(type))
  <2>1. Moves /\ outcome' \in {"running", "ok"}
    BY <1>1, <1>6, Ends
  <2>2. Keeps /\ \A k \in keys : /\ k \in DOMAIN shared_dict'
                                 /\ shared_dict'[k] = Surface(type)[k]
    BY <1>1, <1>4, <1>6, Stores, Writers DEF Returns
  <2>3. OnSurface'
    BY <1>4, <2>2 DEF OnSurface, Stored, TypeAt
  <2>4. Passed /\ ReadsWhatExists'
    BY <1>1, <2>1, <2>3, NoException DEF Passed, Exceptions
  <2> QED
    BY <1>1, <2>1, <2>2, <2>4, Carry
<1> QED
  BY <1>3, <1>5, <1>6

LEMMA DilatedCoastalMaskKInv == ASSUME KInv, DilatedCoastalMask PROVE KInv'
<1>1. pos = 5 /\ outcome = "running" /\ UNCHANGED <<config, l1b, chain, product>>
  BY At DEF KInv, Started, DilatedCoastalMask, Calls, Fixed
<1>2. Stored({"hemisphere", "lats_nadir", "lons_nadir", "num_20hz_records"})
  BY <1>1 DEF KInv, Identified, InBounds, Stored
<1>3. Stops("skip") \/ \E inside \in SUBSET Records : Returns([dilated_surface_mask |-> inside])
  BY <1>2 DEF DilatedCoastalMask, Looking, Reading, Stored
<1>5. CASE Stops("skip")
  <2>1. Moves /\ Keeps /\ outcome' = "skip" /\ pos' = 5 /\ UNCHANGED shared_dict
    BY <1>1, <1>5, Ends DEF Outcomes, Stops
  <2>2. Passed /\ ReadsWhatExists'
    BY <1>1, <2>1, NoException DEF Passed, KInv, InMask, Has, Exceptions
  <2> QED
    BY <1>1, <2>1, <2>2, Carry
<1>6. ASSUME NEW inside \in SUBSET Records, Returns([dilated_surface_mask |-> inside])
      PROVE  KInv'
  <2>0. pos' = 6
    BY <1>1, <1>6, After DEF Returns
  <2>1. Moves /\ outcome' \in {"running", "ok"}
    BY <1>1, <1>6, Ends
  <2>2. Keeps /\ "dilated_surface_mask" \in DOMAIN shared_dict'
        /\ shared_dict'["dilated_surface_mask"] = inside
    BY <1>1, <1>6, Stores, Writers DEF Returns
  <2>3. Passed /\ ReadsWhatExists'
    BY <1>1, <2>0, <2>1, <2>2, NoException DEF Passed, InMask, Stored, Exceptions
  <2> QED
    BY <1>1, <2>1, <2>2, <2>3, Carry
<1> QED
  BY <1>3, <1>5, <1>6

LEMMA Fes2014bTideCorrectionKInv == ASSUME KInv, Fes2014bTideCorrection PROVE KInv'
<1>1. pos = 6 /\ outcome = "running" /\ UNCHANGED <<config, l1b, chain, product>>
  BY At DEF KInv, Started, Fes2014bTideCorrection, Calls, Fixed
<1>2. Stored({"l1b_file_name", "instr_mode", "num_20hz_records"})
  BY <1>1 DEF KInv, Started, Identified, Stored
<1>3. Stops("error") \/ Returns([fes2014b_corrections |-> "tides"])
  BY <1>2 DEF Fes2014bTideCorrection, Reading, Stored
<1>4. CASE Stops("error")
  <2>1. Moves /\ Keeps /\ outcome' = "error" /\ pos' = 6
    BY <1>1, <1>4, Ends DEF Outcomes
  <2>2. Passed /\ ReadsWhatExists'
    BY <1>1, <2>1, NoException DEF Passed, TidesRead, Exceptions
  <2> QED
    BY <1>1, <2>1, <2>2, Carry
<1>5. CASE Returns([fes2014b_corrections |-> "tides"])
  <2>1. Moves /\ outcome' \in {"running", "ok"}
    BY <1>1, <1>5, Ends
  <2>2. Keeps /\ Stored({"fes2014b_corrections"})'
    BY <1>1, <1>5, Stores, Writers DEF Returns, Stored
  <2>3. Passed /\ ReadsWhatExists'
    BY <1>1, <2>1, <2>2, NoException DEF Passed, TidesRead, Exceptions
  <2> QED
    BY <1>1, <2>1, <2>2, <2>3, Carry
<1> QED
  BY <1>3, <1>4, <1>5

LEMMA Cats2008aTideCorrectionKInv == ASSUME KInv, Cats2008aTideCorrection PROVE KInv'
<1> DEFINE Read == {"hemisphere", "instr_mode", "floating_ice_locations", "ocean_locations"}
           none == [cats_tide_required |-> FALSE]
           some == [cats_tide_required |-> TRUE, cats_tide |-> "tide"]
<1>1. pos = 7 /\ outcome = "running" /\ UNCHANGED <<config, l1b, chain, product>>
  BY At DEF KInv, Started, Cats2008aTideCorrection, Calls, Fixed
<1>2. Stored(Read) /\ Stored({"num_20hz_records"})
  BY <1>1 DEF KInv, Identified, InBounds, OnSurface, Stored
<1>3. \/ ~CatsTideRequired /\ Returns(none)
      \/ CatsTideRequired /\ StopsAfter(none, "error")
      \/ CatsTideRequired /\ Returns(some)
  BY <1>2 DEF Cats2008aTideCorrection, Reading, Stored
<1>4. ASSUME \A k \in DOMAIN shared_dict : k \notin {"cats_tide_required", "cats_tide"} =>
                shared_dict'[k] = shared_dict[k]
      PROVE  CatsTideRequired' <=> CatsTideRequired
  BY <1>2, <1>4 DEF CatsTideRequired, Stored
<1>5. /\ DOMAIN none = {"cats_tide_required"} /\ none["cats_tide_required"] = FALSE
      /\ DOMAIN some = {"cats_tide_required", "cats_tide"}
      /\ some["cats_tide_required"] = TRUE
  OBVIOUS
<1> HIDE DEF none, some
<1>6. CASE ~CatsTideRequired /\ Returns(none)
  <2>1. Moves /\ outcome' \in {"running", "ok"}
    BY <1>1, <1>6, Ends
  <2>2. /\ Keeps /\ Stored({"cats_tide_required"})'
        /\ shared_dict'["cats_tide_required"] = none["cats_tide_required"]
        /\ \A k \in DOMAIN shared_dict : k # "cats_tide_required" =>
                shared_dict'[k] = shared_dict[k]
    BY <1>1, <1>5, <1>6, Stores, Writers DEF Returns, Stored
  <2>3. CatsDecided'
    BY <1>4, <1>5, <1>6, <2>2 DEF CatsDecided
  <2>4. Passed /\ ReadsWhatExists'
    BY <1>1, <2>1, <2>3, NoException DEF Passed, Exceptions
  <2> QED
    BY <1>1, <2>1, <2>2, <2>4, Carry
<1>7. CASE StopsAfter(none, "error")
  <2>1. Moves /\ outcome' = "error" /\ pos' = 7
    BY <1>1, <1>7, Ends DEF Outcomes
  <2>2. Keeps
    BY <1>1, <1>5, <1>7, Stores, Writers DEF StopsAfter
  <2>3. CatsDecided'
    BY <2>1 DEF CatsDecided
  <2>4. Passed /\ ReadsWhatExists'
    BY <1>1, <2>1, <2>3, NoException DEF Passed, Exceptions
  <2> QED
    BY <1>1, <2>1, <2>2, <2>4, Carry
<1>8. CASE CatsTideRequired /\ Returns(some)
  <2>1. Moves /\ outcome' \in {"running", "ok"}
    BY <1>1, <1>8, Ends
  <2>2. /\ Keeps /\ Stored({"cats_tide_required"})' /\ Stored({"cats_tide"})'
        /\ shared_dict'["cats_tide_required"] = some["cats_tide_required"]
        /\ \A k \in DOMAIN shared_dict : k \notin {"cats_tide_required", "cats_tide"} =>
                shared_dict'[k] = shared_dict[k]
    BY <1>1, <1>5, <1>8, Stores, Writers DEF Returns, Stored
  <2>3. CatsDecided'
    BY <1>4, <1>5, <1>8, <2>2 DEF CatsDecided
  <2>4. Passed /\ ReadsWhatExists'
    BY <1>1, <2>1, <2>3, NoException DEF Passed, Exceptions
  <2> QED
    BY <1>1, <2>1, <2>2, <2>4, Carry
<1> QED
  BY <1>3, <1>6, <1>7, <1>8

(* The tide model of Antarctica was run for every file that needs it.      *)
LEMMA GeoCorrectionsKInv == ASSUME KInv, GeoCorrections PROVE KInv'
<1> DEFINE Read == {"hemisphere", "instr_mode", "floating_ice_locations", "ocean_locations"}
           cor == [r \in Records |-> CorrectionsOf(r)]
           Update(invalid) == [sum_cor_20_ku |-> cor, invalid_corrections_locs |-> invalid]
<1>1. pos = 8 /\ outcome = "running" /\ UNCHANGED <<config, l1b, chain, product>>
  BY At DEF KInv, Started, GeoCorrections, Calls, Fixed
<1>2. Stored(Read) /\ Stored({"fes2014b_corrections", "cats_tide_required"})
  BY <1>1 DEF KInv, Identified, InBounds, OnSurface, TidesRead, CatsDecided, Stored
<1>3. /\ shared_dict["cats_tide_required"] => Has("cats_tide")
      /\ ~shared_dict["cats_tide_required"] => ~CatsTideRequired
  BY <1>1 DEF KInv, CatsDecided, Has, Stored
<1>4. ASSUME ~CatsTideRequired, NEW r \in Records PROVE CorrectionsOf(r)["CATS"] = 0
  <2>1. \/ shared_dict["hemisphere"] = "north"
        \/ shared_dict["instr_mode"] # "SIN"
        \/ /\ r \notin shared_dict["floating_ice_locations"]
           /\ r \notin shared_dict["ocean_locations"]
    BY <1>4 DEF CatsTideRequired
  <2> QED
    BY <2>1 DEF CorrectionsOf, OceanCorrections, LandCorrections, Times
<1>13. CASE Stops("error")
  <2>1. Moves /\ Keeps /\ outcome' = "error" /\ pos' = 8 /\ UNCHANGED shared_dict
    BY <1>1, <1>13, Ends DEF Outcomes, Stops
  <2>2. Corrected'
    BY <1>1, <2>1 DEF KInv, Corrected, Has
  <2>3. Passed /\ ReadsWhatExists'
    BY <1>1, <2>1, <2>2, NoException DEF Passed
  <2> QED
    BY <1>1, <2>1, <2>3, Carry
<1> SUFFICES ASSUME ~Stops("error") PROVE KInv'
  BY <1>13
<1>5. \E invalid \in SUBSET Records : Returns(Update(invalid))
  <2>1. ~(shared_dict["cats_tide_required"] /\ ~Has("cats_tide"))
    BY <1>3
  <2>2. ~(~shared_dict["cats_tide_required"] /\ \E r \in Records : cor[r]["CATS"] > 0)
    BY <1>3, <1>4
  <2> QED
    BY <1>2, <2>1, <2>2 DEF GeoCorrections, Looking, Reading, Stored
<1>6. PICK invalid \in SUBSET Records : Returns(Update(invalid))
  BY <1>5
<1>7. DOMAIN Update(invalid) = {"sum_cor_20_ku", "invalid_corrections_locs"}
      /\ Update(invalid)["sum_cor_20_ku"] = cor
  OBVIOUS
<1> HIDE DEF Update, cor
<1>8. Moves /\ outcome' \in {"running", "ok"}
  BY <1>1, <1>6, Ends
<1>9. pos' = 9
  BY <1>1, <1>6, After DEF Returns
<1>10. /\ Keeps /\ Stored({"sum_cor_20_ku", "invalid_corrections_locs"})'
       /\ shared_dict'["sum_cor_20_ku"] = cor
       /\ \A k \in Read : shared_dict'[k] = shared_dict[k]
  BY <1>1, <1>2, <1>6, <1>7, Stores, Writers DEF Returns, Stored
<1>11. Corrected'
  <2>1. \A r \in Records : CorrectionsOf(r)' = CorrectionsOf(r)
    BY <1>10 DEF CorrectionsOf, OceanCorrections
  <2> QED
    BY <1>9, <1>10, <2>1 DEF Corrected, cor
<1>12. Passed /\ ReadsWhatExists'
  BY <1>1, <1>8, <1>11, NoException DEF Passed, Exceptions
<1> QED
  BY <1>1, <1>8, <1>10, <1>12, Carry

LEMMA WaveformQualityKInv == ASSUME KInv, WaveformQuality PROVE KInv'
<1> DEFINE Update(ok) == [waveforms_to_include |-> ok \cap shared_dict["dilated_surface_mask"]]
<1>1. pos = 9 /\ outcome = "running" /\ UNCHANGED <<config, l1b, chain, product>>
  BY At DEF KInv, Started, WaveformQuality, Calls, Fixed
<1>2. Stored({"instr_mode", "dilated_surface_mask"})
  BY <1>1 DEF KInv, Identified, InMask, Stored
<1>3. PICK ok \in SUBSET Records : Returns(Update(ok))
  BY <1>2 DEF WaveformQuality, Reading, Stored
<1>4. DOMAIN Update(ok) = {"waveforms_to_include"}
      /\ Update(ok)["waveforms_to_include"] \subseteq shared_dict["dilated_surface_mask"]
  OBVIOUS
<1> HIDE DEF Update
<1>5. Moves /\ outcome' \in {"running", "ok"}
  BY <1>1, <1>3, Ends
<1>6. pos' = 10
  BY <1>1, <1>3, After DEF Returns
<1>7. /\ Keeps /\ Stored({"waveforms_to_include"})'
      /\ shared_dict'["waveforms_to_include"] = Update(ok)["waveforms_to_include"]
      /\ shared_dict'["dilated_surface_mask"] = shared_dict["dilated_surface_mask"]
  BY <1>1, <1>2, <1>3, <1>4, Stores, Writers DEF Returns, Stored
<1>8. Included'
  BY <1>4, <1>6, <1>7 DEF Included
<1>9. Passed /\ ReadsWhatExists'
  BY <1>1, <1>5, <1>8, NoException DEF Passed, Exceptions
<1> QED
  BY <1>1, <1>5, <1>7, <1>9, Carry

LEMMA RetrackKInv == ASSUME KInv, Retrack PROVE KInv'
<1> DEFINE include == shared_dict["waveforms_to_include"]
           Update(retracked) ==
             [k \in RetrackKeys |->
                CASE k = "range_cor_20_ku" ->
                       retracked \ shared_dict["invalid_corrections_locs"]
                  [] OTHER -> retracked]
<1>1. pos = 10 /\ outcome = "running" /\ UNCHANGED <<config, l1b, chain, product>>
  BY At DEF KInv, Started, Retrack, Calls, Fixed
<1>2. Stored({"instr_mode", "waveforms_to_include", "sum_cor_20_ku"})
      /\ Stored({"invalid_corrections_locs"})
  BY <1>1 DEF KInv, Identified, Included, Corrected, Stored
<1>3. Stops("ZeroDivisionError") \/ \E retracked \in SUBSET include : Returns(Update(retracked))
  BY <1>2 DEF Retrack, Reading, Stored
<1>4. CASE Stops("ZeroDivisionError")
  <2>1. Moves /\ Keeps /\ outcome' = "ZeroDivisionError" /\ pos' = 10 /\ UNCHANGED shared_dict
    BY <1>1, <1>4, Ends DEF Outcomes, Exceptions, Stops
  <2>2. Retracked'
    BY <1>1, <2>1 DEF KInv, Retracked, Has
  <2>3. Passed /\ ReadsWhatExists'
    BY <1>1, <2>1, <2>2, NoException DEF Passed, Exceptions
  <2> QED
    BY <1>1, <2>1, <2>3, Carry
<1>5. ASSUME NEW retracked \in SUBSET include, Returns(Update(retracked)) PROVE KInv'
  <2>1. "range_cor_20_ku" \in RetrackKeys /\ "waveforms_to_include" \notin RetrackKeys
        /\ "invalid_corrections_locs" \notin RetrackKeys
    BY DEF RetrackKeys
  <2>2. DOMAIN Update(retracked) = RetrackKeys
        /\ Update(retracked)["range_cor_20_ku"]
             = retracked \ shared_dict["invalid_corrections_locs"]
    BY <2>1
  <2> HIDE DEF Update
  <2>3. Moves /\ outcome' \in {"running", "ok"}
    BY <1>1, <1>5, Ends
  <2>4. pos' = 11
    BY <1>1, <1>5, After DEF Returns
  <2>5. Keeps /\ \A k \in RetrackKeys : /\ k \in DOMAIN shared_dict'
                                        /\ shared_dict'[k] = Update(retracked)[k]
    BY <1>1, <1>5, <2>2, Stores, Writers DEF Returns
  <2>6. \A k \in {"waveforms_to_include", "invalid_corrections_locs"} :
          shared_dict'[k] = shared_dict[k]
    BY <1>1, <1>2, <2>5, OldKey, Writers DEF Stored
  <2>7. Retracked'
    BY <2>1, <2>2, <2>4, <2>5, <2>6 DEF Retracked, Stored
  <2>8. Passed /\ ReadsWhatExists'
    BY <1>1, <2>3, <2>7, NoException DEF Passed, Exceptions
  <2> QED
    BY <1>1, <2>3, <2>5, <2>8, Carry
<1> QED
  BY <1>3, <1>4, <1>5

LEMMA BackscatterKInv == ASSUME KInv, Backscatter PROVE KInv'
<1>1. pos = 11 /\ outcome = "running" /\ UNCHANGED <<config, l1b, chain, product>>
  BY At DEF KInv, Started, Backscatter, Calls, Fixed
<1>2. {"pwr_at_rtrk_point", "range_cor_20_ku", "instr_mode"} \subseteq DOMAIN shared_dict
  BY <1>1 DEF KInv, Identified, Retracked, Stored, RetrackKeys
<1>3. shared_dict["instr_mode"] \in {"LRM", "SIN"}
  BY <1>1 DEF KInv, ModeWanted
<1>4. Returns([sig0_20_ku |-> "sig0"])
  BY <1>2, <1>3 DEF Backscatter, Reading
<1>5. Moves /\ outcome' \in {"running", "ok"}
  BY <1>1, <1>4, Ends
<1>6. Keeps /\ Stored({"sig0_20_ku"})'
  BY <1>1, <1>4, Stores, Writers DEF Returns, Stored
<1>7. Passed /\ ReadsWhatExists'
  BY <1>1, <1>5, <1>6, NoException DEF Passed, Scattered, Exceptions
<1> QED
  BY <1>1, <1>5, <1>6, <1>7, Carry

(* The records that are retracked are records of the track.                *)
LEMMA RangeFacts ==
    ASSUME KInv, pos > 10
    PROVE  /\ shared_dict["range_cor_20_ku"] \subseteq Records
           /\ shared_dict["range_cor_20_ku"] \subseteq shared_dict["waveforms_to_include"]
           /\ Stored(RetrackKeys)
           /\ Stored({"instr_mode", "hemisphere", "cryotempo_surface_type",
                      "waveforms_to_include"})
           /\ shared_dict["instr_mode"] \in {"LRM", "SIN"}
           /\ ~(shared_dict["hemisphere"] = "south" /\ config["grn_only"])
           /\ shared_dict["hemisphere"] \in {"north", "south"}
<1>1. pos \in 1..19
  BY At DEF KInv, Started
<1>2. pos > 1 /\ pos > 2 /\ pos > 3 /\ pos > 4 /\ pos > 5 /\ pos > 9
  BY <1>1
<1> QED
  BY <1>2 DEF KInv, Retracked, Included, InMask, Identified, ModeWanted, InBounds, OnSurface,
              Stored

(* A geolocation that stores the POCAs it found.                           *)
LEMMA LocatedKInv ==
    ASSUME KInv, pos \in {12, 13}, outcome = "running",
           UNCHANGED <<config, l1b, chain, product>>,
           NEW update, NEW pocas, NEW heights, Returns(update),
           \A k \in DOMAIN update : pos \in WrittenAt(k),
           {"latitudes", "longitudes", "height_20_ku"} \subseteq DOMAIN update,
           update["latitudes"] = Source(pocas, "nadir"),
           update["longitudes"] = Source(pocas, "nadir"),
           update["height_20_ku"] = heights,
           heights \subseteq shared_dict["range_cor_20_ku"],
           \A r \in heights : r \in pocas \/ (chain = B001 /\ TypeAt(r) # 1)
    PROVE  KInv'
<1>1. Moves /\ outcome' \in {"running", "ok"}
  BY Ends
<1>2. pos' > 12
  BY After DEF Returns
<1>3. /\ Keeps
      /\ \A k \in DOMAIN update : k \in DOMAIN shared_dict' /\ shared_dict'[k] = update[k]
  BY Stores DEF Returns
<1>4. Stored(RetrackKeys) /\ "cryotempo_surface_type" \in DOMAIN shared_dict
      /\ heights \subseteq Records
  BY RangeFacts DEF Stored
<1>5. shared_dict'["range_cor_20_ku"] = shared_dict["range_cor_20_ku"]
      /\ shared_dict'["cryotempo_surface_type"] = shared_dict["cryotempo_surface_type"]
  <2>1. "range_cor_20_ku" \in RetrackKeys
    BY DEF RetrackKeys
  <2> QED
    BY <1>3, <1>4, <2>1, OldKey, Writers DEF Stored
<1>6. shared_dict'["latitudes"] = Source(pocas, "nadir")
      /\ shared_dict'["longitudes"] = Source(pocas, "nadir")
      /\ shared_dict'["height_20_ku"] = heights
  BY <1>3
<1>7. \A r \in Records : /\ Source(pocas, "nadir")[r] # "nan"
                         /\ r \in pocas => Source(pocas, "nadir")[r] = "poca"
  BY DEF Source
<1>8. Geolocated'
  <2>1. \A r \in Records : Place(r)' # "nan"
    BY <1>6, <1>7 DEF Place
  <2>2. \A r \in heights : Place(r)' = "poca" \/ (chain' = B001 /\ TypeAt(r)' # 1)
    BY <1>4, <1>5, <1>6, <1>7 DEF Place, TypeAt
  <2> QED
    BY <1>2, <1>3, <1>5, <1>6, <2>1, <2>2 DEF Geolocated, Has, Stored
<1>9. Passed /\ ReadsWhatExists'
  BY <1>1, <1>8, NoException DEF Passed, Exceptions
<1> QED
  BY <1>1, <1>3, <1>9, Carry

(* A geolocation that is not for the mode of the file.                     *)
LEMMA OtherModeKInv ==
    ASSUME KInv, outcome = "running", UNCHANGED <<config, l1b, chain, product>>,
           PassesThrough,
           \/ pos = 12 /\ shared_dict["instr_mode"] # "LRM"
           \/ pos = 13 /\ shared_dict["instr_mode"] # "SIN"
    PROVE  KInv'
<1>1. Moves /\ Keeps /\ outcome' \in {"running", "ok"} /\ UNCHANGED shared_dict
  BY Ends DEF PassesThrough
<1>2. pos' = pos + 1
  BY After DEF PassesThrough
<1>3. Geolocated'
  <2>1. Geolocated
    BY DEF KInv
  <2>2. CASE pos = 12
    <3>1. ~Has("latitudes") /\ ~Has("height_20_ku")
      BY <2>1, <2>2 DEF Geolocated
    <3> QED
      BY <1>1, <1>2, <2>2, <3>1 DEF Geolocated, Has
  <2>3. CASE pos = 13
    <3>1. shared_dict["instr_mode"] \in {"LRM", "SIN"}
      BY <2>3, RangeFacts
    <3>2. Has("latitudes")
      BY <2>1, <2>3, <3>1 DEF Geolocated
    <3>3. pos' > 12
      BY <1>2, <2>3
    <3> QED
      BY <1>1, <2>1, <3>2, <3>3 DEF Geolocated, Has, Stored, Place, TypeAt, Moves
  <2> QED
    BY <2>2, <2>3
<1>4. Passed /\ ReadsWhatExists'
  BY <1>1, <1>3, NoException DEF Passed, Exceptions
<1> QED
  BY <1>1, <1>4, Carry

(* The keys and values of the arrays that a geolocation stores.            *)
LEMMA LocatedFacts ==
    ASSUME NEW pocas, NEW heights
    PROVE  /\ DOMAIN Located(pocas, heights) = {"lat_poca_20_ku", "lon_poca_20_ku", "latitudes",
                                                "longitudes", "height_20_ku"}
           /\ Located(pocas, heights)["latitudes"] = Source(pocas, "nadir")
           /\ Located(pocas, heights)["longitudes"] = Source(pocas, "nadir")
           /\ Located(pocas, heights)["height_20_ku"] = heights
<1> DEFINE found == Source(pocas, "nan")
           failed == {r \in Records : found[r] = "nan"}
<1>1. Filled(found, failed) = Source(pocas, "nadir")
  BY DEF Filled, Source
<1>2. Located(pocas, heights) =
        [lat_poca_20_ku |-> Filled(found, failed), lon_poca_20_ku |-> Filled(found, failed),
         latitudes      |-> Filled(found, failed), longitudes     |-> Filled(found, failed),
         height_20_ku   |-> heights]
  BY DEF Located
<1> HIDE DEF found, failed
<1> QED
  BY <1>1, <1>2

LEMMA RoemerHeightsKInv ==
    ASSUME KInv, pos = 12, outcome = "running", UNCHANGED <<config, l1b, chain, product>>,
           NEW slope_ok, NEW more,
           DOMAIN more \subseteq {"roemer_slope_ok", "relocation_distance", "lepta_slope_ok"},
           Returns(Updated(Located(slope_ok, RoemerHeights(slope_ok)), more))
    PROVE  KInv'
<1> DEFINE heights == RoemerHeights(slope_ok)
           located == Located(slope_ok, heights)
           update == Updated(located, more)
           keys == {"lat_poca_20_ku", "lon_poca_20_ku", "latitudes", "longitudes",
                    "height_20_ku"}
<1>1. /\ DOMAIN located = keys
      /\ located["latitudes"] = Source(slope_ok, "nadir")
      /\ located["longitudes"] = Source(slope_ok, "nadir")
      /\ located["height_20_ku"] = heights
  BY LocatedFacts
<1>2. Returns(update)
  OBVIOUS
<1>3. heights \subseteq shared_dict["range_cor_20_ku"] /\ heights \subseteq slope_ok
  BY DEF RoemerHeights
<1> HIDE DEF heights, located
<1>4. DOMAIN update = DOMAIN more \cup keys
      /\ \A k \in keys : update[k] = located[k]
  BY <1>1 DEF Updated
<1> HIDE DEF update
<1>5. \A k \in DOMAIN update : 12 \in WrittenAt(k)
  BY <1>4, Writers
<1> QED
  BY <1>1, <1>2, <1>3, <1>4, <1>5, LocatedKInv

LEMMA GeolocateRoemerKInv == ASSUME KInv, GeolocateRoemer PROVE KInv'
<1> DEFINE More(slope_ok) == [roemer_slope_ok |-> slope_ok, relocation_distance |-> slope_ok]
<1>1. pos = 12 /\ outcome = "running" /\ UNCHANGED <<config, l1b, chain, product>>
      /\ chain[pos] = "alg_geolocate_roemer"
  BY At DEF KInv, Started, GeolocateRoemer, Calls, Fixed
<1>2. SlopeReads \subseteq DOMAIN shared_dict
  BY <1>1, RangeFacts DEF SlopeReads, Stored, RetrackKeys
<1>3. ~(shared_dict["hemisphere"] = "south" /\ config["grn_only"])
  BY <1>1, RangeFacts
<1>4. \/ shared_dict["instr_mode"] # "LRM" /\ PassesThrough
      \/ shared_dict["hemisphere"] = "north" /\ config["ais_only"] /\ Stops("ValueError")
      \/ \E slope_ok \in SUBSET shared_dict["waveforms_to_include"] :
           Returns(Updated(Located(slope_ok, RoemerHeights(slope_ok)), More(slope_ok)))
  BY <1>2, <1>3 DEF GeolocateRoemer, Reading
<1>5. CASE shared_dict["instr_mode"] # "LRM" /\ PassesThrough
  BY <1>1, <1>5, OtherModeKInv
<1>6. CASE shared_dict["hemisphere"] = "north" /\ config["ais_only"] /\ Stops("ValueError")
  <2>1. Moves /\ Keeps /\ outcome' = "ValueError" /\ pos' = pos /\ UNCHANGED shared_dict
    BY <1>1, <1>6, Ends DEF Outcomes, Exceptions, Stops
  <2>2. Geolocated'
    BY <1>1, <2>1 DEF KInv, Geolocated, Has
  <2>3. ReadsWhatExists'
    BY <1>1, <1>6, <2>1 DEF ReadsWhatExists
  <2>4. Passed
    BY <1>1, <2>2 DEF Passed
  <2> QED
    BY <1>1, <2>1, <2>3, <2>4, Carry
<1>7. ASSUME NEW slope_ok,
             Returns(Updated(Located(slope_ok, RoemerHeights(slope_ok)), More(slope_ok)))
      PROVE  KInv'
  <2>1. DOMAIN More(slope_ok) = {"roemer_slope_ok", "relocation_distance"}
    OBVIOUS
  <2> HIDE DEF More
  <2> QED
    BY <1>1, <1>7, <2>1, RoemerHeightsKInv
<1> QED
  BY <1>4, <1>5, <1>6, <1>7

LEMMA GeolocateLeptaKInv == ASSUME KInv, GeolocateLepta PROVE KInv'
<1> DEFINE More(slope_ok) == [lepta_slope_ok |-> slope_ok]
<1>1. pos = 12 /\ outcome = "running" /\ UNCHANGED <<config, l1b, chain, product>>
  BY At DEF KInv, Started, GeolocateLepta, Calls, Fixed
<1>2. (SlopeReads \ {"instr_mode"}) \cup {"leading_edge_start", "leading_edge_stop"}
        \subseteq DOMAIN shared_dict
  BY <1>1, RangeFacts DEF SlopeReads, Stored, RetrackKeys
<1>3. ~(shared_dict["hemisphere"] = "south" /\ config["grn_only"])
  BY <1>1, RangeFacts
<1>4. PICK slope_ok :
        Returns(Updated(Located(slope_ok, RoemerHeights(slope_ok)), More(slope_ok)))
  BY <1>2, <1>3 DEF GeolocateLepta, Reading
<1>5. DOMAIN More(slope_ok) = {"lepta_slope_ok"}
  OBVIOUS
<1> HIDE DEF More
<1> QED
  BY <1>1, <1>4, <1>5, RoemerHeightsKInv

LEMMA GeolocateLrmKInv == ASSUME KInv, GeolocateLrm PROVE KInv'
<1> DEFINE ranged == shared_dict["range_cor_20_ku"]
           grounded == {r \in Records : shared_dict["cryotempo_surface_type"][r] = 1}
<1>1. pos = 12 /\ outcome = "running" /\ UNCHANGED <<config, l1b, chain, product>>
      /\ chain = B001
  BY At DEF KInv, Started, GeolocateLrm, Calls, Fixed
<1>2. {"instr_mode", "cryotempo_surface_type", "range_cor_20_ku"} \subseteq DOMAIN shared_dict
      /\ ranged \subseteq Records
  BY <1>1, RangeFacts DEF Stored, RetrackKeys
<1>3. \/ shared_dict["instr_mode"] # "LRM" /\ PassesThrough
      \/ \E sloped \in SUBSET (grounded \cap ranged) :
           Returns(Located(sloped, sloped \cup (ranged \ grounded)))
  BY <1>2 DEF GeolocateLrm, Reading
<1>4. CASE shared_dict["instr_mode"] # "LRM" /\ PassesThrough
  BY <1>1, <1>4, OtherModeKInv
<1>5. ASSUME NEW sloped \in SUBSET (grounded \cap ranged),
             Returns(Located(sloped, sloped \cup (ranged \ grounded)))
      PROVE  KInv'
  <2> DEFINE heights == sloped \cup (ranged \ grounded)
             update == Located(sloped, heights)
  <2>1. heights \subseteq ranged
        /\ \A r \in heights : r \in sloped \/ (chain = B001 /\ TypeAt(r) # 1)
    BY <1>1, <1>2 DEF TypeAt
  <2>2. Returns(update)
    BY <1>5
  <2>3. /\ DOMAIN update = {"lat_poca_20_ku", "lon_poca_20_ku", "latitudes", "longitudes",
                            "height_20_ku"}
        /\ update["latitudes"] = Source(sloped, "nadir")
        /\ update["longitudes"] = Source(sloped, "nadir")
        /\ update["height_20_ku"] = heights
    BY LocatedFacts
  <2> HIDE DEF heights, update
  <2>4. \A k \in DOMAIN update : 12 \in WrittenAt(k)
    BY <2>3, Writers
  <2> QED
    BY <1>1, <2>1, <2>2, <2>3, <2>4, LocatedKInv
<1> QED
  BY <1>3, <1>4, <1>5

LEMMA GeolocateSinKInv == ASSUME KInv, GeolocateSin PROVE KInv'
<1> DEFINE Update(pocas) ==
             [Located(pocas, pocas) EXCEPT !["lon_poca_20_ku"] = Source(pocas, "nan")]
<1>1. pos = 13 /\ outcome = "running" /\ UNCHANGED <<config, l1b, chain, product>>
  BY At DEF KInv, Started, GeolocateSin, Calls, Fixed
<1>2. /\ {"instr_mode"} \subseteq DOMAIN shared_dict
      /\ {"range_cor_20_ku", "ind_wfm_retrack_20_ku"} \subseteq DOMAIN shared_dict
  BY <1>1, RangeFacts DEF Stored, RetrackKeys
<1>3. shared_dict["instr_mode"] = "SIN" => ~(l1b.lats[1] < 0 /\ config["grn_only"])
  BY <1>1 DEF KInv, InBounds
<1>4. \/ shared_dict["instr_mode"] # "SIN" /\ PassesThrough
      \/ \E pocas \in SUBSET shared_dict["range_cor_20_ku"] : Returns(Update(pocas))
  BY <1>2, <1>3 DEF GeolocateSin, Reading
<1>5. CASE shared_dict["instr_mode"] # "SIN" /\ PassesThrough
  BY <1>1, <1>5, OtherModeKInv
<1>6. ASSUME NEW pocas \in SUBSET shared_dict["range_cor_20_ku"], Returns(Update(pocas))
      PROVE  KInv'
  <2> DEFINE update == Update(pocas)
             located == Located(pocas, pocas)
  <2>1. /\ DOMAIN located = {"lat_poca_20_ku", "lon_poca_20_ku", "latitudes", "longitudes",
                             "height_20_ku"}
        /\ located["latitudes"] = Source(pocas, "nadir")
        /\ located["longitudes"] = Source(pocas, "nadir")
        /\ located["height_20_ku"] = pocas
    BY LocatedFacts
  <2>2. update = [located EXCEPT !["lon_poca_20_ku"] = Source(pocas, "nan")]
    OBVIOUS
  <2>3. Returns(update)
    BY <1>6
  <2> HIDE DEF located, update
  <2>4. /\ DOMAIN update = {"lat_poca_20_ku", "lon_poca_20_ku", "latitudes", "longitudes",
                            "height_20_ku"}
        /\ \A k \in {"latitudes", "longitudes", "height_20_ku"} : update[k] = located[k]
    BY <2>1, <2>2
  <2>5. \A k \in DOMAIN update : 13 \in WrittenAt(k)
    BY <2>4, Writers
  <2> QED
    BY <1>1, <2>1, <2>3, <2>4, <2>5, LocatedKInv
<1> QED
  BY <1>4, <1>5, <1>6

LEMMA BasinIdsKInv == ASSUME KInv, BasinIds PROVE KInv'
<1> DEFINE south == shared_dict["hemisphere"] = "south"
           update == [basin_mask_values_rignot   |-> "basins",
                      basin_mask_values_zwally   |-> IF south THEN "basins" ELSE "None",
                      basin_mask_values_mouginot |-> IF south THEN "None" ELSE "basins"]
           keys == {"basin_mask_values_rignot", "basin_mask_values_zwally",
                    "basin_mask_values_mouginot"}
<1>1. pos = 14 /\ outcome = "running" /\ UNCHANGED <<config, l1b, chain, product>>
  BY At DEF KInv, Started, BasinIds, Calls, Fixed
<1>2. Stored({"hemisphere", "latitudes", "longitudes"})
      /\ ~(shared_dict["hemisphere"] = "south" /\ config["grn_only"])
  BY <1>1 DEF KInv, InBounds, Geolocated, Has, Stored
<1>3. Returns(update)
  BY <1>2 DEF BasinIds, Reading, Stored
<1>4. /\ DOMAIN update = keys
      /\ update["basin_mask_values_zwally"] = IF south THEN "basins" ELSE "None"
      /\ update["basin_mask_values_mouginot"] = IF south THEN "None" ELSE "basins"
  OBVIOUS
<1> HIDE DEF update
<1>5. Moves /\ outcome' \in {"running", "ok"}
  BY <1>1, <1>3, Ends
<1>6. /\ Keeps /\ shared_dict'["hemisphere"] = shared_dict["hemisphere"]
      /\ \A k \in keys : k \in DOMAIN shared_dict' /\ shared_dict'[k] = update[k]
  BY <1>1, <1>2, <1>3, <1>4, Stores, Writers DEF Returns, Stored
<1>7. Basins'
  BY <1>4, <1>6 DEF Basins, BasinKey, Stored
<1>8. Passed /\ ReadsWhatExists'
  BY <1>1, <1>5, <1>7, NoException DEF Passed, Exceptions
<1> QED
  BY <1>1, <1>5, <1>6, <1>8, Carry

LEMMA RefDemKInv == ASSUME KInv, RefDem PROVE KInv'
<1>1. pos = 15 /\ outcome = "running" /\ UNCHANGED <<config, l1b, chain, product>>
  BY At DEF KInv, Started, RefDem, Calls, Fixed
<1>2. Stored({"hemisphere", "latitudes", "longitudes"})
      /\ ~(shared_dict["hemisphere"] = "south" /\ config["grn_only"])
  BY <1>1 DEF KInv, InBounds, Geolocated, Has, Stored
<1>3. Returns([dem_elevation_values |-> "elevations"])
  BY <1>2 DEF RefDem, Reading, Stored, ValuesHere
<1>4. Moves /\ outcome' \in {"running", "ok"}
  BY <1>1, <1>3, Ends
<1>5. Keeps /\ Stored({"dem_elevation_values"})'
      /\ shared_dict'["dem_elevation_values"] = "elevations"
  BY <1>1, <1>3, Stores, Writers DEF Returns, Stored
<1>6. Passed /\ ReadsWhatExists'
  BY <1>1, <1>4, <1>5, NoException DEF Passed, Elevated, Exceptions
<1> QED
  BY <1>1, <1>4, <1>5, <1>6, Carry

LEMMA FilterHeightKInv == ASSUME KInv, FilterHeight PROVE KInv'
<1> DEFINE Update(outliers) == [height_filt |-> shared_dict["height_20_ku"] \ outliers]
           copy == [height_filt |-> shared_dict["height_20_ku"]]
<1>1. pos = 16 /\ outcome = "running" /\ UNCHANGED <<config, l1b, chain, product>>
      /\ chain[pos] = "alg_filter_height"
  BY At DEF KInv, Started, FilterHeight, Calls, Fixed
<1>2. Stored({"height_20_ku", "dem_elevation_values", "instr_mode", "hemisphere"})
      /\ shared_dict["dem_elevation_values"] # "None"
  BY <1>1 DEF KInv, Identified, InBounds, Geolocated, Elevated, Has, Stored
<1>3. \/ Stops("error")
      \/ config["no_max_diff"] /\ StopsAfter(copy, "ValueError")
      \/ \E outliers : Returns(Update(outliers))
  BY <1>2 DEF FilterHeight, Looking, Has, Stored
<1>4. CASE Stops("error")
  <2>1. Moves /\ Keeps /\ outcome' = "error" /\ pos' = 16 /\ UNCHANGED shared_dict
    BY <1>1, <1>4, Ends DEF Outcomes, Stops
  <2>2. Filtered'
    BY <1>1, <2>1 DEF KInv, Filtered, Has
  <2>3. Passed /\ ReadsWhatExists'
    BY <1>1, <2>1, <2>2, NoException DEF Passed
  <2> QED
    BY <1>1, <2>1, <2>3, Carry
<1>5. CASE config["no_max_diff"] /\ StopsAfter(copy, "ValueError")
  <2>1. Moves /\ outcome' = "ValueError" /\ pos' = 16
    BY <1>1, <1>5, Ends DEF Outcomes, Exceptions
  <2>2. DOMAIN copy = {"height_filt"} /\ copy["height_filt"] = shared_dict["height_20_ku"]
    OBVIOUS
  <2> HIDE DEF copy
  <2>3. /\ Keeps /\ shared_dict'["height_filt"] = shared_dict["height_20_ku"]
        /\ shared_dict'["height_20_ku"] = shared_dict["height_20_ku"]
    BY <1>1, <1>2, <1>5, <2>2, Stores, Writers DEF StopsAfter, Stored
  <2>4. Filtered'
    BY <2>1, <2>3 DEF Filtered
  <2>5. ReadsWhatExists'
    BY <1>1, <1>5, <2>1 DEF ReadsWhatExists
  <2>6. Passed
    BY <1>1, <2>4 DEF Passed
  <2> QED
    BY <1>1, <2>1, <2>3, <2>5, <2>6, Carry
<1>6. ASSUME NEW outliers, Returns(Update(outliers)) PROVE KInv'
  <2>1. DOMAIN Update(outliers) = {"height_filt"}
        /\ Update(outliers)["height_filt"] \subseteq shared_dict["height_20_ku"]
    OBVIOUS
  <2> HIDE DEF Update
  <2>2. Moves /\ outcome' \in {"running", "ok"}
    BY <1>1, <1>6, Ends
  <2>3. pos' = 17
    BY <1>1, <1>6, After DEF Returns
  <2>4. /\ Keeps /\ Stored({"height_filt"})'
        /\ shared_dict'["height_filt"] = Update(outliers)["height_filt"]
        /\ shared_dict'["height_20_ku"] = shared_dict["height_20_ku"]
    BY <1>1, <1>2, <1>6, <2>1, Stores, Writers DEF Returns, Stored
  <2>5. Filtered'
    BY <2>1, <2>3, <2>4 DEF Filtered
  <2>6. Passed /\ ReadsWhatExists'
    BY <1>1, <2>2, <2>5, NoException DEF Passed
  <2> QED
    BY <1>1, <2>2, <2>4, <2>6, Carry
<1> QED
  BY <1>3, <1>4, <1>5, <1>6

LEMMA UncertaintyKInv == ASSUME KInv, Uncertainty PROVE KInv'
<1>1. pos = 17 /\ outcome = "running" /\ UNCHANGED <<config, l1b, chain, product>>
  BY At DEF KInv, Started, Uncertainty, Calls, Fixed
<1>2. Stored({"hemisphere", "latitudes", "longitudes"})
      /\ ~(shared_dict["hemisphere"] = "south" /\ config["grn_only"])
  BY <1>1 DEF KInv, InBounds, Geolocated, Has, Stored
<1>3. Returns([uncertainty |-> "uncertainty"])
  BY <1>2 DEF Uncertainty, Reading, Stored, ValuesHere
<1>4. Moves /\ outcome' \in {"running", "ok"}
  BY <1>1, <1>3, Ends
<1>5. Keeps /\ Stored({"uncertainty"})' /\ shared_dict'["uncertainty"] = "uncertainty"
  BY <1>1, <1>3, Stores, Writers DEF Returns, Stored
<1>6. Passed /\ ReadsWhatExists'
  BY <1>1, <1>4, <1>5, NoException DEF Passed, Uncertain, Exceptions
<1> QED
  BY <1>1, <1>4, <1>5, <1>6, Carry

(* No key the product needs is missing when the product is written.        *)
LEMMA ProductOutputKInv == ASSUME KInv, ProductOutput PROVE KInv'
<1> DEFINE update == [product_filename |-> "product"]
<1>1. pos = 18 /\ outcome = "running" /\ UNCHANGED <<config, l1b, chain>>
      /\ chain[pos] = "alg_product_output"
  BY At DEF KInv, Started, ProductOutput, Calls
<1>2. ProductKeys \subseteq DOMAIN shared_dict /\ Has("hemisphere")
  BY <1>1 DEF KInv, Started, Identified, InBounds, OnSurface, Scattered, Geolocated, Basins,
              Elevated, Filtered, Uncertain, Has, Stored, ProductKeys
<1>3. /\ BasinKey \in DOMAIN shared_dict /\ shared_dict[BasinKey] # "None"
      /\ shared_dict["dem_elevation_values"] # "None" /\ shared_dict["uncertainty"] # "None"
  BY <1>1 DEF KInv, Basins, Elevated, Uncertain, Stored, BasinKey
<1>4. WriteProduct => \/ \E failure \in WriteFailures : Stops(failure)
                      \/ config["no_product_output"] /\ Stops("KeyError")
                      \/ Returns(update)
  <2>1. "None" \notin {shared_dict[k] : k \in {BasinKey, "dem_elevation_values", "uncertainty"}}
    BY <1>3
  <2> QED
    BY <1>2, <1>3, <2>1 DEF WriteProduct, Reading
<1>5. product = "none"
  BY <1>1 DEF KInv, Produced
<1>6. \/ Stops("error") /\ UNCHANGED product
      \/ WriteProduct /\ product' = IF outcome' \in {"running", "ok"} THEN "complete" ELSE "partial"
  BY <1>2 DEF ProductOutput
<1>7. /\ Moves /\ Keeps
      /\ \/ outcome' \in {"running", "ok", "error"} \cup WriteFailures
         \/ config["no_product_output"] /\ outcome' = "KeyError" /\ pos' = pos
  <2>1. CASE Stops("error")
    BY <1>1, <2>1, Ends DEF Outcomes
  <2>2. CASE Returns(update)
    <3>1. Moves /\ outcome' \in {"running", "ok"}
      BY <1>1, <2>2, Ends
    <3>2. DOMAIN update = {"product_filename"}
      OBVIOUS
    <3> HIDE DEF update
    <3>3. Keeps
      BY <1>1, <2>2, <3>2, Stores, Writers DEF Returns
    <3> QED
      BY <3>1, <3>3
  <2>3. ASSUME NEW failure \in WriteFailures, Stops(failure)
        PROVE  Moves /\ Keeps /\ outcome' \in WriteFailures
    BY <1>1, <2>3, Ends DEF Outcomes, WriteFailures
  <2>4. CASE config["no_product_output"] /\ Stops("KeyError")
    BY <1>1, <2>4, Ends DEF Outcomes, Exceptions
  <2> QED
    BY <1>4, <1>6, <2>1, <2>2, <2>3, <2>4
<1>8. pos' > 17
  <2>1. pos' = pos \/ pos' = pos + 1
    BY <1>7, PositionMoves
  <2> QED
    BY <1>1, <2>1
<1>9. outcome' = "running" => pos' = 19
  BY <1>1, <1>7 DEF Moves
<1>10. Produced' /\ HemisphereFound' /\ ReadsWhatExists'
  <2>1. product' \in {"none", "partial", "complete"}
    BY <1>5, <1>6
  <2>2. Produced'
    BY <1>8, <1>9, <2>1 DEF Produced
  <2>3. ReadsWhatExists'
    <3>1. CASE outcome' \in {"running", "ok", "error"} \cup WriteFailures
      BY <3>1, NoException
    <3>2. CASE config["no_product_output"] /\ pos' = pos
      BY <1>1, <3>2 DEF ReadsWhatExists
    <3> QED
      BY <1>7, <3>1, <3>2
  <2> QED
    BY <1>7, <2>2, <2>3 DEF HemisphereFound, Moves
<1>11. Started' /\ Identified' /\ ModeWanted' /\ InBounds' /\ OnSurface' /\ InMask'
       /\ TidesRead' /\ CatsDecided'
  BY <1>1, <1>7, FrameFirst
<1>12. Corrected' /\ Included' /\ Retracked' /\ Scattered' /\ Geolocated' /\ Basins'
       /\ Elevated' /\ Filtered' /\ Uncertain'
  BY <1>1, <1>7, FrameLast
<1> QED
  BY <1>10, <1>11, <1>12 DEF KInv

LEMMA DumpKInv == ASSUME KInv, Dump PROVE KInv'
<1>1. pos = 19 /\ outcome = "running" /\ UNCHANGED <<config, l1b, chain, product>>
      /\ PassesThrough
  BY At DEF KInv, Started, Dump, Calls, Fixed
<1>2. Moves /\ Keeps /\ outcome' \in {"running", "ok"}
  BY <1>1, Ends
<1>3. pos' \in 1..19 /\ (pos' = 19 \/ pos' = 19 + 1)
  BY <1>1, <1>2, PositionMoves
<1>4. Produced' /\ HemisphereFound' /\ ReadsWhatExists'
  <2>1. pos' = 19
    BY <1>3
  <2>2. Produced'
    BY <1>1, <1>2, <2>1 DEF KInv, Produced
  <2> QED
    BY <1>2, <2>2, NoException DEF HemisphereFound, Exceptions
<1>5. Started' /\ Identified' /\ ModeWanted' /\ InBounds' /\ OnSurface' /\ InMask'
      /\ TidesRead' /\ CatsDecided'
  BY <1>1, <1>2, FrameFirst
<1>6. Corrected' /\ Included' /\ Retracked' /\ Scattered' /\ Geolocated' /\ Basins'
      /\ Elevated' /\ Filtered' /\ Uncertain'
  BY <1>1, <1>2, FrameLast
<1> QED
  BY <1>4, <1>5, <1>6 DEF KInv
-----------------------------------------------------------------------------
(* The invariant, and what it says.                                        *)

LEMMA InitKInv == Init => KInv
<1> SUFFICES ASSUME Init PROVE KInv
  OBVIOUS
<1>1. /\ config \in Options /\ chain \in Chains /\ pos = 1 /\ outcome = "running"
      /\ l1b \in [mode : Modes, lats : Tracks, surface : [Records -> Surfaces]]
      /\ DOMAIN shared_dict = {"l1b_file_name"} /\ product = "none"
  BY DEF Init
<1>2. pos \in 1..Len(chain)
  <2>1. Len(chain) \in {18, 19}
    BY <1>1, ConfigAssumption, ListFacts
  <2>2. ASSUME NEW n \in {18, 19} PROVE 1 \in 1..n
    OBVIOUS
  <2> QED
    BY <1>1, <2>1, <2>2
<1>3. Started
  BY <1>1, <1>2 DEF Started, Stored, Outcomes
<1>4. /\ Identified /\ ModeWanted /\ InBounds /\ OnSurface /\ InMask /\ TidesRead /\ CatsDecided
      /\ Corrected /\ Included /\ Retracked /\ Scattered /\ Geolocated /\ Basins /\ Elevated
      /\ Filtered /\ Uncertain /\ Produced
  BY <1>1 DEF Identified, ModeWanted, InBounds, OnSurface, InMask, TidesRead, CatsDecided,
              Corrected, Included, Retracked, Scattered, Geolocated, Basins, Elevated,
              Filtered, Uncertain, Produced, Has
<1>5. ReadsWhatExists /\ HemisphereFound
  BY <1>1 DEF ReadsWhatExists, HemisphereFound, NotThere, Exceptions
<1> QED
  BY <1>3, <1>4, <1>5 DEF KInv

LEMMA StutterKInv == KInv /\ UNCHANGED vars => KInv'
<1> SUFFICES ASSUME KInv, UNCHANGED vars PROVE KInv'
  OBVIOUS
<1>1. Started' /\ Identified' /\ ModeWanted' /\ InBounds' /\ OnSurface' /\ InMask'
      /\ TidesRead' /\ CatsDecided'
  BY DEF KInv, vars, Started, Identified, ModeWanted, InBounds, OnSurface, TypeAt, InMask,
         TidesRead, CatsDecided, CatsTideRequired, Has, Stored
<1>2. Corrected'
  BY DEF KInv, vars, Corrected, CorrectionsOf, OceanCorrections, Has, Stored
<1>3. Included' /\ Retracked' /\ Scattered'
  BY DEF KInv, vars, Included, Retracked, Scattered, Has, Stored
<1>4. Geolocated'
  BY DEF KInv, vars, Geolocated, Place, TypeAt, Has, Stored
<1>5. Basins' /\ Elevated' /\ Filtered' /\ Uncertain'
  BY DEF KInv, vars, Basins, BasinKey, Elevated, Filtered, Uncertain, Has, Stored
<1>6. Produced' /\ ReadsWhatExists' /\ HemisphereFound'
  BY DEF KInv, vars, Produced, ReadsWhatExists, HemisphereFound
<1> QED
  BY <1>1, <1>2, <1>3, <1>4, <1>5, <1>6 DEF KInv

LEMMA NextKInv == KInv /\ [Next]_vars => KInv'
  BY StutterKInv, IdentifyFileKInv, SkipOnModeKInv, SkipOnAreaBoundsKInv, SurfaceTypeKInv,
     DilatedCoastalMaskKInv, Fes2014bTideCorrectionKInv, Cats2008aTideCorrectionKInv,
     GeoCorrectionsKInv, WaveformQualityKInv, RetrackKInv, BackscatterKInv,
     GeolocateRoemerKInv, GeolocateLeptaKInv, GeolocateLrmKInv, GeolocateSinKInv,
     BasinIdsKInv, RefDemKInv, FilterHeightKInv, UncertaintyKInv, ProductOutputKInv, DumpKInv
     DEF Next

LEMMA KInvariant == Spec => []KInv
  BY InitKInv, NextKInv, PTL DEF Spec

(* Whatever the file, the settings and the list, no algorithm reads a key  *)
(* that no earlier one stored or uses a mask or DEM that was not loaded,   *)
(* but for the DEM of Greenland with ais_only and two settings left out,   *)
(* and the hemisphere of a file within the bounds is always found.         *)
THEOREM KeysAreInOrder == Spec => []KeysInOrder
<1>1. KInv => TypeOK
  <2> SUFFICES ASSUME KInv PROVE TypeOK
    OBVIOUS
  <2>1. pos \in 1..19
    BY At DEF KInv, Started
  <2>2. Has("dilated_surface_mask") => shared_dict["dilated_surface_mask"] \subseteq Records
    BY DEF KInv, InMask
  <2>3. Has("waveforms_to_include") => shared_dict["waveforms_to_include"] \subseteq Records
    BY <2>1 DEF KInv, InMask, Included
  <2>4. Has("range_cor_20_ku") => shared_dict["range_cor_20_ku"] \subseteq Records
    BY <2>1, RangeFacts DEF KInv, Retracked
  <2>5. Has("height_20_ku") => shared_dict["height_20_ku"] \subseteq Records
    BY <2>1, RangeFacts DEF KInv, Geolocated
  <2>6. Has("height_filt") => shared_dict["height_filt"] \subseteq Records
    <3> HAVE Has("height_filt")
    <3>1. pos > 15 /\ pos > 13 /\ pos > 10
      BY <2>1 DEF KInv, Filtered
    <3> QED
      BY <3>1, RangeFacts DEF KInv, Filtered, Geolocated
  <2>7. product \in {"none", "partial", "complete"}
    BY DEF KInv, Produced
  <2> QED
    BY <2>2, <2>3, <2>4, <2>5, <2>6, <2>7 DEF TypeOK, KInv, Started, Has
<1>2. KInv => ReadsWhatExists /\ HemisphereFound
  BY DEF KInv
<1> QED
  BY <1>1, <1>2, KInvariant, PTL DEF KeysInOrder

(* No correction enters the sum of a record twice; an ocean tide enters it *)
(* with the DAC, from the model of its hemisphere, and only where it       *)
(* floats: everywhere in the north, in the south for the SIN mode.         *)
THEOREM TideAddedOnce == Spec => []TideOnce
<1>1. KInv => TideOnce
  <2> SUFFICES ASSUME KInv, Has("sum_cor_20_ku"), NEW r \in Records
               PROVE  LET cor == shared_dict["sum_cor_20_ku"][r]
                          afloat == shared_dict["cryotempo_surface_type"][r] \in {0, 2}
                          north == shared_dict["hemisphere"] = "north"
                          sin == shared_dict["instr_mode"] = "SIN"
                      IN  /\ \A c \in LandCorrections : cor[c] = 1
                          /\ cor["OT"] = Times(afloat /\ north) /\ cor["LPEOT"] = cor["OT"]
                          /\ cor["CATS"] = Times(afloat /\ ~north /\ sin)
                          /\ cor["DAC"] = cor["OT"] + cor["CATS"]
    BY DEF TideOnce
  <2> DEFINE cor == shared_dict["sum_cor_20_ku"][r]
             floats == r \in shared_dict["floating_ice_locations"]
             ocean == r \in shared_dict["ocean_locations"]
             Ocean(c) == c \in OceanCorrections
  <2>1. pos > 8 /\ pos \in 1..19
    BY At DEF KInv, Started, Corrected
  <2>2. /\ cor = CorrectionsOf(r)
        /\ shared_dict["ocean_locations"] = {q \in Records : TypeAt(q) = 0}
        /\ shared_dict["floating_ice_locations"] = {q \in Records : TypeAt(q) = 2}
        /\ shared_dict["hemisphere"] \in {"north", "south"}
    BY <2>1 DEF KInv, Corrected, OnSurface, InBounds
  <2>3. /\ floats <=> shared_dict["cryotempo_surface_type"][r] = 2
        /\ ocean <=> shared_dict["cryotempo_surface_type"][r] = 0
    BY <2>2 DEF TypeAt
  <2>4. /\ \A c \in LandCorrections :
             cor[c] = 1 + Times(Ocean(c) /\ floats) + Times(Ocean(c) /\ ocean)
        /\ \A c \in {"DAC", "LPEOT", "OT", "CATS"} :
             cor[c] = 0 + Times(Ocean(c) /\ floats) + Times(Ocean(c) /\ ocean)
    BY <2>2 DEF CorrectionsOf, Times, LandCorrections
  <2>5. /\ \A c \in LandCorrections : ~Ocean(c)
        /\ Ocean("OT") <=> shared_dict["hemisphere"] = "north"
        /\ Ocean("LPEOT") <=> shared_dict["hemisphere"] = "north"
        /\ Ocean("CATS") <=> shared_dict["hemisphere"] # "north" /\ shared_dict["instr_mode"] = "SIN"
        /\ Ocean("DAC") <=> shared_dict["hemisphere"] = "north" \/ shared_dict["instr_mode"] = "SIN"
    BY DEF OceanCorrections, LandCorrections
  <2> HIDE DEF cor, floats, ocean, Ocean
  <2> QED
    BY <2>3, <2>4, <2>5 DEF Times, cor
<1> QED
  BY <1>1, KInvariant, PTL

(* Locations and heights of a product belong to the record they stand for. *)
THEOREM RecordsAreSound == Spec => []RecordsSound
<1>1. KInv => LocationsMatch
  BY DEF KInv, Geolocated, LocationsMatch, Place
<1>2. KInv => HeightsEarned
  <2> SUFFICES ASSUME KInv, product = "complete", NEW r \in shared_dict["height_filt"]
               PROVE  /\ r \in shared_dict["dilated_surface_mask"]
                      /\ r \in shared_dict["waveforms_to_include"]
                      /\ r \notin shared_dict["invalid_corrections_locs"]
                      /\ \/ shared_dict["latitudes"][r] = "poca"
                         \/ /\ chain = B001
                            /\ shared_dict["cryotempo_surface_type"][r] # 1
    BY DEF HeightsEarned
  <2>1. pos > 17 /\ pos \in 1..19
    BY At DEF KInv, Started, Produced
  <2>2. r \in shared_dict["height_20_ku"] /\ Has("latitudes")
    BY <2>1 DEF KInv, Filtered, Geolocated, Has, Stored
  <2>3. r \in shared_dict["range_cor_20_ku"]
    BY <2>2 DEF KInv, Geolocated
  <2>4. r \in shared_dict["waveforms_to_include"] \ shared_dict["invalid_corrections_locs"]
    BY <2>1, <2>3 DEF KInv, Retracked
  <2>5. r \in shared_dict["dilated_surface_mask"]
    BY <2>1, <2>4 DEF KInv, Included
  <2>6. Place(r) = "poca" \/ (chain = B001 /\ TypeAt(r) # 1)
    BY <2>2 DEF KInv, Geolocated
  <2> QED
    BY <2>4, <2>5, <2>6 DEF Place, TypeAt
<1> QED
  BY <1>1, <1>2, KInvariant, PTL DEF RecordsSound
=============================================================================
