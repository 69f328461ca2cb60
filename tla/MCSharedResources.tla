------------------------- MODULE MCSharedResources -------------------------
(* Instances of SharedResources: an algorithm with two masks, as           *)
(* alg_surface_type, one that cleans its DEM up twice, as                  *)
(* alg_geolocate_roemer does when coarse and fine are the same, and one    *)
(* with an object of its own for that DEM, as alg_ref_dem.                 *)
EXTENDS SharedResources, TLC

CONSTANTS m1, m2, d, r1, r2

MCAlgorithms ==
    << [loads |-> <<m1, m2>>, cleans |-> <<2, 1>>],
       [loads |-> <<d>>, cleans |-> <<1, 1>>],
       [loads |-> <<d>>, cleans |-> <<1>>] >>

Symmetry == Permutations(Runs)
============================================================================
