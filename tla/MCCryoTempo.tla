---------------------------- MODULE MCCryoTempo ----------------------------
(***************************************************************************)
(* Instances of CryoTempo for TLC.                                         *)
(***************************************************************************)
EXTENDS CryoTempo

AllLists == {D001, B001, LeptaList}

(* The chain is run with at most one option set or setting left out.       *)
OneOption == {o \in [OptionNames -> BOOLEAN] :
                 \A m, n \in OptionNames : o[m] /\ o[n] => m = n}

(* Inside and outside of every bound of alg_skip_on_area_bounds.           *)
TrackLatitudes == {-70, -60, -54, 54, 60, 70}

(* The sum of corrections over floating ice and ocean includes an ocean    *)
(* tide and the DAC.                                                       *)
TideAfloat ==
    Has("sum_cor_20_ku") =>
        \A r \in Records :
            shared_dict["cryotempo_surface_type"][r] \in {0, 2} =>
                LET cor == shared_dict["sum_cor_20_ku"][r]
                IN  cor["DAC"] = 1 /\ cor["OT"] + cor["CATS"] = 1

(* A commit hash that cannot be had is left empty: it does not end the     *)
(* file with half a product.                                               *)
CommitHashOptional == ~(outcome = "FileNotFoundError" /\ product = "partial")
=============================================================================
