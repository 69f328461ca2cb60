---------------------------- MODULE MCGeolocate ----------------------------
(* Instances of Geolocate.                                                 *)
EXTENDS Geolocate

Point(beam, z, dhdt, range, dist) ==
    [beam |-> beam, z |-> z, dhdt |-> dhdt, range |-> range, dist |-> dist]

(* Points that some test of the searches tells from the others.            *)
MCPoints ==
    {Point(FALSE, "ok", "ok", 2, 1), Point(TRUE, "nan", "ok", 2, 1), Point(TRUE, "high", "ok", 2, 1),
     Point(TRUE, "low", "ok", 5, 1), Point(TRUE, "ok", "nan", 2, 1), Point(TRUE, "ok", "ok", 1, 1),
     Point(TRUE, "ok", "ok", 3, 2), Point(TRUE, "ok", "ok", 5, 3), Point(TRUE, "ok", "ok", 7, 1)}

Few == {s \in SUBSET MCPoints : Cardinality(s) \in 1..2}
FinePoints == {p \in MCPoints : p.range \in {1, 5} \/ p.z = "nan" \/ p.dhdt = "nan"}
Good == Point(TRUE, "ok", "ok", 3, 2)

(* All is well with a record, or all but one thing.                        *)
Flags == {f \in [{"include", "grounded", "ranged", "corrected", "finite", "coarseok"} -> BOOLEAN] :
            Cardinality({k \in DOMAIN f : ~f[k]}) <= 1}
AllWell == {f \in Flags : \A k \in DOMAIN f : f[k]}

Roemers(flags, coarses, fineoks, fines, windows, corners) ==
    {[include |-> f["include"], grounded |-> f["grounded"], ranged |-> f["ranged"],
      corrected |-> f["corrected"], finite |-> f["finite"], coarseok |-> f["coarseok"],
      coarse |-> c, fineok |-> o, fine |-> e, windows |-> w, corner |-> k] :
       f \in flags, c \in coarses, o \in fineoks, e \in fines, w \in windows, k \in corners}

RoemerInputs ==
    Roemers(AllWell, Few, {TRUE}, {{p} : p \in FinePoints}, {{NaN}}, {TRUE}) \cup
    Roemers(Flags, {{Good}, {}}, BOOLEAN, {{Good}, {}}, {{NaN}}, {TRUE}) \cup
    Roemers(AllWell, {{Good}}, {TRUE}, {{Good}}, {{}, {NaN, 2}}, BOOLEAN)

Leptas(flags, coarses, targets, arounds, nadirs) ==
    {[include |-> f["include"], grounded |-> f["grounded"], ranged |-> f["ranged"],
      corrected |-> f["corrected"], finite |-> f["finite"], coarseok |-> f["coarseok"],
      coarse |-> c, target |-> IF f["ranged"] /\ f["corrected"] THEN t ELSE NaN,
      edge |-> IF f["ranged"] THEN <<2, 4>> ELSE <<NaN, NaN>>, around |-> a, atnadir |-> n] :
       f \in flags, c \in coarses, t \in targets, a \in arounds, n \in nadirs}

LeptaInputs ==
    Leptas(AllWell, Few, {2, 5, 9}, {TRUE}, {TRUE}) \cup
    Leptas(Flags, {{Good}, {}}, {2}, BOOLEAN, BOOLEAN)

MCModels == <<[hemisphere |-> 1, corner_x |-> 0, corner_y |-> 0, x_num |-> 4, y_num |-> 4],
              [hemisphere |-> 2, corner_x |-> 0, corner_y |-> 0, x_num |-> 4, y_num |-> 4],
              [hemisphere |-> 2, corner_x |-> 8, corner_y |-> 0, x_num |-> 4, y_num |-> 3]>>

Lrms(grounded, ranged, hemispheres, xs, ys, bads, lats, lons) ==
    {[include |-> TRUE, grounded |-> g, ranged |-> r, corrected |-> TRUE, finite |-> TRUE,
      hemisphere |-> h, x |-> x, y |-> y, bad |-> b, lat |-> a, lon |-> o] :
       g \in grounded, r \in ranged, h \in hemispheres, x \in xs, y \in ys, b \in bads,
       a \in lats, o \in lons}

LrmInputs ==
    Lrms({TRUE}, {TRUE}, {1, 2}, {-3, 3, 5, 8, 11, 14, 17}, {0, 4, 6, 7, 11, 13},
         {<<0, 0>>, <<-1, -1>>}, {1}, {1}) \cup
    Lrms(BOOLEAN, BOOLEAN, {1}, {6}, {6}, {<<-1, -1>>}, -3..3, -5..5)

(* <<t, beside>>: between two bins, or on one.                             *)
Sins(retracked, coherences, places, phases, coherents, firsts, seconds, closers) ==
    {[retracked |-> e, coh |-> c, t |-> t[1], beside |-> t[2], phase |-> p, coherent |-> k,
      first |-> f, second |-> s, closer |-> n] :
       e \in retracked, c \in coherences, t \in places, p \in phases, k \in coherents,
       f \in firsts, s \in seconds, n \in closers}

Rising == [b \in 0..Bins - 1 |-> b]
Falling == [b \in 0..Bins - 1 |-> FullCoherence - b]
Heard == {"in", "out", "nan"}

SinInputs ==
    Sins({TRUE}, {Rising, Falling}, {<<0, 1>>, <<2, 2>>, <<7, 6>>}, {"ok"}, {TRUE},
         Heard, Heard, BOOLEAN) \cup
    Sins(BOOLEAN, {Rising}, {<<2, 3>>}, {"ok", "nan", "wide"}, BOOLEAN, {"in"}, {"in"}, BOOLEAN)

MCInputs(method) ==
    CASE method = "roemer" -> RoemerInputs
      [] method = "lepta" -> LeptaInputs
      [] method = "lrm" -> LrmInputs
      [] OTHER -> SinInputs

Roemer(dual, fine, reject, dhdt, years, slide, doppler) ==
    [method |-> "roemer", dual |-> dual, fine |-> fine, reject |-> reject, dhdt |-> dhdt,
     years |-> years, slide |-> slide, doppler |-> doppler]

Lepta(window, xy, z, dhdt, doppler) ==
    [method |-> "lepta", window |-> window, xy |-> xy, z |-> z, dhdt |-> dhdt, years |-> TRUE,
     doppler |-> doppler]

Sin(phase, mask, unwrap) ==
    [method |-> "sin", phase |-> phase, mask |-> mask, unwrap |-> unwrap]

(* As configured, and each option on its own.                              *)
MCJobs ==
    {Roemer(TRUE, TRUE, TRUE, FALSE, TRUE, FALSE, TRUE),
     Roemer(TRUE, FALSE, FALSE, TRUE, TRUE, FALSE, FALSE),
     Roemer(TRUE, TRUE, TRUE, TRUE, TRUE, FALSE, TRUE),
     Roemer(TRUE, FALSE, TRUE, TRUE, FALSE, FALSE, TRUE),
     Roemer(FALSE, FALSE, FALSE, FALSE, TRUE, TRUE, TRUE),
     Roemer(TRUE, FALSE, FALSE, FALSE, TRUE, TRUE, TRUE),
     Roemer(FALSE, FALSE, FALSE, FALSE, TRUE, FALSE, FALSE),
     Lepta("point", "closest", "closest", FALSE, TRUE),
     Lepta("point", "mean", "around", TRUE, TRUE),
     Lepta("edge", "mean", "mean", FALSE, FALSE),
     Lepta("none", "mean", "mean", FALSE, FALSE),
     Lepta("edge", "none", "mean", FALSE, FALSE),
     [method |-> "lrm"],
     Sin("max", FALSE, TRUE), Sin("max", TRUE, FALSE), Sin("sample", FALSE, TRUE),
     Sin("interp", FALSE, FALSE), Sin("mean", TRUE, TRUE), Sin("unset", TRUE, TRUE)}

(* "Slope cor error": with a slope model that has no good slope around the *)
(* position, a record gets no height (geolocate_lrm.py:117).               *)
BadSlopeRejected ==
    job.method = "lrm" =>
      \A k \in Records : out[k].height = "slope" => ~out[k].point.bad
============================================================================
