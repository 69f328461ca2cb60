----------------------------- MODULE Geolocate -----------------------------
(***************************************************************************)
(* The functions that move a measurement from nadir to the point of        *)
(* closest approach (POCA), in src/src/clev2er/utils/cs2/geolocate: by a   *)
(* search in a DEM (geolocate_roemer.py, geolocate_lepta.py), by a slope   *)
(* model (geolocate_lrm.py, lrm_slope.py) or by the phase difference of    *)
(* two antennas (geolocate_sin.py, sarin_phase.py).                        *)
(*                                                                         *)
(* A file is geolocated record by record.  A point of the DEM is known by  *)
(* what the searches ask of it: whether it is in the beam, its height      *)
(* ("ok", "nan", "high" from 5000 m, "low" to -5000 m), whether dh/dt is   *)
(* known there, its range to the satellite and its distance from nadir.    *)
(* Heights and locations that are computed are known by what they were     *)
(* computed from.                                                          *)
(***************************************************************************)
EXTENDS Integers, Sequences, FiniteSets, FiniteSetsExt

CONSTANTS
    NRecords,
    Jobs,          \* methods with their options, one of which is the case
    Inputs(_),     \* the records a method may meet
    WindowStart, WindowEnd,   \* of the range window, after the trims
    MaxDistance,   \* max_poca_reloc_distance
    Offset,        \* delta_range_offset
    Models,        \* slope models: hemisphere_flag, corner_x, corner_y, x_num, y_num
    PhaseWidth,    \* phase_window_width
    Bins,          \* samples of a waveform
    FullCoherence  \* coherence 1, in the units of the model

ASSUME GeolocateAssumption ==
    /\ NRecords \in Nat \ {0}
    /\ WindowStart \in Nat /\ WindowEnd \in Nat /\ MaxDistance \in Nat /\ Offset \in Nat
    /\ PhaseWidth \in Nat /\ Bins \in Nat /\ FullCoherence \in Nat

(* A range is a distance; lat and lon, in units of 45 degrees, are where   *)
(* the slope correction of a position on the globe can lead; coherences    *)
(* are at most 1, t is the bin nearest to the retracking point and beside  *)
(* the one on its other side, or t itself.                                 *)
ASSUME InputsAssumption ==
    /\ \A j \in Jobs : j.method \in {"roemer", "lepta", "lrm", "sin"}
    /\ \A r \in Inputs("roemer") : \A p \in r.coarse \cup r.fine :
         p.range \in Nat /\ p.dhdt \in {"ok", "nan"}
    /\ \A r \in Inputs("lrm") : r.x \in Int /\ r.y \in Int /\ r.lat \in -3..3 /\ r.lon \in -8..8
    /\ \A r \in Inputs("sin") :
         /\ r.t \in 0..Bins - 1 /\ r.beside \in r.t - 1..r.t + 1
         /\ r.coh \in [0..Bins - 1 -> 0..FullCoherence]

ASSUME ModelsAssumption ==
    Models \in Seq([hemisphere : Int, corner_x : Int, corner_y : Int, x_num : Nat, y_num : Nat])

VARIABLES
    job,   \* the method and its options
    pc,    \* control point: "record" between records
    i,     \* the record
    in,    \* what the function reads for record i
    work,  \* what it has found for record i so far
    out    \* out[k]: what record k has got

vars == <<job, pc, i, in, work, out>>

NaN == -1
None == [found |-> {}]

(* poca: "nadir", "point" (a point of the DEM), "mean", "corner" or, with  *)
(* the slope model, "relocated"; corr: slope_correction is a number;       *)
(* point: the point of the DEM, or None; ok: slope_ok; dop: Doppler        *)
(* corrections; other: the height of the unwrapped phase; in: the record   *)
(* as it was read.                                                         *)
Blank == [poca |-> "nadir", corr |-> FALSE, point |-> None, reloc |-> NaN, ok |-> TRUE,
          height |-> "nan", loc |-> "nadir", dop |-> 0, other |-> "none", in |-> None]

Init ==
    /\ job \in Jobs
    /\ pc = "start" /\ i = 1
    /\ in = None /\ work = None
    /\ out = [k \in 1..NRecords |-> Blank]

(* The years are looked at once, when dh/dt is to be applied.              *)
Start ==
    /\ pc = "start"
    /\ pc' = IF job.method \in {"roemer", "lepta"} /\ job.dhdt /\ ~job.years
             THEN "raised" ELSE "record"
    /\ UNCHANGED <<job, i, in, work, out>>

Reads(method) == pc = "record" /\ job.method = method /\ i <= NRecords

(* What of a record the result is made of.                                 *)
Kept(r) == [include |-> r.include, grounded |-> r.grounded, ranged |-> r.ranged,
            corrected |-> r.corrected, finite |-> r.finite]

(* The record is over, with this result.                                   *)
Store(result) ==
    /\ out' = [out EXCEPT ![i] = result]
    /\ i' = i + 1 /\ pc' = "record" /\ in' = None /\ work' = None
    /\ UNCHANGED job

(* slope_ok[i] = False; continue: a location found before is left there.   *)
FailAt(r, poca) == Store([Blank EXCEPT !.ok = FALSE, !.poca = poca, !.in = Kept(r)])

Begin(r, point, w) == in' = r /\ pc' = point /\ work' = w /\ UNCHANGED <<job, i, out>>
Go(point, w) == pc' = point /\ work' = w /\ UNCHANGED <<job, i, in, out>>
Raise == Go("raised", work)
-----------------------------------------------------------------------------
(* geolocate_roemer().                                                     *)

(* A range that dh/dt makes NaN.                                           *)
CorrectedRange(p) == IF job.dhdt /\ p.dhdt = "nan" THEN NaN ELSE p.range

RoemerRead(r) ==
    /\ Reads("roemer")
    /\ CASE ~r.include -> Store([Blank EXCEPT !.in = Kept(r)])
         [] r.include /\ ~r.coarseok -> FailAt(r, "nadir")
         [] r.include /\ r.coarseok /\ ~job.dual /\ ~job.slide ->
              Store([Blank EXCEPT !.in = Kept(r)])
         [] OTHER -> Begin(r, IF job.dual THEN "coarse" ELSE "slide", None)

(* Mutant for PocaFits: fill values are not removed.                       *)
SensibleAny(points) == {p \in points : p.beam /\ p.z # "nan"}

(* Points in the beam, or in the pulse limited footprint, whose height is  *)
(* a number and less than 5000 m.                                          *)
Sensible(points) == {p \in points : p.beam /\ p.z = "ok"}

(* find_poca(): the closest point; np.nanargmin() raises when all are NaN. *)
FindPoca(points, next) ==
    LET ranged == {p \in points : CorrectedRange(p) # NaN}
    IN IF ranged = {} THEN Raise
       ELSE Go(next, CHOOSE p \in ranged : \A q \in ranged : p.range <= q.range)

RoemerCoarse ==
    /\ pc = "coarse"
    /\ LET points == Sensible(in.coarse)
       IN IF points = {} THEN FailAt(in, "nadir")
          ELSE FindPoca(points, IF job.fine THEN "fine" ELSE "check")

(* Mutant for FileSurvives: no test for a footprint without heights.       *)
RoemerFineUntested ==
    /\ pc = "fine"
    /\ CASE ~in.fineok -> FailAt(in, "point")
         [] in.fineok /\ in.fine = {} -> Raise
         [] OTHER -> FindPoca(Sensible(in.fine), "check")

(* A finer grid is interpolated around the POCA; interpn() raises when the *)
(* segment is empty.                                                       *)
RoemerFine ==
    /\ pc = "fine"
    /\ CASE ~in.fineok -> FailAt(in, "point")
         [] in.fineok /\ in.fine = {} -> Raise
         [] in.fineok /\ in.fine # {} /\ Sensible(in.fine) = {} -> FailAt(in, "point")
         [] OTHER -> FindPoca(Sensible(in.fine), "check")

(* A tracker range that is NaN rejects nothing.                            *)
OutsideWindow(p) ==
    job.reject /\ in.ranged /\ (p.range < WindowStart \/ p.range > WindowEnd)

RoemerCheck ==
    /\ pc = "check"
    /\ CASE OutsideWindow(work) -> FailAt(in, "point")
         [] ~OutsideWindow(work) /\ job.slide -> Go("slide", work)
         [] OTHER -> Store([Blank EXCEPT !.poca = "point", !.corr = TRUE, !.point = work,
                                         !.reloc = work.dist, !.ok = work.dist <= MaxDistance,
                                         !.in = Kept(in)])

(* The sliding window: the place with the smallest mean range; the first   *)
(* corner when every mean is NaN or the segment is smaller than a window.  *)
(* After the dual search, whose arrays are flat, it raises.                *)
RoemerSlide ==
    /\ pc = "slide"
    /\ IF job.dual \/ in.coarse = {} THEN Raise
       ELSE LET known == in.windows \ {NaN}
            IN Store([Blank EXCEPT !.poca = IF known # {} THEN "point" ELSE "corner",
                                   !.corr = known # {} \/ in.corner, !.in = Kept(in)])
-----------------------------------------------------------------------------
(* geolocate_lepta().                                                      *)

LeptaRead(r) ==
    /\ Reads("lepta")
    /\ CASE ~r.include -> Store([Blank EXCEPT !.in = Kept(r)])
         [] r.include /\ (~r.coarseok \/ ~r.atnadir) -> FailAt(r, "nadir")
         [] OTHER -> Begin(r, "coarse lepta", None)

(* Heights of -5000 m and below are kept.                                  *)
LeptaSensible == {p \in in.coarse : p.beam /\ p.z \in {"ok", "low"}}

LeptaCandidates ==
    /\ pc = "coarse lepta"
    /\ IF LeptaSensible = {} THEN FailAt(in, "nadir")
       ELSE Go("window", [found |-> LeptaSensible])

(* Comparisons with NaN fail.                                              *)
Inside(points, from, to) ==
    {p \in points : /\ NaN \notin {CorrectedRange(p), from, to}
                    /\ p.range >= from /\ p.range <= to}

(* The points at the retracking point; when there are none, those at the   *)
(* closest point, unless the range of one of the points is NaN.            *)
AroundPoint ==
    LET here == Inside(work.found, in.target - Offset, in.target + Offset)
        ranges == {CorrectedRange(p) : p \in work.found}
    IN CASE in.target = NaN -> {}
         [] in.target # NaN /\ here = {} /\ NaN \notin ranges ->
              Inside(work.found, Min(ranges), Min(ranges) + 2 * Offset)
         [] OTHER -> here

(* use_full_leading_edge, use_window_around_retracking_point.              *)
LeptaWindow ==
    /\ pc = "window"
    /\ LET points == IF job.window = "edge"
                     THEN Inside(work.found, in.edge[1], in.edge[2]) ELSE AroundPoint
       IN CASE job.window = "none" -> Raise
            [] job.window # "none" /\ points = {} -> FailAt(in, "nadir")
            [] OTHER -> Go("place", [found |-> points])

Closest(points) == CHOOSE p \in points : \A q \in points : p.range <= q.range

(* median_dem_height_around_a_point() may be None, which is stored as NaN  *)
(* and makes the correction NaN, with slope_ok still set.                  *)
LeptaPlace ==
    /\ pc = "place"
    /\ IF job.xy = "none" \/ job.z = "none" THEN Raise
       ELSE Store([Blank EXCEPT !.poca = IF job.xy = "mean" THEN "mean" ELSE "point",
                                !.point = Closest(work.found),
                                !.corr = job.z # "around" \/ in.around,
                                !.in = Kept(in)])
-----------------------------------------------------------------------------
(* The second loop of both, over all records at once, and the Doppler      *)
(* correction of the heights that are numbers.                             *)

(* A number when slope_ok is set and all that it is the sum of is known.   *)
HeightOf(o) ==
    IF o.ok /\ o.in.ranged /\ o.in.corrected /\ o.in.grounded /\ o.corr THEN "slope" ELSE "nan"

(* A location that could not be transformed, or of a record that failed,   *)
(* is replaced by nadir and its height removed.                            *)
Locate(o) ==
    [o EXCEPT !.height = IF o.in.finite /\ o.ok THEN HeightOf(o) ELSE "nan",
              !.loc = IF o.in.finite /\ o.ok /\ o.poca # "nadir" THEN "poca" ELSE "nadir"]

Heights ==
    /\ pc = "record" /\ i > NRecords /\ job.method \in {"roemer", "lepta"}
    /\ out' = [k \in 1..NRecords |-> Locate(out[k])]
    /\ pc' = "doppler"
    /\ UNCHANGED <<job, i, in, work>>

Doppler ==
    /\ pc = "doppler"
    /\ out' = [k \in 1..NRecords |->
                 IF job.doppler /\ out[k].height = "slope" THEN [out[k] EXCEPT !.dop = @ + 1]
                 ELSE out[k]]
    /\ pc' = "done"
    /\ UNCHANGED <<job, i, in, work>>
-----------------------------------------------------------------------------
(* geolocate_lrm().  Positions in the slope model are in quarters of its   *)
(* resolution.                                                             *)

Quarters == 4

(* Mutant for SlopeExact: the last row and column count as inside.         *)
HasNeighboursEdge(mod, n, m) == 0 < n /\ n < mod.x_num /\ 0 < m /\ m < mod.y_num

HasNeighbours(mod, n, m) == 0 < n /\ n < mod.x_num - 1 /\ 0 < m /\ m < mod.y_num - 1

(* setup_slopes(): the first model of the hemisphere that has all the      *)
(* neighbours of the position, or 0.                                       *)
ModelOf(r) ==
    LET fits == {k \in DOMAIN Models :
                   /\ Models[k].hemisphere = r.hemisphere
                   /\ HasNeighbours(Models[k], (r.x - Models[k].corner_x) \div Quarters,
                                    (r.y - Models[k].corner_y) \div Quarters)}
    IN IF fits = {} THEN 0 ELSE Min(fits)

Neighbours == {<<0, -1>>, <<-1, 0>>, <<0, 0>>, <<1, 0>>, <<0, 1>>, <<1, 1>>}

(* interp_slope(): the slopes v of the neighbours, weighted by the         *)
(* position in the cell, times 2 * Quarters^2.                             *)
Interpolated(v, p, q) ==
    LET K == Quarters
    IN v[<<0, -1>>] * (q * (q - K)) + v[<<-1, 0>>] * (p * (p - K))
         + v[<<0, 0>>] * (2 * (K * K + p * q - p * p - q * q))
         + v[<<1, 0>>] * (p * (p - 2 * q + K)) + v[<<0, 1>>] * (q * (q - 2 * p + K))
         + v[<<1, 1>>] * (2 * p * q)

(* A slope above 999 at one of the neighbours is an error, and the slope 0.*)
BadSlope(r) == r.bad \in Neighbours

LrmRead(r) ==
    /\ Reads("lrm")
    /\ CASE ~r.grounded -> Store([Blank EXCEPT !.height = IF r.ranged THEN "plain" ELSE "nan",
                                              !.in = Kept(r)])
         [] r.grounded /\ (~r.ranged \/ ModelOf(r) = 0) -> Store([Blank EXCEPT !.in = Kept(r)])
         [] OTHER ->
              LET mod == Models[ModelOf(r)]
                  x == r.x - mod.corner_x
                  y == r.y - mod.corner_y
              IN Begin(r, "elevation",
                       [n |-> x \div Quarters, m |-> y \div Quarters,
                        p |-> x % Quarters, q |-> y % Quarters, model |-> ModelOf(r)])

(* do_slope() returns the error of calc_echo_dir(), which is 0, and not    *)
(* the one of interp_slope(): the height is computed with no slope.        *)
LrmSlopeError(r) == 0

(* The end of proc_elev(), in units of 45 degrees.                         *)
Normalised(lat, lon) ==
    LET over == lat > 2 \/ lat < -2
        lat2 == IF lat > 2 THEN 4 - lat ELSE IF lat < -2 THEN -4 - lat ELSE lat
        lon2 == IF over THEN lon + 4 ELSE lon
        lon3 == IF lon2 < 0 THEN lon2 + 8 ELSE IF lon2 > 8 THEN lon2 - 8 ELSE lon2
    IN <<lat2, IF lon3 > 4 THEN lon3 - 8 ELSE lon3>>

LrmElevation ==
    /\ pc = "elevation"
    /\ Store(IF LrmSlopeError(in) = 0
             THEN [Blank EXCEPT !.height = "slope", !.loc = "poca", !.poca = "relocated",
                                !.point = [at |-> Normalised(in.lat, in.lon),
                                           of |-> <<in.lat, in.lon>>, bad |-> BadSlope(in),
                                           hemisphere |-> in.hemisphere, model |-> work.model],
                                !.in = Kept(in)]
             ELSE [Blank EXCEPT !.in = Kept(in)])

LrmDoppler ==
    /\ pc = "record" /\ i > NRecords /\ job.method = "lrm"
    /\ out' = [k \in 1..NRecords |->
                 IF out[k].height = "slope" THEN [out[k] EXCEPT !.dop = @ + 1] ELSE out[k]]
    /\ pc' = "done"
    /\ UNCHANGED <<job, i, in, work>>
-----------------------------------------------------------------------------
(* geolocate_sin().                                                        *)

Half == PhaseWidth \div 2

(* The window around the retracking point, as Python's slice finds it.     *)
PhaseSlice(t) ==
    LET from == IF t < Half THEN Max({Bins + t - Half, 0}) ELSE t - Half
    IN {k \in from..t + Half - 1 : k < Bins}

(* phase_fit_sample(): the bins whose phase is used, by window_method: the *)
(* first one of the highest coherence in the window, the nearest, the two  *)
(* nearest or, with any other method, all of the window.                   *)
PhaseBins(r) ==
    CASE job.phase = "max" ->
           {k \in PhaseSlice(r.t) : \A l \in PhaseSlice(r.t) :
              r.coh[l] < r.coh[k] \/ (r.coh[l] = r.coh[k] /\ k <= l)}
      [] job.phase = "sample" -> {r.t}
      [] job.phase = "interp" -> {r.t, r.beside}
      [] OTHER -> PhaseSlice(r.t)

(* The phase is NaN when there is no bin; the tests that make a            *)
(* SINLocateError.                                                         *)
PhaseFound(r) ==
    /\ PhaseBins(r) # {}
    /\ r.phase = "ok"
    /\ job.mask => r.coherent

(* Without a window_method the first record that was retracked raises a    *)
(* ValueError.                                                             *)
SinUnset(r) == Reads("sin") /\ r.retracked /\ job.phase = "unset" /\ Raise

(* The height of the unwrapped phase is computed, and kept, also when the  *)
(* first one is out of bounds.                                             *)
SinRead(r) ==
    /\ Reads("sin")
    /\ ~(r.retracked /\ job.phase = "unset")
    /\ LET found == r.retracked /\ PhaseFound(r)
       IN Store([Blank EXCEPT
                   !.height = IF found /\ r.first = "in" THEN "first" ELSE "nan",
                   !.loc = IF found /\ r.first = "in" THEN "poca" ELSE "nan",
                   !.other = IF found /\ job.unwrap THEN r.second ELSE "none",
                   !.in = [retracked |-> r.retracked, phase |-> r.phase, first |-> r.first,
                           second |-> r.second, closer |-> r.closer,
                           near |-> PhaseBins(r) \subseteq r.t - Half - 1..r.t + Half + 1]])

(* Mutant for HeightsEarned: turned round, the comparison lets NaN pass.   *)
BetterUnwrappedNaN(o) == o.in.closer /\ o.other \in {"in", "out"}

(* The unwrapped height is closer to the DEM; comparisons with NaN fail.   *)
BetterUnwrapped(o) == o.height = "first" /\ o.in.closer /\ o.other \in {"in", "out"}

SinUnwrap ==
    /\ pc = "record" /\ i > NRecords /\ job.method = "sin"
    /\ out' = [k \in 1..NRecords |->
                 IF job.unwrap /\ BetterUnwrapped(out[k])
                 THEN [out[k] EXCEPT !.height = "second", !.loc = "poca"] ELSE out[k]]
    /\ pc' = "done"
    /\ UNCHANGED <<job, i, in, work>>
-----------------------------------------------------------------------------
Next ==
    \/ Start
    \/ \E r \in Inputs(job.method) :
         \/ RoemerRead(r) \/ LeptaRead(r) \/ LrmRead(r) \/ SinUnset(r) \/ SinRead(r)
    \/ RoemerCoarse \/ RoemerFine \/ RoemerCheck \/ RoemerSlide
    \/ LeptaCandidates \/ LeptaWindow \/ LeptaPlace
    \/ Heights \/ Doppler
    \/ LrmElevation \/ LrmDoppler
    \/ SinUnwrap

Spec == Init /\ [][Next]_vars
-----------------------------------------------------------------------------
Records == 1..NRecords
Searched == job.method \in {"roemer", "lepta"}

(* Types of all variables; no height gets the Doppler correction twice.    *)
TypeOK ==
    /\ job \in Jobs
    /\ pc \in {"start", "record", "coarse", "fine", "check", "slide", "coarse lepta", "window",
               "place", "doppler", "elevation", "done", "raised"}
    /\ i \in 1..NRecords + 1
    /\ \A k \in Records : /\ out[k].height \in {"nan", "slope", "plain", "first", "second"}
                          /\ out[k].loc \in {"nadir", "poca", "nan"}
                          /\ out[k].ok \in BOOLEAN /\ out[k].dop \in 0..1

(* A search in the DEM gives a height only to a record that is included,   *)
(* grounded and has a range, from a POCA that was not rejected.            *)
HeightEarned ==
    Searched => \A k \in Records : out[k].height # "nan" =>
      /\ out[k].in.include /\ out[k].in.grounded /\ out[k].in.ranged
      /\ out[k].ok /\ out[k].poca # "nadir"

(* The POCA that the dual search of geolocate_roemer() leaves under a      *)
(* height is in the beam, has a height that can be one, is within the      *)
(* range window and the maximum distance, and is the closest of the points *)
(* that were looked at.                                                    *)
PocaSound ==
    /\ job.method = "roemer" /\ job.dual =>
         \A k \in Records : out[k].height = "slope" =>
           LET p == out[k].point
           IN /\ p.beam /\ p.z = "ok" /\ (job.dhdt => p.dhdt = "ok")
              /\ job.reject => p.range >= WindowStart /\ p.range <= WindowEnd
              /\ out[k].reloc <= MaxDistance
    /\ pc \in {"fine", "check"} =>
         \A p \in (IF pc = "check" /\ job.fine THEN in.fine ELSE in.coarse) :
           p.beam /\ p.z = "ok" /\ CorrectedRange(p) # NaN => work.range <= p.range

(* When the function is over, a height with slope correction is reported   *)
(* at the POCA it was corrected to, and a record that was rejected at      *)
(* nadir, also when a POCA was found for it before it was rejected.        *)
LocationFits ==
    pc = "done" /\ job.method # "sin" => \A k \in Records :
      /\ out[k].height = "slope" => out[k].loc = "poca"
      /\ out[k].loc = "poca" => out[k].ok /\ out[k].poca # "nadir"

(* The function raises, and the file gets no product, only when dh/dt is   *)
(* applied, no method is configured, the sliding window is used after the  *)
(* dual search, or a segment of the DEM is empty.  Records that are not    *)
(* ranged, points without a height and slopes that failed never do it.     *)
FileSurvives ==
    pc = "raised" =>
      \/ Searched /\ job.dhdt
      \/ job.method = "sin" /\ job.phase = "unset"
      \/ job.method = "roemer" /\ ({} \in {in.coarse, in.fine} \/ (job.dual /\ job.slide))
      \/ job.method = "lepta" /\ "none" \in {job.window, job.xy, job.z}

Power(x, n) == IF n = 0 THEN 1 ELSE IF n = 1 THEN x ELSE x * x

(* The interpolation of x^a * y^b is its value at the position.            *)
ExactFor(a, b, p, q) ==
    LET K == Quarters
        v == [c \in Neighbours |-> Power(K * c[1], a) * Power(K * c[2], b)]
    IN Interpolated(v, p, q) = 2 * K * K * Power(p, a) * Power(q, b)

(* The six neighbours of a position are in the model, and for each of the  *)
(* monomials up to the second degree the interpolation in lrm_slope.py     *)
(* gives its value at the position.                                        *)
SlopeExact ==
    pc = "elevation" =>
      /\ \A c \in Neighbours : /\ work.n + c[1] \in 0..Models[work.model].x_num - 1
                               /\ work.m + c[2] \in 0..Models[work.model].y_num - 1
      /\ \A a, b \in 0..2 : a + b <= 2 => ExactFor(a, b, work.p, work.q)

(* A location that slope correction moved over a pole or the date line is  *)
(* the same place, with a latitude up to 90 and a longitude up to 180.     *)
LocationNormal ==
    job.method = "lrm" => \A k \in Records : out[k].height = "slope" =>
      LET at == out[k].point.at
          of == out[k].point.of
      IN /\ at[1] \in -2..2 /\ at[2] \in -3..4
         /\ IF of[1] \in -2..2 THEN at[1] = of[1] /\ (at[2] - of[2]) % 8 = 0
            ELSE (at[1] + of[1]) \in {-4, 4} /\ (at[2] - of[2]) % 8 = 4

(* geolocate_sin(): a height, first or unwrapped, stands only on a record  *)
(* that was retracked, whose phase was found, around the retracking point, *)
(* and whose first height was within its bounds.                           *)
SinEarned ==
    job.method = "sin" => \A k \in Records : out[k].height # "nan" =>
      /\ out[k].in.retracked /\ out[k].in.phase = "ok" /\ out[k].in.first = "in"
      /\ out[k].in.near
      /\ out[k].height = "second" => out[k].in.closer

(* geolocate_lrm(): a height stands on a range.  A grounded record has one *)
(* only from a slope model of its hemisphere, any other record only        *)
(* without slope correction.  That the slopes of the model are good is not *)
(* needed: do_slope() loses the error of interp_slope().                   *)
LrmEarned ==
    job.method = "lrm" => \A k \in Records :
      /\ out[k].height # "nan" => out[k].in.ranged
      /\ out[k].height = "plain" => ~out[k].in.grounded
      /\ out[k].height = "slope" =>
           /\ out[k].in.grounded
           /\ Models[out[k].point.model].hemisphere = out[k].point.hemisphere

(* A height is only given to a record that passed the tests of its method: *)
(* in the searches all of them, with the slope model those of the range,   *)
(* the surface and the position, from the phase all of them.               *)
HeightsEarned == TypeOK /\ HeightEarned /\ LrmEarned /\ SinEarned

(* The point a height belongs to is a possible one, and the location that  *)
(* is reported is that point.                                              *)
PocaFits == PocaSound /\ LocationFits /\ LocationNormal
============================================================================
