------------------------- MODULE GeolocateProofs -------------------------
(***************************************************************************)
(* Proofs about Geolocate, for any number of records, any points of a DEM, *)
(* any slope models and any window of the phase: a height is earned, the   *)
(* POCA under it is a possible one, the function raises only for the       *)
(* reasons that are listed, and the slope is interpolated exactly.         *)
(*                                                                         *)
(* None of the four is inductive.  What a height stands on is decided in   *)
(* one step (the search), used in a second (the loop over all records) and *)
(* corrected in a third (Doppler): Stored says of every record what its    *)
(* result must keep until then, Searching what is known of the point that  *)
(* is being looked for.                                                    *)
(***************************************************************************)
EXTENDS Geolocate, WellFoundedInduction, TLAPS

(* The fields of a result.                                                 *)
Fields == {"poca", "corr", "point", "reloc", "ok", "height", "loc", "dop", "other", "in"}
IsResult(o) == o = [f \in Fields |-> o[f]]

(* What the record read at a control point is, and of which method.        *)
OnTrack ==
    /\ pc \in {"coarse", "fine", "check", "slide"} =>
         job.method = "roemer" /\ i \in Records /\ in \in Inputs("roemer") /\ in.include
    /\ pc \in {"coarse", "fine", "check"} => job.dual
    /\ pc = "slide" /\ job.dual => job.slide
    /\ pc = "fine" => job.fine
    /\ pc \in {"coarse lepta", "window", "place"} =>
         job.method = "lepta" /\ i \in Records /\ in.include
    /\ pc = "elevation" =>
         job.method = "lrm" /\ i \in Records /\ in \in Inputs("lrm") /\ in.grounded /\ in.ranged
    /\ pc = "doppler" => Searched

(* The point found is one of those in the beam with a height and a range,  *)
(* and the closest of them.                                                *)
Looked == IF pc = "check" /\ job.fine THEN in.fine ELSE in.coarse
Searching ==
    pc \in {"fine", "check"} =>
      /\ work \in Sensible(Looked) /\ CorrectedRange(work) # NaN
      /\ \A p \in Sensible(Looked) : CorrectedRange(p) # NaN => work.range <= p.range

(* The cell of the slope model and the position in it.                     *)
InModel ==
    pc = "elevation" =>
      /\ work.model \in DOMAIN Models /\ Models[work.model].hemisphere = in.hemisphere
      /\ work.n \in Int /\ work.m \in Int
      /\ HasNeighbours(Models[work.model], work.n, work.m)
      /\ work.p \in 0..Quarters - 1 /\ work.q \in 0..Quarters - 1

(* A slope correction was computed for an included record, from a POCA     *)
(* that is none of the rejected ones.                                      *)
PointSound(o) ==
    /\ o.point.beam /\ o.point.z = "ok" /\ (job.dhdt => o.point.dhdt = "ok")
    /\ job.reject /\ o.in.ranged => o.point.range >= WindowStart /\ o.point.range <= WindowEnd
    /\ o.ok => o.reloc <= MaxDistance

SearchSound(o) ==
    /\ o.corr => o.in.include /\ o.poca # "nadir"
    /\ job.method = "roemer" /\ job.dual /\ o.corr => PointSound(o)
    /\ o.height \in {"nan", "slope"}
    /\ o.height = "slope" => o.ok /\ o.corr /\ o.in.ranged /\ o.in.grounded
    /\ o.loc = "poca" => o.ok /\ o.poca # "nadir"

SamePlace(at, of) ==
    /\ at[1] \in -2..2 /\ at[2] \in -3..4
    /\ IF of[1] \in -2..2 THEN at[1] = of[1] /\ (at[2] - of[2]) % 8 = 0
       ELSE (at[1] + of[1]) \in {-4, 4} /\ (at[2] - of[2]) % 8 = 4

LrmSound(o) ==
    /\ o.height \in {"nan", "slope", "plain"}
    /\ o.height # "nan" => o.in.ranged
    /\ o.height = "plain" => ~o.in.grounded
    /\ o.height = "slope" =>
         o.in.grounded /\ Models[o.point.model].hemisphere = o.point.hemisphere
    /\ o.height = "slope" => o.loc = "poca" /\ SamePlace(o.point.at, o.point.of)
    /\ o.loc = "poca" => o.ok /\ o.poca # "nadir"

SinSound(o) ==
    /\ o.height # "nan" => /\ o.in.retracked /\ o.in.phase = "ok" /\ o.in.first = "in"
                           /\ o.in.near
    /\ o.height = "second" => o.in.closer

Stored(o) ==
    /\ Searched => SearchSound(o)
    /\ job.method = "lrm" => LrmSound(o)
    /\ job.method = "sin" => SinSound(o)

(* What the loops over all records have not done yet.                      *)
Untouched(o) ==
    /\ pc # "done" => o.dop = 0
    /\ Searched /\ pc \notin {"doppler", "done"} => o.height = "nan" /\ o.loc = "nadir"
    /\ Searched /\ pc \in {"doppler", "done"} /\ o.height = "slope" => o.loc = "poca"

GInv ==
    /\ TypeOK
    /\ out = [k \in Records |-> out[k]] /\ \A k \in Records : IsResult(out[k])
    /\ OnTrack /\ Searching /\ InModel
    /\ \A k \in Records : Stored(out[k]) /\ Untouched(out[k])
    /\ FileSurvives
-----------------------------------------------------------------------------
(* A set of numbers that is not empty has a smallest one, and Min finds it.*)
LEMMA SmallestExists ==
    ASSUME NEW S, S \subseteq Nat, S # {}
    PROVE  \E x \in S : \A y \in S : x <= y
<1>1. \E x \in S : \A y \in S : ~(<<y, x>> \in OpToRel(<, Nat))
  BY NatLessThanWellFounded, WFMin, Zenon
<1>2. \A x, y \in Nat : ~(<<y, x>> \in OpToRel(<, Nat)) => x <= y
  BY DEF OpToRel
<1> QED BY <1>1, <1>2

LEMMA MinFacts ==
    ASSUME NEW S, S \subseteq Nat, S # {}
    PROVE  Min(S) \in S
BY SmallestExists DEF Min

(* The search for the closest point finds one.                             *)
LEMMA ClosestExists ==
    ASSUME NEW points, points # {}, \A p \in points : p.range \in Nat
    PROVE  \E p \in points : \A q \in points : p.range <= q.range
<1> DEFINE S == {p.range : p \in points}
<1>1. S \subseteq Nat /\ S # {}
  OBVIOUS
<1>2. PICK x \in S : \A y \in S : x <= y
  BY <1>1, SmallestExists
<1> QED BY <1>2

(* The bins whose phase is used are in the window around the retracking    *)
(* point, or next to it, also where Python counts a negative start from    *)
(* the end.                                                                *)
LEMMA PhaseBinsNear ==
    ASSUME NEW r \in Inputs("sin")
    PROVE  PhaseBins(r) \subseteq r.t - Half - 1..r.t + Half + 1
<1>1. /\ r.t \in Nat /\ r.beside \in r.t - 1..r.t + 1
      /\ Bins \in Nat /\ PhaseWidth \in Nat
  BY InputsAssumption, GeolocateAssumption
<1>2. Half \in Nat
  BY <1>1 DEF Half
<1>3. Max({Bins + r.t - Half, 0}) \in Nat
  <2>1. ASSUME NEW a \in Int PROVE Max({a, 0}) \in Nat
    <3>1. \E x \in {a, 0} : \A y \in {a, 0} : x >= y
      OBVIOUS
    <3>2. Max({a, 0}) \in {a, 0} /\ \A y \in {a, 0} : Max({a, 0}) >= y
      <4> DEFINE S == {a, 0}
      <4> HIDE DEF S
      <4>1. (\E x \in S : \A y \in S : x >= y) => Max(S) \in S /\ \A y \in S : Max(S) >= y
        BY Zenon DEF Max
      <4> QED BY <3>1, <4>1 DEF S
    <3> QED BY <3>2
  <2>2. Bins + r.t - Half \in Int
    BY <1>1, <1>2
  <2> QED BY <2>1, <2>2
<1>4. PhaseSlice(r.t) \subseteq r.t - Half - 1..r.t + Half + 1
  BY <1>1, <1>2, <1>3 DEF PhaseSlice
<1>5. {r.t, r.beside} \subseteq r.t - Half - 1..r.t + Half + 1
  BY <1>1, <1>2
<1>6. \/ PhaseBins(r) \subseteq PhaseSlice(r.t)
      \/ PhaseBins(r) \subseteq {r.t, r.beside}
  BY DEF PhaseBins
<1> QED BY <1>4, <1>5, <1>6

(* The end of proc_elev() leads to the same place.                         *)
LEMMA NormalisedFacts ==
    ASSUME NEW lat \in -3..3, NEW lon \in -8..8
    PROVE  SamePlace(Normalised(lat, lon), <<lat, lon>>)
BY DEF SamePlace, Normalised

(* The interpolation is exact for the monomials up to the second degree.   *)
LEMMA InterpolationExact ==
    ASSUME NEW p \in 0..Quarters - 1, NEW q \in 0..Quarters - 1,
           NEW a \in 0..2, NEW b \in 0..2, a + b <= 2
    PROVE  ExactFor(a, b, p, q)
<1> DEFINE v == [c \in Neighbours |-> Power(Quarters * c[1], a) * Power(Quarters * c[2], b)]
<1>0. /\ v[<<0, -1>>] = Power(0, a) * Power(-4, b) /\ v[<<-1, 0>>] = Power(-4, a) * Power(0, b)
      /\ v[<<0, 0>>] = Power(0, a) * Power(0, b) /\ v[<<1, 0>>] = Power(4, a) * Power(0, b)
      /\ v[<<0, 1>>] = Power(0, a) * Power(4, b) /\ v[<<1, 1>>] = Power(4, a) * Power(4, b)
  <2>1. \A c \in Neighbours : v[c] = Power(Quarters * c[1], a) * Power(Quarters * c[2], b)
    OBVIOUS
  <2> HIDE DEF v
  <2> QED BY <2>1 DEF Neighbours, Quarters
<1>1. ExactFor(a, b, p, q) <=>
        v[<<0, -1>>] * (q * (q - 4)) + v[<<-1, 0>>] * (p * (p - 4))
          + v[<<0, 0>>] * (2 * (16 + p * q - p * p - q * q))
          + v[<<1, 0>>] * (p * (p - 2 * q + 4)) + v[<<0, 1>>] * (q * (q - 2 * p + 4))
          + v[<<1, 1>>] * (2 * p * q) = 32 * Power(p, a) * Power(q, b)
  BY DEF ExactFor, Interpolated, Quarters
<1> HIDE DEF v
<1>9. p \in {0, 1, 2, 3} /\ q \in {0, 1, 2, 3}
  BY DEF Quarters
<1>2. CASE a = 0 /\ b = 0
  BY <1>0, <1>1, <1>9, <1>2 DEF Power
<1>3. CASE a = 0 /\ b = 1
  BY <1>0, <1>1, <1>9, <1>3 DEF Power
<1>4. CASE a = 1 /\ b = 0
  BY <1>0, <1>1, <1>9, <1>4 DEF Power
<1>5. CASE a = 1 /\ b = 1
  BY <1>0, <1>1, <1>9, <1>5 DEF Power
<1>6. CASE a = 0 /\ b = 2
  BY <1>0, <1>1, <1>9, <1>6 DEF Power
<1>7. CASE a = 2 /\ b = 0
  BY <1>0, <1>1, <1>9, <1>7 DEF Power
<1>8. a \in {0, 1, 2} /\ b \in {0, 1, 2}
  OBVIOUS
<1> QED BY <1>2, <1>3, <1>4, <1>5, <1>6, <1>7, <1>8
-----------------------------------------------------------------------------
(* The two ways in which an action ends.                                   *)

LEMMA BlankFacts ==
    /\ IsResult(Blank)
    /\ Blank.height = "nan" /\ Blank.loc = "nadir" /\ Blank.dop = 0
    /\ Blank.ok = TRUE /\ Blank.corr = FALSE /\ Blank.poca = "nadir"
<1>1. IsResult(Blank)
  BY DEF IsResult, Blank, Fields
<1>2. Blank.height = "nan" /\ Blank.loc = "nadir" /\ Blank.dop = 0 /\ Blank.poca = "nadir"
  BY DEF Blank
<1>3. Blank.ok = TRUE /\ Blank.corr = FALSE
  BY DEF Blank
<1> QED BY <1>1, <1>2, <1>3

(* A result that says what Stored asks of it, and nothing of what the      *)
(* loops over all records are for.                                         *)
Storable(o) ==
    /\ IsResult(o) /\ Stored(o)
    /\ o.height \in {"nan", "slope", "plain", "first", "second"}
    /\ o.loc \in {"nadir", "poca", "nan"} /\ o.ok \in BOOLEAN /\ o.dop = 0
    /\ Searched => o.height = "nan" /\ o.loc = "nadir"

(* A record that is over: the others keep what they have got.              *)
LEMMA StoreKeeps ==
    ASSUME GInv, NEW result, Storable(result), Store(result), i \in Records,
           pc \notin {"doppler", "done", "raised"}
    PROVE  GInv'
<1>1. /\ out' = [out EXCEPT ![i] = result] /\ pc' = "record" /\ i' = i + 1 /\ job' = job
      /\ \A k \in Records : out'[k] = IF k = i THEN result ELSE out[k]
  BY DEF Store, GInv
<1>2. i' \in 1..NRecords + 1
  BY <1>1, GeolocateAssumption DEF Records
<1>3. /\ out' = [k \in Records |-> out'[k]] /\ \A k \in Records : IsResult(out'[k])
  BY <1>1 DEF GInv, Storable
<1>4. TypeOK'
  <2>1. \A k \in Records : /\ out'[k].height \in {"nan", "slope", "plain", "first", "second"}
                           /\ out'[k].loc \in {"nadir", "poca", "nan"}
                           /\ out'[k].dop \in 0..1
    <3>1. \A k \in Records : /\ out[k].height \in {"nan", "slope", "plain", "first", "second"}
                             /\ out[k].loc \in {"nadir", "poca", "nan"}
                             /\ out[k].dop \in 0..1
      BY DEF GInv, TypeOK
    <3>2. /\ result.height \in {"nan", "slope", "plain", "first", "second"}
          /\ result.loc \in {"nadir", "poca", "nan"} /\ result.dop \in 0..1
      BY DEF Storable
    <3> QED BY <1>1, <3>1, <3>2
  <2>2. \A k \in Records : out'[k].ok \in BOOLEAN
    BY <1>1, Zenon DEF GInv, TypeOK, Storable
  <2>3. job' \in Jobs
    BY <1>1 DEF GInv, TypeOK
  <2> QED BY <1>1, <1>2, <2>1, <2>2, <2>3 DEF TypeOK, Records
<1>5. OnTrack' /\ Searching' /\ InModel' /\ FileSurvives'
  BY <1>1 DEF OnTrack, Searching, InModel, FileSurvives
<1>6. ASSUME NEW k \in Records PROVE Stored(out[k])' /\ Untouched(out[k])'
  <2>1. Stored(out'[k]) /\ out'[k].dop = 0
        /\ (Searched => out'[k].height = "nan" /\ out'[k].loc = "nadir")
    BY <1>1 DEF GInv, Untouched, Storable
  <2>2. Stored(out[k])'
    BY <1>1, <2>1 DEF Stored, SearchSound, PointSound, LrmSound, SinSound, Searched
  <2>3. Untouched(out[k])'
    BY <1>1, <2>1 DEF Untouched, Searched
  <2> QED BY <2>2, <2>3
<1> QED BY <1>3, <1>4, <1>5, <1>6 DEF GInv, Records

(* A step to another control point of the record.                          *)
LEMMA MoveKeeps ==
    ASSUME GInv, UNCHANGED <<job, i, out>>, OnTrack', Searching', InModel', FileSurvives',
           pc \notin {"doppler", "done"},
           pc' \in {"record", "coarse", "fine", "check", "slide", "coarse lepta", "window",
                    "place", "elevation", "raised"}
    PROVE  GInv'
<1>1. TypeOK'
  BY DEF GInv, TypeOK, Records
<1>2. ASSUME NEW k \in Records PROVE Stored(out[k])' /\ Untouched(out[k])'
  <2>1. Stored(out[k])'
    BY DEF GInv, Stored, SearchSound, PointSound, LrmSound, SinSound, Searched
  <2>2. Untouched(out[k])'
    BY DEF GInv, Untouched, Searched
  <2> QED BY <2>1, <2>2
<1>3. out' = [k \in Records |-> out'[k]] /\ \A k \in Records : IsResult(out[k])'
  BY DEF GInv, IsResult
<1> QED BY <1>1, <1>2, <1>3 DEF GInv, Records

LEMMA InitGInv == Init => GInv
<1> SUFFICES ASSUME Init PROVE GInv
  OBVIOUS
<1>1. \A k \in Records : out[k] = Blank
  BY DEF Init, Records
<1>2. TypeOK
  <2>1. \A k \in Records : /\ out[k].height \in {"nan", "slope", "plain", "first", "second"}
                           /\ out[k].loc \in {"nadir", "poca", "nan"}
                           /\ out[k].dop \in 0..1
    BY <1>1, BlankFacts
  <2>2. \A k \in Records : out[k].ok \in BOOLEAN
    BY <1>1, BlankFacts, Zenon
  <2>3. i \in 1..NRecords + 1
    BY GeolocateAssumption DEF Init
  <2> QED BY <2>1, <2>2, <2>3 DEF Init, TypeOK
<1>3. IsResult(Blank)
  BY BlankFacts
<1>4. \A k \in Records : Stored(out[k]) /\ Untouched(out[k])
  BY <1>1, BlankFacts DEF Init, Stored, Untouched, SearchSound, LrmSound, SinSound
<1>5. OnTrack /\ Searching /\ InModel /\ FileSurvives
  BY DEF Init, OnTrack, Searching, InModel, FileSurvives
<1>6. out = [k \in Records |-> out[k]]
  BY DEF Init, Records
<1> QED BY <1>1, <1>2, <1>3, <1>4, <1>5, <1>6 DEF GInv

(* slope_ok[i] = False.                                                    *)
LEMMA FailKeeps ==
    ASSUME GInv, NEW r, NEW poca, FailAt(r, poca), Searched, i \in Records,
           pc \notin {"doppler", "done", "raised"}
    PROVE  GInv'
<1> DEFINE result == [Blank EXCEPT !.ok = FALSE, !.poca = poca, !.in = Kept(r)]
<1>1. Storable(result)
  <2>1. IsResult(result)
    BY BlankFacts DEF IsResult, Fields
  <2>0. result.ok = FALSE
    BY DEF Blank
  <2>2. /\ result.height = "nan" /\ result.loc = "nadir" /\ result.dop = 0
        /\ result.corr = FALSE
    BY DEF Blank
  <2> HIDE DEF result
  <2>3. Stored(result)
    BY <2>2 DEF Stored, SearchSound, Searched
  <2> QED BY <2>0, <2>1, <2>2, <2>3 DEF Storable
<1>2. Store(result)
  BY DEF FailAt
<1> HIDE DEF result
<1> QED BY <1>1, <1>2, StoreKeeps

LEMMA RaiseKeeps ==
    ASSUME GInv, Raise, FileSurvives', pc \notin {"doppler", "done"}
    PROVE  GInv'
<1>1. pc' = "raised" /\ UNCHANGED <<job, i, out>>
  BY DEF Raise, Go
<1>2. OnTrack' /\ Searching' /\ InModel'
  BY <1>1 DEF OnTrack, Searching, InModel
<1> QED BY <1>1, <1>2, MoveKeeps

(* A record for which nothing is looked for.                               *)
LEMMA SkipKeeps ==
    ASSUME GInv, NEW r, Store([Blank EXCEPT !.in = Kept(r)]), job.method # "sin",
           i \in Records, pc \notin {"doppler", "done", "raised"}
    PROVE  GInv'
<1> DEFINE result == [Blank EXCEPT !.in = Kept(r)]
<1>1. Storable(result)
  <2>1. IsResult(result)
    BY BlankFacts DEF IsResult, Fields
  <2>2. /\ result.height = "nan" /\ result.loc = "nadir" /\ result.dop = 0
        /\ result.corr = FALSE
    BY DEF Blank
  <2>3. result.ok = TRUE
    BY DEF Blank
  <2> HIDE DEF result
  <2>4. Stored(result)
    BY <2>2 DEF Stored, SearchSound, LrmSound, Searched
  <2> QED BY <2>1, <2>2, <2>3, <2>4 DEF Storable
<1> HIDE DEF result
<1> QED BY <1>1, StoreKeeps DEF result
-----------------------------------------------------------------------------
(* The steps of geolocate_roemer().                                        *)

LEMMA StartKeeps == ASSUME GInv, Start PROVE GInv'
<1>1. /\ pc = "start" /\ UNCHANGED <<job, i, in, work, out>>
      /\ pc' = "raised" => Searched /\ job.dhdt
      /\ pc' \in {"raised", "record"}
  BY DEF Start, Searched
<1>2. OnTrack' /\ Searching' /\ InModel' /\ FileSurvives'
  BY <1>1 DEF OnTrack, Searching, InModel, FileSurvives, Searched
<1> QED BY <1>1, <1>2, MoveKeeps

(* Where a record is read, it is the next one.                             *)
LEMMA ReadsFacts ==
    ASSUME GInv, NEW method, Reads(method)
    PROVE  job.method = method /\ i \in Records /\ pc = "record"
BY DEF GInv, TypeOK, Reads, Records

LEMMA RoemerReadKeeps ==
    ASSUME GInv, NEW r \in Inputs(job.method), RoemerRead(r) PROVE GInv'
<1>1. job.method = "roemer" /\ i \in Records /\ pc = "record" /\ Searched
  BY ReadsFacts DEF RoemerRead, Searched
<1>2. CASE Store([Blank EXCEPT !.in = Kept(r)])
  BY <1>1, <1>2, SkipKeeps
<1>3. CASE FailAt(r, "nadir")
  BY <1>1, <1>3, FailKeeps
<1>4. CASE r.include /\ (job.dual \/ job.slide)
           /\ Begin(r, IF job.dual THEN "coarse" ELSE "slide", None)
  <2>1. /\ in' = r /\ UNCHANGED <<job, i, out>>
        /\ pc' = IF job.dual THEN "coarse" ELSE "slide"
    BY <1>4 DEF Begin
  <2>2. OnTrack' /\ Searching' /\ InModel' /\ FileSurvives'
    BY <1>1, <1>4, <2>1 DEF OnTrack, Searching, InModel, FileSurvives, Records
  <2> QED BY <1>1, <2>1, <2>2, MoveKeeps
<1> QED BY <1>2, <1>3, <1>4 DEF RoemerRead

(* find_poca() ends at the next control point with the closest of the      *)
(* points, or raises because dh/dt is known at none of them.               *)
LEMMA FindPocaFacts ==
    ASSUME NEW points, NEW next, points # {}, \A p \in points : p.range \in Nat,
           FindPoca(points, next)
    PROVE  \/ Raise /\ job.dhdt
           \/ /\ Go(next, work') /\ work' \in points /\ CorrectedRange(work') # NaN
              /\ \A p \in points : CorrectedRange(p) # NaN => work'.range <= p.range
<1> DEFINE ranged == {p \in points : CorrectedRange(p) # NaN}
<1>1. CASE ranged = {}
  <2>1. Raise
    BY <1>1 DEF FindPoca
  <2>2. PICK p \in points : CorrectedRange(p) = NaN
    BY <1>1
  <2>3. job.dhdt
    BY <2>2 DEF CorrectedRange, NaN
  <2> QED BY <2>1, <2>3
<1>2. CASE ranged # {}
  <2> DEFINE c == CHOOSE p \in ranged : \A q \in ranged : p.range <= q.range
  <2>1. Go(next, c)
    BY <1>2 DEF FindPoca
  <2>2. \E p \in ranged : \A q \in ranged : p.range <= q.range
    <3> HIDE DEF ranged
    <3>1. \A p \in ranged : p.range \in Nat
      BY DEF ranged
    <3> QED BY <1>2, <3>1, ClosestExists
  <2>3. c \in ranged /\ \A q \in ranged : c.range <= q.range
    <3> HIDE DEF ranged
    <3> QED BY <2>2
  <2>4. work' = c
    BY <2>1 DEF Go
  <2> HIDE DEF c
  <2> QED BY <2>1, <2>3, <2>4
<1> QED BY <1>1, <1>2

LEMMA RoemerCoarseKeeps == ASSUME GInv, RoemerCoarse PROVE GInv'
<1> DEFINE points == Sensible(in.coarse)
           next == IF job.fine THEN "fine" ELSE "check"
<1>1. /\ pc = "coarse" /\ job.method = "roemer" /\ i \in Records /\ Searched /\ job.dual
      /\ in \in Inputs("roemer") /\ in.include
  BY DEF RoemerCoarse, GInv, OnTrack, Searched
<1>2. CASE points = {}
  BY <1>1, <1>2, FailKeeps DEF RoemerCoarse
<1>3. CASE points # {}
  <2>1. FindPoca(points, next)
    BY <1>3 DEF RoemerCoarse
  <2>2. \A p \in points : p.range \in Nat
    BY <1>1, InputsAssumption DEF Sensible
  <2> HIDE DEF points, next
  <2>3. CASE Raise /\ job.dhdt
    <3>1. FileSurvives'
      BY <1>1, <2>3 DEF FileSurvives, Searched, Raise, Go
    <3> QED BY <1>1, <2>3, <3>1, RaiseKeeps
  <2>4. CASE /\ Go(next, work') /\ work' \in points /\ CorrectedRange(work') # NaN
             /\ \A p \in points : CorrectedRange(p) # NaN => work'.range <= p.range
    <3>1. pc' = next /\ UNCHANGED <<job, i, in, out>> /\ next \in {"fine", "check"}
      BY <2>4 DEF Go, next
    <3>2. Looked' = in.coarse
      BY <3>1 DEF Looked, next
    <3>3. Searching'
      BY <2>4, <3>1, <3>2 DEF Searching, points, Sensible, CorrectedRange
    <3>4. OnTrack' /\ InModel' /\ FileSurvives'
      BY <1>1, <3>1 DEF OnTrack, InModel, FileSurvives, next, Records
    <3> QED BY <1>1, <3>1, <3>3, <3>4, MoveKeeps
  <2> QED BY <1>3, <2>1, <2>2, <2>3, <2>4, FindPocaFacts
<1> QED BY <1>2, <1>3

LEMMA RoemerFineKeeps == ASSUME GInv, RoemerFine PROVE GInv'
<1> DEFINE points == Sensible(in.fine)
<1>1. /\ pc = "fine" /\ job.method = "roemer" /\ i \in Records /\ Searched /\ job.dual
      /\ job.fine /\ in \in Inputs("roemer") /\ in.include
  BY DEF RoemerFine, GInv, OnTrack, Searched
<1>2. CASE FailAt(in, "point")
  BY <1>1, <1>2, FailKeeps
<1>3. CASE in.fine = {} /\ Raise
  <2>1. FileSurvives'
    BY <1>1, <1>3 DEF FileSurvives, Searched, Raise, Go
  <2> QED BY <1>1, <1>3, <2>1, RaiseKeeps
<1>4. CASE points # {} /\ FindPoca(points, "check")
  <2>1. \A p \in points : p.range \in Nat
    BY <1>1, InputsAssumption DEF Sensible
  <2> HIDE DEF points
  <2>2. CASE Raise /\ job.dhdt
    <3>1. FileSurvives'
      BY <1>1, <2>2 DEF FileSurvives, Searched, Raise, Go
    <3> QED BY <1>1, <2>2, <3>1, RaiseKeeps
  <2>3. CASE /\ Go("check", work') /\ work' \in points /\ CorrectedRange(work') # NaN
             /\ \A p \in points : CorrectedRange(p) # NaN => work'.range <= p.range
    <3>1. pc' = "check" /\ UNCHANGED <<job, i, in, out>>
      BY <2>3 DEF Go
    <3>2. Looked' = in.fine
      BY <1>1, <3>1 DEF Looked
    <3>3. Searching'
      BY <2>3, <3>1, <3>2 DEF Searching, points, Sensible, CorrectedRange
    <3>4. OnTrack' /\ InModel' /\ FileSurvives'
      BY <1>1, <3>1 DEF OnTrack, InModel, FileSurvives, Records
    <3> QED BY <1>1, <3>1, <3>3, <3>4, MoveKeeps
  <2> QED BY <1>4, <2>1, <2>2, <2>3, FindPocaFacts
<1> QED BY <1>2, <1>3, <1>4 DEF RoemerFine

LEMMA RoemerCheckKeeps == ASSUME GInv, RoemerCheck PROVE GInv'
<1> DEFINE result == [Blank EXCEPT !.poca = "point", !.corr = TRUE, !.point = work,
                                   !.reloc = work.dist, !.ok = work.dist <= MaxDistance,
                                   !.in = Kept(in)]
<1>1. /\ pc = "check" /\ job.method = "roemer" /\ i \in Records /\ Searched /\ job.dual
      /\ in \in Inputs("roemer") /\ in.include
      /\ work \in Sensible(Looked) /\ CorrectedRange(work) # NaN
  BY DEF RoemerCheck, GInv, OnTrack, Searched, Searching
<1>2. CASE FailAt(in, "point")
  BY <1>1, <1>2, FailKeeps
<1>3. CASE job.slide /\ Go("slide", work)
  <2>1. pc' = "slide" /\ UNCHANGED <<job, i, in, out>>
    BY <1>3 DEF Go
  <2>2. OnTrack' /\ Searching' /\ InModel' /\ FileSurvives'
    BY <1>1, <1>3, <2>1 DEF OnTrack, Searching, InModel, FileSurvives, Records
  <2> QED BY <1>1, <2>1, <2>2, MoveKeeps
<1>4. CASE ~OutsideWindow(work) /\ Store(result)
  <2>1. IsResult(result)
    BY BlankFacts DEF IsResult, Fields
  <2>2. /\ result.height = "nan" /\ result.loc = "nadir" /\ result.dop = 0
        /\ result.poca = "point" /\ result.point = work /\ result.reloc = work.dist
        /\ result.in = Kept(in)
    BY DEF Blank
  <2>3. result.ok = (work.dist <= MaxDistance)
    BY DEF Blank
  <2>4. Kept(in).include /\ (Kept(in).ranged <=> in.ranged)
    BY <1>1 DEF Kept
  <2> HIDE DEF result
  <2>5. work.beam /\ work.z = "ok" /\ (job.dhdt => work.dhdt = "ok")
    <3>1. work \in in.coarse \cup in.fine /\ work.beam /\ work.z = "ok"
      BY <1>1 DEF Sensible, Looked
    <3>2. work.dhdt \in {"ok", "nan"}
      BY <1>1, <3>1, InputsAssumption
    <3> QED BY <1>1, <3>1, <3>2 DEF CorrectedRange
  <2>6. job.reject /\ in.ranged =>
          result.point.range >= WindowStart /\ result.point.range <= WindowEnd
    <3>1. work.range \in Nat /\ WindowStart \in Nat /\ WindowEnd \in Nat
      BY <1>1, InputsAssumption, GeolocateAssumption DEF Sensible, Looked
    <3> QED BY <1>4, <2>2, <3>1 DEF OutsideWindow
  <2>7. PointSound(result)
    BY <2>2, <2>3, <2>4, <2>5, <2>6 DEF PointSound
  <2>8. Stored(result)
    BY <1>1, <2>2, <2>4, <2>7 DEF Stored, SearchSound, Searched
  <2>9. result.ok \in BOOLEAN
    BY <2>3
  <2> QED BY <1>1, <1>4, <2>1, <2>2, <2>8, <2>9, StoreKeeps DEF Storable
<1> QED BY <1>2, <1>3, <1>4 DEF RoemerCheck

LEMMA RoemerSlideKeeps == ASSUME GInv, RoemerSlide PROVE GInv'
<1> DEFINE known == in.windows \ {NaN}
           result == [Blank EXCEPT !.poca = IF known # {} THEN "point" ELSE "corner",
                                   !.corr = known # {} \/ in.corner, !.in = Kept(in)]
<1>1. /\ pc = "slide" /\ job.method = "roemer" /\ i \in Records /\ Searched
      /\ in.include /\ (job.dual => job.slide)
  BY DEF RoemerSlide, GInv, OnTrack, Searched
<1>2. CASE (job.dual \/ in.coarse = {}) /\ Raise
  <2>1. FileSurvives'
    BY <1>1, <1>2 DEF FileSurvives, Searched, Raise, Go
  <2> QED BY <1>1, <1>2, <2>1, RaiseKeeps
<1>3. CASE ~job.dual /\ Store(result)
  <2>1. IsResult(result)
    BY BlankFacts DEF IsResult, Fields
  <2>2. /\ result.height = "nan" /\ result.loc = "nadir" /\ result.dop = 0
        /\ result.poca # "nadir" /\ result.in = Kept(in)
    BY DEF Blank
  <2>3. result.ok = TRUE
    BY DEF Blank
  <2>4. Kept(in).include
    BY <1>1 DEF Kept
  <2> HIDE DEF result
  <2>5. Stored(result)
    BY <1>1, <1>3, <2>2, <2>4 DEF Stored, SearchSound, Searched
  <2> QED BY <1>1, <1>3, <2>1, <2>2, <2>3, <2>5, StoreKeeps DEF Storable
<1> QED BY <1>2, <1>3 DEF RoemerSlide
-----------------------------------------------------------------------------
(* The steps of geolocate_lepta().                                         *)

LEMMA LeptaReadKeeps ==
    ASSUME GInv, NEW r \in Inputs(job.method), LeptaRead(r) PROVE GInv'
<1>1. job.method = "lepta" /\ i \in Records /\ pc = "record" /\ Searched
  BY ReadsFacts DEF LeptaRead, Searched
<1>2. CASE Store([Blank EXCEPT !.in = Kept(r)])
  BY <1>1, <1>2, SkipKeeps
<1>3. CASE FailAt(r, "nadir")
  BY <1>1, <1>3, FailKeeps
<1>4. CASE r.include /\ Begin(r, "coarse lepta", None)
  <2>1. in' = r /\ UNCHANGED <<job, i, out>> /\ pc' = "coarse lepta"
    BY <1>4 DEF Begin
  <2>2. OnTrack' /\ Searching' /\ InModel' /\ FileSurvives'
    BY <1>1, <1>4, <2>1 DEF OnTrack, Searching, InModel, FileSurvives, Records
  <2> QED BY <1>1, <2>1, <2>2, MoveKeeps
<1> QED BY <1>2, <1>3, <1>4 DEF LeptaRead

(* A step that ends at another control point of geolocate_lepta().         *)
LEMMA LeptaGoKeeps ==
    ASSUME GInv, pc \in {"coarse lepta", "window", "place"},
           NEW point \in {"window", "place"}, NEW w, Go(point, w)
    PROVE  GInv'
<1>1. UNCHANGED <<job, i, in, out>> /\ pc' = point
  BY DEF Go
<1>2. job.method = "lepta" /\ i \in Records /\ in.include
  BY DEF GInv, OnTrack
<1>3. OnTrack' /\ Searching' /\ InModel' /\ FileSurvives'
  BY <1>1, <1>2 DEF OnTrack, Searching, InModel, FileSurvives, Records
<1> QED BY <1>1, <1>3, MoveKeeps

LEMMA LeptaSearchKeeps == ASSUME GInv, LeptaCandidates \/ LeptaWindow PROVE GInv'
<1>1. /\ pc \in {"coarse lepta", "window"} /\ job.method = "lepta" /\ i \in Records
      /\ Searched
  BY DEF LeptaCandidates, LeptaWindow, GInv, OnTrack, Searched
<1>2. CASE FailAt(in, "nadir")
  BY <1>1, <1>2, FailKeeps
<1>3. CASE \E w : Go("window", w) \/ Go("place", w)
  BY <1>1, <1>3, LeptaGoKeeps
<1>4. CASE job.window = "none" /\ Raise
  <2>1. FileSurvives'
    BY <1>1, <1>4 DEF FileSurvives, Searched, Raise, Go
  <2> QED BY <1>1, <1>4, <2>1, RaiseKeeps
<1> DEFINE points == IF job.window = "edge"
                     THEN Inside(work.found, in.edge[1], in.edge[2]) ELSE AroundPoint
<1>5. CASE LeptaCandidates
  BY <1>2, <1>3, <1>5 DEF LeptaCandidates
<1>6. CASE LeptaWindow
  <2>1. \/ job.window = "none" /\ Raise
        \/ FailAt(in, "nadir")
        \/ Go("place", [found |-> points])
    BY <1>6 DEF LeptaWindow
  <2> HIDE DEF points
  <2> QED BY <1>2, <1>3, <1>4, <2>1
<1> QED BY <1>5, <1>6

LEMMA LeptaPlaceKeeps == ASSUME GInv, LeptaPlace PROVE GInv'
<1> DEFINE result == [Blank EXCEPT !.poca = IF job.xy = "mean" THEN "mean" ELSE "point",
                                   !.point = Closest(work.found),
                                   !.corr = job.z # "around" \/ in.around,
                                   !.in = Kept(in)]
<1>1. pc = "place" /\ job.method = "lepta" /\ i \in Records /\ Searched /\ in.include
  BY DEF LeptaPlace, GInv, OnTrack, Searched
<1>2. CASE (job.xy = "none" \/ job.z = "none") /\ Raise
  <2>1. FileSurvives'
    BY <1>1, <1>2 DEF FileSurvives, Searched, Raise, Go
  <2> QED BY <1>1, <1>2, <2>1, RaiseKeeps
<1>3. CASE Store(result)
  <2>1. IsResult(result)
    BY BlankFacts DEF IsResult, Fields
  <2>2. /\ result.height = "nan" /\ result.loc = "nadir" /\ result.dop = 0
        /\ result.poca # "nadir" /\ result.in = Kept(in)
    BY DEF Blank
  <2>3. result.ok = TRUE
    BY DEF Blank
  <2>4. Kept(in).include
    BY <1>1 DEF Kept
  <2> HIDE DEF result
  <2>5. Stored(result)
    BY <1>1, <2>2, <2>4 DEF Stored, SearchSound, Searched
  <2> QED BY <1>1, <1>3, <2>1, <2>2, <2>3, <2>5, StoreKeeps DEF Storable
<1> QED BY <1>2, <1>3 DEF LeptaPlace
-----------------------------------------------------------------------------
(* The loops over all records.                                             *)

(* A loop gives every record a result that is still sound.                 *)
LEMMA LoopKeeps ==
    ASSUME GInv, UNCHANGED <<job, i, in, work>>, pc' \in {"doppler", "done"},
           pc' = "doppler" => Searched,
           NEW new, out' = [k \in 1..NRecords |-> new[k]],
           \A k \in Records :
              /\ IsResult(new[k]) /\ Stored(new[k]) /\ new[k].ok = out[k].ok
              /\ new[k].height \in {"nan", "slope", "plain", "first", "second"}
              /\ new[k].loc \in {"nadir", "poca", "nan"} /\ new[k].dop \in 0..1
              /\ pc' = "doppler" => new[k].dop = 0
              /\ Searched /\ new[k].height = "slope" => new[k].loc = "poca"
    PROVE  GInv'
<1>1. \A k \in Records : out'[k] = new[k]
  BY DEF Records
<1>2. TypeOK'
  <2>1. \A k \in Records : /\ out'[k].height \in {"nan", "slope", "plain", "first", "second"}
                           /\ out'[k].loc \in {"nadir", "poca", "nan"}
                           /\ out'[k].dop \in 0..1
    BY <1>1
  <2>2. \A k \in Records : out'[k].ok \in BOOLEAN
    <3>1. \A k \in Records : out[k].ok \in BOOLEAN
      BY DEF GInv, TypeOK
    <3> QED BY <1>1, <3>1, Zenon
  <2>3. job' \in Jobs /\ i' \in 1..NRecords + 1
    BY DEF GInv, TypeOK
  <2> QED BY <2>1, <2>2, <2>3 DEF TypeOK, Records
<1>3. OnTrack' /\ Searching' /\ InModel' /\ FileSurvives'
  BY DEF OnTrack, Searching, InModel, FileSurvives, Searched
<1>4. ASSUME NEW k \in Records PROVE Stored(out[k])' /\ Untouched(out[k])'
  <2>1. Stored(out[k])'
    BY <1>1 DEF Stored, SearchSound, PointSound, LrmSound, SinSound, Searched
  <2>2. Untouched(out[k])'
    BY <1>1 DEF Untouched, Searched
  <2> QED BY <2>1, <2>2
<1>5. out' = [k \in Records |-> out'[k]] /\ \A k \in Records : IsResult(out'[k])
  BY <1>1 DEF Records
<1> QED BY <1>2, <1>3, <1>4, <1>5 DEF GInv, Records

LEMMA HeightsKeeps == ASSUME GInv, Heights PROVE GInv'
<1> DEFINE new == [k \in Records |-> Locate(out[k])]
<1>1. pc = "record" /\ Searched /\ UNCHANGED <<job, i, in, work>> /\ pc' = "doppler"
  BY DEF Heights, Searched
<1>2. out' = [k \in 1..NRecords |-> new[k]]
  BY DEF Heights, Records
<1>3. ASSUME NEW k \in Records
      PROVE  /\ IsResult(new[k]) /\ Stored(new[k]) /\ new[k].ok = out[k].ok
             /\ new[k].height \in {"nan", "slope"} /\ new[k].loc \in {"nadir", "poca"}
             /\ new[k].dop = 0
             /\ new[k].height = "slope" => new[k].loc = "poca"
  <2> DEFINE o == out[k]
             n == Locate(o)
  <2>1. IsResult(o) /\ SearchSound(o) /\ o.dop = 0
    BY <1>1 DEF GInv, Stored, Untouched
  <2>2. new[k] = n
    OBVIOUS
  <2> HIDE DEF o, new
  <2>3. IsResult(n)
    BY <2>1 DEF IsResult, Locate, Fields
  <2>4. /\ n.poca = o.poca /\ n.corr = o.corr /\ n.point = o.point /\ n.reloc = o.reloc
        /\ n.ok = o.ok /\ n.dop = o.dop /\ n.in = o.in
        /\ n.height = IF o.in.finite /\ o.ok THEN HeightOf(o) ELSE "nan"
        /\ n.loc = IF o.in.finite /\ o.ok /\ o.poca # "nadir" THEN "poca" ELSE "nadir"
    BY <2>1 DEF IsResult, Locate, Fields
  <2> HIDE DEF n
  <2>5. SearchSound(n) /\ (n.height = "slope" => n.loc = "poca")
    BY <2>1, <2>4 DEF SearchSound, PointSound, HeightOf
  <2>6. Stored(n)
    BY <1>1, <2>5 DEF Stored, Searched
  <2>7. n.height \in {"nan", "slope"} /\ n.loc \in {"nadir", "poca"} /\ n.dop = 0
    BY <2>1, <2>4 DEF HeightOf
  <2> QED BY <2>2, <2>3, <2>4, <2>5, <2>6, <2>7 DEF o
<1> HIDE DEF new
<1> QED BY <1>1, <1>2, <1>3, LoopKeeps

(* A Doppler correction changes nothing but the count.                     *)
LEMMA DopplerFacts ==
    ASSUME NEW o, IsResult(o), o.dop = 0, Stored(o)
    PROVE  LET n == [o EXCEPT !.dop = @ + 1]
           IN /\ IsResult(n) /\ Stored(n) /\ n.dop = 1
              /\ n.ok = o.ok /\ n.height = o.height /\ n.loc = o.loc
<1> DEFINE n == [o EXCEPT !.dop = @ + 1]
<1>1. IsResult(n)
  BY DEF IsResult, Fields
<1>2. /\ n.poca = o.poca /\ n.corr = o.corr /\ n.point = o.point /\ n.reloc = o.reloc
      /\ n.ok = o.ok /\ n.in = o.in /\ n.height = o.height /\ n.loc = o.loc
      /\ n.dop = 1
  BY DEF IsResult, Fields
<1> HIDE DEF n
<1>3. Stored(n)
  BY <1>2 DEF Stored, SearchSound, PointSound, LrmSound, SinSound
<1> QED BY <1>1, <1>2, <1>3 DEF n

LEMMA DopplerKeeps == ASSUME GInv, Doppler PROVE GInv'
<1> DEFINE new == [k \in Records |->
                     IF job.doppler /\ out[k].height = "slope" THEN [out[k] EXCEPT !.dop = @ + 1]
                     ELSE out[k]]
<1>1. pc = "doppler" /\ Searched /\ UNCHANGED <<job, i, in, work>> /\ pc' = "done"
  BY DEF Doppler, GInv, OnTrack
<1>2. out' = [k \in 1..NRecords |-> new[k]]
  BY DEF Doppler, Records
<1>3. ASSUME NEW k \in Records
      PROVE  /\ IsResult(new[k]) /\ Stored(new[k]) /\ new[k].ok = out[k].ok
             /\ new[k].height \in {"nan", "slope", "plain", "first", "second"}
             /\ new[k].loc \in {"nadir", "poca", "nan"} /\ new[k].dop \in 0..1
             /\ new[k].height = "slope" => new[k].loc = "poca"
  <2>1. /\ IsResult(out[k]) /\ Stored(out[k]) /\ out[k].dop = 0
        /\ out[k].height = "slope" => out[k].loc = "poca"
        /\ out[k].height \in {"nan", "slope", "plain", "first", "second"}
        /\ out[k].loc \in {"nadir", "poca", "nan"}
    BY <1>1 DEF GInv, TypeOK, Untouched
  <2>2. CASE job.doppler /\ out[k].height = "slope"
    <3>1. new[k] = [out[k] EXCEPT !.dop = @ + 1]
      BY <2>2
    <3> HIDE DEF new
    <3> QED BY <2>1, <3>1, DopplerFacts
  <2>3. CASE ~(job.doppler /\ out[k].height = "slope")
    <3>1. new[k] = out[k]
      BY <2>3
    <3> HIDE DEF new
    <3> QED BY <2>1, <3>1
  <2> QED BY <2>2, <2>3
<1> HIDE DEF new
<1> QED BY <1>1, <1>2, <1>3, LoopKeeps

LEMMA LrmDopplerKeeps == ASSUME GInv, LrmDoppler PROVE GInv'
<1> DEFINE new == [k \in Records |->
                     IF out[k].height = "slope" THEN [out[k] EXCEPT !.dop = @ + 1] ELSE out[k]]
<1>1. /\ pc = "record" /\ job.method = "lrm" /\ UNCHANGED <<job, i, in, work>> /\ pc' = "done"
      /\ ~Searched
  BY DEF LrmDoppler, Searched
<1>2. out' = [k \in 1..NRecords |-> new[k]]
  BY DEF LrmDoppler, Records
<1>3. ASSUME NEW k \in Records
      PROVE  /\ IsResult(new[k]) /\ Stored(new[k]) /\ new[k].ok = out[k].ok
             /\ new[k].height \in {"nan", "slope", "plain", "first", "second"}
             /\ new[k].loc \in {"nadir", "poca", "nan"} /\ new[k].dop \in 0..1
  <2>1. /\ IsResult(out[k]) /\ Stored(out[k]) /\ out[k].dop = 0
        /\ out[k].height \in {"nan", "slope", "plain", "first", "second"}
        /\ out[k].loc \in {"nadir", "poca", "nan"}
    BY <1>1 DEF GInv, TypeOK, Untouched
  <2>2. CASE out[k].height = "slope"
    <3>1. new[k] = [out[k] EXCEPT !.dop = @ + 1]
      BY <2>2
    <3> HIDE DEF new
    <3> QED BY <2>1, <3>1, DopplerFacts
  <2>3. CASE out[k].height # "slope"
    <3>1. new[k] = out[k]
      BY <2>3
    <3> HIDE DEF new
    <3> QED BY <2>1, <3>1
  <2> QED BY <2>2, <2>3
<1> HIDE DEF new
<1> QED BY <1>1, <1>2, <1>3, LoopKeeps

LEMMA SinUnwrapKeeps == ASSUME GInv, SinUnwrap PROVE GInv'
<1> DEFINE new == [k \in Records |->
                     IF job.unwrap /\ BetterUnwrapped(out[k])
                     THEN [out[k] EXCEPT !.height = "second", !.loc = "poca"] ELSE out[k]]
<1>1. /\ pc = "record" /\ job.method = "sin" /\ UNCHANGED <<job, i, in, work>> /\ pc' = "done"
      /\ ~Searched
  BY DEF SinUnwrap, Searched
<1>2. out' = [k \in 1..NRecords |-> new[k]]
  BY DEF SinUnwrap, Records
<1>3. ASSUME NEW k \in Records
      PROVE  /\ IsResult(new[k]) /\ Stored(new[k]) /\ new[k].ok = out[k].ok
             /\ new[k].height \in {"nan", "slope", "plain", "first", "second"}
             /\ new[k].loc \in {"nadir", "poca", "nan"} /\ new[k].dop \in 0..1
  <2>1. /\ IsResult(out[k]) /\ Stored(out[k]) /\ out[k].dop = 0
        /\ out[k].height \in {"nan", "slope", "plain", "first", "second"}
        /\ out[k].loc \in {"nadir", "poca", "nan"}
    BY <1>1 DEF GInv, TypeOK, Untouched
  <2>2. CASE job.unwrap /\ BetterUnwrapped(out[k])
    <3> DEFINE n == [out[k] EXCEPT !.height = "second", !.loc = "poca"]
    <3>1. new[k] = n
      BY <2>2
    <3>2. IsResult(n)
      BY <2>1 DEF IsResult, Fields
    <3>3. /\ n.height = "second" /\ n.loc = "poca" /\ n.dop = out[k].dop /\ n.in = out[k].in
          /\ n.ok = out[k].ok
      BY <2>1 DEF IsResult, Fields
    <3> HIDE DEF n, new
    <3>4. Stored(n)
      BY <1>1, <2>1, <2>2, <3>3 DEF Stored, SinSound, BetterUnwrapped
    <3> QED BY <2>1, <3>1, <3>2, <3>3, <3>4
  <2>3. CASE ~(job.unwrap /\ BetterUnwrapped(out[k]))
    <3>1. new[k] = out[k]
      BY <2>3
    <3> HIDE DEF new
    <3> QED BY <2>1, <3>1
  <2> QED BY <2>2, <2>3
<1> HIDE DEF new
<1> QED BY <1>1, <1>2, <1>3, LoopKeeps
-----------------------------------------------------------------------------
(* The steps of geolocate_lrm() and geolocate_sin().                       *)

LEMMA ModelTypes ==
    ASSUME NEW k \in DOMAIN Models
    PROVE  /\ Models[k].corner_x \in Int /\ Models[k].corner_y \in Int
           /\ Models[k].x_num \in Nat /\ Models[k].y_num \in Nat
<1> DEFINE S == [hemisphere : Int, corner_x : Int, corner_y : Int, x_num : Nat, y_num : Nat]
<1>1. Models \in Seq(S)
  BY ModelsAssumption
<1> HIDE DEF S
<1>2. Models[k] \in S
  BY <1>1
<1> QED BY <1>2 DEF S

(* The model chosen for a position has its neighbours.                     *)
LEMMA ModelOfFacts ==
    ASSUME NEW r, ModelOf(r) # 0
    PROVE  /\ ModelOf(r) \in DOMAIN Models /\ Models[ModelOf(r)].hemisphere = r.hemisphere
           /\ HasNeighbours(Models[ModelOf(r)], (r.x - Models[ModelOf(r)].corner_x) \div Quarters,
                            (r.y - Models[ModelOf(r)].corner_y) \div Quarters)
<1> DEFINE fits == {k \in DOMAIN Models :
                      /\ Models[k].hemisphere = r.hemisphere
                      /\ HasNeighbours(Models[k], (r.x - Models[k].corner_x) \div Quarters,
                                       (r.y - Models[k].corner_y) \div Quarters)}
<1>1. fits # {} /\ ModelOf(r) = Min(fits)
  BY DEF ModelOf
<1>2. fits \subseteq Nat
  <2>1. DOMAIN Models = 1..Len(Models) /\ Len(Models) \in Nat
    BY ModelsAssumption
  <2> QED BY <2>1
<1>3. Min(fits) \in fits
  <2> HIDE DEF fits
  <2> QED BY <1>1, <1>2, MinFacts
<1> QED BY <1>1, <1>3

LEMMA LrmReadKeeps ==
    ASSUME GInv, NEW r \in Inputs(job.method), LrmRead(r) PROVE GInv'
<1>1. job.method = "lrm" /\ i \in Records /\ pc = "record" /\ ~Searched
  BY ReadsFacts DEF LrmRead, Searched
<1>2. CASE Store([Blank EXCEPT !.in = Kept(r)])
  BY <1>1, <1>2, SkipKeeps
<1> DEFINE plain == [Blank EXCEPT !.height = IF r.ranged THEN "plain" ELSE "nan", !.in = Kept(r)]
<1>3. CASE ~r.grounded /\ Store(plain)
  <2>1. IsResult(plain)
    BY BlankFacts DEF IsResult, Fields
  <2>2. /\ plain.height = (IF r.ranged THEN "plain" ELSE "nan")
        /\ plain.loc = "nadir" /\ plain.dop = 0
    BY DEF Blank
  <2>3. plain.ok = TRUE
    BY DEF Blank
  <2>5. plain.in = Kept(r) /\ (Kept(r).ranged <=> r.ranged) /\ (Kept(r).grounded <=> r.grounded)
    BY DEF Blank, Kept
  <2> HIDE DEF plain
  <2>4. Stored(plain)
    BY <1>1, <1>3, <2>2, <2>5 DEF Stored, LrmSound
  <2> QED BY <1>1, <1>3, <2>1, <2>2, <2>3, <2>4, StoreKeeps DEF Storable
<1> DEFINE mod == Models[ModelOf(r)]
           x == r.x - mod.corner_x
           y == r.y - mod.corner_y
<1>4. CASE /\ ModelOf(r) # 0 /\ r.grounded /\ r.ranged
           /\ Begin(r, "elevation", [n |-> x \div Quarters, m |-> y \div Quarters,
                                     p |-> x % Quarters, q |-> y % Quarters,
                                     model |-> ModelOf(r)])
  <2>1. in' = r /\ UNCHANGED <<job, i, out>> /\ pc' = "elevation"
    BY <1>4 DEF Begin
  <2>2. /\ work'.n = x \div Quarters /\ work'.m = y \div Quarters
        /\ work'.p = x % Quarters /\ work'.q = y % Quarters /\ work'.model = ModelOf(r)
    BY <1>4 DEF Begin
  <2>3. x \in Int /\ y \in Int
    <3>1. mod.corner_x \in Int /\ mod.corner_y \in Int
      BY <1>4, ModelOfFacts, ModelTypes
    <3>2. r.x \in Int /\ r.y \in Int
      BY <1>1, InputsAssumption
    <3> QED BY <3>1, <3>2
  <2>4. InModel'
    <3> HIDE DEF x, y
    <3>1. /\ x \div Quarters \in Int /\ y \div Quarters \in Int
          /\ x % Quarters \in 0..Quarters - 1 /\ y % Quarters \in 0..Quarters - 1
      BY <2>3 DEF Quarters
    <3>2. HasNeighbours(mod, x \div Quarters, y \div Quarters) /\ ModelOf(r) \in DOMAIN Models
          /\ Models[ModelOf(r)].hemisphere = r.hemisphere
      BY <1>4, ModelOfFacts DEF x, y
    <3> QED BY <2>1, <2>2, <3>1, <3>2 DEF InModel
  <2>5. OnTrack' /\ Searching' /\ FileSurvives'
    BY <1>1, <1>4, <2>1 DEF OnTrack, Searching, FileSurvives, Records
  <2> QED BY <1>1, <2>1, <2>4, <2>5, MoveKeeps
<1> QED BY <1>2, <1>3, <1>4 DEF LrmRead

LEMMA LrmElevationKeeps == ASSUME GInv, LrmElevation PROVE GInv'
<1> DEFINE point == [at |-> Normalised(in.lat, in.lon), of |-> <<in.lat, in.lon>>,
                     bad |-> BadSlope(in), hemisphere |-> in.hemisphere, model |-> work.model]
           result == [Blank EXCEPT !.height = "slope", !.loc = "poca", !.poca = "relocated",
                                   !.point = point, !.in = Kept(in)]
<1>1. /\ pc = "elevation" /\ job.method = "lrm" /\ i \in Records /\ ~Searched
      /\ in \in Inputs("lrm") /\ in.grounded /\ in.ranged
      /\ Models[work.model].hemisphere = in.hemisphere
  BY DEF LrmElevation, GInv, OnTrack, InModel, Searched
<1>2. Store(result)
  BY DEF LrmElevation, LrmSlopeError
<1>3. IsResult(result)
  BY BlankFacts DEF IsResult, Fields
<1>4. /\ result.height = "slope" /\ result.loc = "poca" /\ result.poca = "relocated"
      /\ result.point = point /\ result.dop = 0
  BY DEF Blank
<1>5. result.ok = TRUE
  BY DEF Blank
<1>10. result.in = Kept(in)
  BY DEF Blank
<1> HIDE DEF result
<1>6. SamePlace(point.at, point.of)
  BY <1>1, InputsAssumption, NormalisedFacts
<1>8. Models[point.model].hemisphere = point.hemisphere
  BY <1>1
<1> HIDE DEF point
<1>9. result.in.grounded /\ result.in.ranged
  BY <1>1, <1>10 DEF Kept
<1>7. Stored(result)
  BY <1>1, <1>4, <1>5, <1>6, <1>8, <1>9 DEF Stored, LrmSound
<1> QED BY <1>1, <1>2, <1>3, <1>4, <1>5, <1>7, StoreKeeps DEF Storable

LEMMA SinUnsetKeeps ==
    ASSUME GInv, NEW r, SinUnset(r) PROVE GInv'
<1>1. job.method = "sin" /\ pc = "record" /\ job.phase = "unset" /\ Raise
  BY ReadsFacts DEF SinUnset
<1>2. FileSurvives'
  BY <1>1 DEF FileSurvives, Raise, Go
<1> QED BY <1>1, <1>2, RaiseKeeps

LEMMA SinReadKeeps ==
    ASSUME GInv, NEW r \in Inputs(job.method), SinRead(r) PROVE GInv'
<1>1. job.method = "sin" /\ i \in Records /\ pc = "record" /\ ~Searched
  BY ReadsFacts DEF SinRead, Searched
<1> DEFINE found == r.retracked /\ PhaseFound(r)
           near == PhaseBins(r) \subseteq r.t - Half - 1..r.t + Half + 1
           kept == [retracked |-> r.retracked, phase |-> r.phase, first |-> r.first,
                    second |-> r.second, closer |-> r.closer, near |-> near]
           result == [Blank EXCEPT
                        !.height = IF found /\ r.first = "in" THEN "first" ELSE "nan",
                        !.loc = IF found /\ r.first = "in" THEN "poca" ELSE "nan",
                        !.other = IF found /\ job.unwrap THEN r.second ELSE "none",
                        !.in = kept]
<1>2. Store(result)
  BY DEF SinRead
<1>3. near
  BY <1>1, PhaseBinsNear
<1> HIDE DEF near
<1>4. /\ kept.retracked = r.retracked /\ kept.phase = r.phase /\ kept.first = r.first
      /\ kept.near = near
  OBVIOUS
<1> HIDE DEF kept
<1>5. IsResult(result)
  BY BlankFacts DEF IsResult, Fields
<1>6. /\ result.height = (IF found /\ r.first = "in" THEN "first" ELSE "nan")
      /\ result.loc \in {"poca", "nan"} /\ result.in = kept /\ result.dop = 0
  BY DEF Blank
<1>7. result.ok = TRUE
  BY DEF Blank
<1> HIDE DEF result
<1>8. Stored(result)
  BY <1>1, <1>3, <1>4, <1>6 DEF Stored, SinSound, PhaseFound
<1> QED BY <1>1, <1>2, <1>5, <1>6, <1>7, <1>8, StoreKeeps DEF Storable
-----------------------------------------------------------------------------
(* The theorems.                                                           *)

LEMMA NextGInv == GInv /\ [Next]_vars => GInv'
<1> SUFFICES ASSUME GInv, [Next]_vars PROVE GInv'
  OBVIOUS
<1>1. CASE UNCHANGED vars
  <2>1. /\ job' = job /\ pc' = pc /\ i' = i /\ in' = in /\ work' = work /\ out' = out
    BY <1>1 DEF vars
  <2>2. TypeOK' /\ OnTrack' /\ InModel' /\ FileSurvives'
    BY <2>1 DEF GInv, TypeOK, OnTrack, InModel, FileSurvives, Searched, Records
  <2>3. Searching'
    BY <2>1 DEF GInv, Searching, Looked, Sensible, CorrectedRange
  <2>4. ASSUME NEW k \in Records PROVE Stored(out[k])' /\ Untouched(out[k])'
    BY <2>1 DEF GInv, Stored, SearchSound, PointSound, LrmSound, SinSound, Untouched, Searched
  <2>5. out' = [k \in Records |-> out'[k]] /\ \A k \in Records : IsResult(out'[k])
    BY <2>1 DEF GInv
  <2> QED BY <2>2, <2>3, <2>4, <2>5 DEF GInv, Records
<1>2. CASE Next
  BY <1>2, StartKeeps, RoemerReadKeeps, LeptaReadKeeps, LrmReadKeeps, SinReadKeeps, SinUnsetKeeps,
     RoemerCoarseKeeps, RoemerFineKeeps, RoemerCheckKeeps, RoemerSlideKeeps,
     LeptaSearchKeeps, LeptaPlaceKeeps, HeightsKeeps, DopplerKeeps, LrmElevationKeeps,
     LrmDopplerKeeps, SinUnwrapKeeps DEF Next
<1> QED BY <1>1, <1>2

LEMMA GInvHolds == Spec => []GInv
BY InitGInv, NextGInv, PTL DEF Spec

(* For any number of records and any DEM, geolocate_roemer(),              *)
(* geolocate_lepta() and geolocate_sin() give a height only to a record    *)
(* that passed every test before it; geolocate_lrm() only to one that has  *)
(* a range, and with slope correction only to a grounded one, from a slope *)
(* model of its hemisphere that may have no good slope there.              *)
THEOREM HeightsAreEarned == Spec => []HeightsEarned
<1>1. GInv => HeightsEarned
  <2> SUFFICES ASSUME GInv PROVE TypeOK /\ HeightEarned /\ LrmEarned /\ SinEarned
    BY DEF HeightsEarned
  <2>1. HeightEarned
    BY DEF GInv, Stored, SearchSound, HeightEarned
  <2>2. SinEarned
    BY DEF GInv, Stored, SinSound, SinEarned
  <2>3. LrmEarned
    BY DEF GInv, Stored, LrmSound, LrmEarned
  <2> QED BY <2>1, <2>2, <2>3 DEF GInv
<1> QED BY <1>1, GInvHolds, PTL

(* The POCA under a height of the dual search was in the beam, had a       *)
(* height, was within the range window and the maximum distance, and was   *)
(* the closest point; the location reported is that point, or, with the    *)
(* slope model, the place the slope led to.                                *)
THEOREM PocaIsPossible == Spec => []PocaFits
<1>1. GInv => PocaFits
  <2> SUFFICES ASSUME GInv PROVE PocaSound /\ LocationFits /\ LocationNormal
    BY DEF PocaFits
  <2>1. PocaSound
    <3>1. ASSUME job.method = "roemer", job.dual, NEW k \in Records, out[k].height = "slope"
          PROVE  /\ out[k].ok /\ out[k].in.ranged /\ PointSound(out[k])
      BY <3>1 DEF GInv, Stored, SearchSound, Searched
    <3>2. ASSUME pc \in {"fine", "check"}, NEW p \in Looked, p.beam, p.z = "ok",
                 CorrectedRange(p) # NaN
          PROVE  work.range <= p.range
      BY <3>2 DEF GInv, Searching, Sensible
    <3> QED BY <3>1, <3>2 DEF PocaSound, PointSound, Looked
  <2>2. LocationFits
    <3>1. job \in Jobs
      BY DEF GInv, TypeOK
    <3>2. job.method \in {"roemer", "lepta", "lrm", "sin"}
      BY <3>1, InputsAssumption
    <3> QED BY <3>2 DEF GInv, Stored, SearchSound, LrmSound, Untouched, Searched, LocationFits
  <2>3. LocationNormal
    BY DEF GInv, Stored, LrmSound, SamePlace, LocationNormal
  <2> QED BY <2>1, <2>2, <2>3
<1> QED BY <1>1, GInvHolds, PTL

(* Without dh/dt, with a method configured and no empty segment of the     *)
(* DEM, no record makes the function raise.                                *)
THEOREM TheFileSurvives == Spec => []FileSurvives
<1>1. GInv => FileSurvives
  BY DEF GInv
<1> QED BY <1>1, GInvHolds, PTL

(* The neighbours that interp_slope() reads lie in the slope model, and    *)
(* what it returns is exact up to the second degree, at any position and   *)
(* for any models.                                                         *)
THEOREM SlopesAreExact == Spec => []SlopeExact
<1>1. GInv => SlopeExact
  <2> SUFFICES ASSUME GInv, pc = "elevation"
               PROVE  /\ \A c \in Neighbours :
                           /\ work.n + c[1] \in 0..Models[work.model].x_num - 1
                           /\ work.m + c[2] \in 0..Models[work.model].y_num - 1
                      /\ \A a, b \in 0..2 : a + b <= 2 => ExactFor(a, b, work.p, work.q)
    BY DEF SlopeExact
  <2>1. InModel
    BY DEF GInv
  <2>2. Models[work.model].x_num \in Nat /\ Models[work.model].y_num \in Nat
    BY <2>1, ModelTypes DEF InModel
  <2>3. ASSUME NEW c \in Neighbours PROVE c[1] \in -1..1 /\ c[2] \in -1..1
    BY DEF Neighbours
  <2>4. \A c \in Neighbours : /\ work.n + c[1] \in 0..Models[work.model].x_num - 1
                              /\ work.m + c[2] \in 0..Models[work.model].y_num - 1
    BY <2>1, <2>2, <2>3 DEF InModel, HasNeighbours
  <2> QED BY <2>1, <2>4, InterpolationExact DEF InModel
<1> QED BY <1>1, GInvHolds, PTL
==========================================================================
