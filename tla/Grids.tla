------------------------------- MODULE Grids -------------------------------
(***************************************************************************)
(* Gridded auxiliary data: the classes Dem, Slopes, Roughness and Dhdt     *)
(* (dems.py, slopes.py, roughness.py, dhdt.py) and Mask (masks.py), which  *)
(* find a file, load it and look points up in it, and the tool that makes  *)
(* the Zarr files (geotiff_to_zarr.py), which may be killed and started    *)
(* again at any time, also while a grid is in use.                         *)
(*                                                                         *)
(* A file has NR x NC cells.  Coordinates along an axis are in units of    *)
(* half the distance of two of its nodes: node n is at 2n, odd coordinates *)
(* are half-way (where the cells are, on that scale, is Centre).  The      *)
(* value of a cell is its own place, <<y, x>>, so that an answer is the    *)
(* set of places it was made of.                                           *)
(*                                                                         *)
(* External: numpy, scipy's interpolation, Zarr, which reads a chunk that  *)
(* is not there as zeros, and the order of the rows in the files: the      *)
(* highest y first in GeoTIFF, Zarr and npz files and the masks of         *)
(* BedMachine, the lowest y first in the other netCDF files.               *)
(***************************************************************************)
EXTENDS Integers, Sequences, FiniteSets, FiniteSetsExt

CONSTANTS
    NR, NC,        \* rows and columns
    Voids,         \* sets of places, one of which has no data
    Rates,         \* dh/dt of the places, in m per year
    Queries,       \* sets of points <<y, x>> that are asked for together
    Bounds,        \* <<miny, maxy, minx, maxx>>, of segments
    Directories,   \* the ones that are given, and the ones that have the file
    ChunkWidths,   \* chunk_width in cells
    Surface,       \* the surface type at each place, of a mask
    Basins,        \* lists of basin_numbers
    MaxConversions,\* times that the converter is started
    MaxGone        \* files a removal has deleted when it is interrupted

Rows == 0..NR - 1
Cols == 0..NC - 1
Cells == Rows \X Cols

ASSUME GridsAssumption ==
    /\ NR \in Nat /\ NC \in Nat /\ NR > 1 /\ NC > 1
    /\ Voids \subseteq SUBSET Cells /\ Rates \subseteq [Cells -> Int]
    /\ \A q \in Queries : IsFiniteSet(q) /\ q \subseteq Int \X Int
    /\ Surface \in [Cells -> Nat] /\ Basins \subseteq Seq(Nat)
    /\ ChunkWidths \subseteq Nat \ {0}
    /\ \A b \in Bounds : b \in Int \X Int \X Int \X Int /\ b[1] <= b[2] /\ b[3] <= b[4]
    /\ MaxConversions \in Nat /\ MaxGone \in Nat

Void == <<-1, -1>>      \* void_value
NaN == <<-2, -2>>
Fill == <<-3, -3>>      \* a chunk that is not there reads as zero
Unknown == <<-4, -4>>   \* unknown_value
Values == Cells \cup {Void, NaN, Fill}
NaNPoint == <<-9, -9>>

Flip(s, n) == [k \in 0..n - 1 |-> s[n - 1 - k]]
-----------------------------------------------------------------------------
(* Names, and what load() sets for them: the type that decides how the     *)
(* file is looked for and read, and the file it names, by its extension;   *)
(* "none" where there is none.                                             *)

Named(type, ext, filled) == [type |-> type, ext |-> ext, filled |-> filled]

AwiDems ==
    [awi_ant_1km |-> Named("tif", "tif", "tif"),
     awi_ant_1km_grounded |-> Named("npz", "npz", "npz"),
     awi_ant_1km_floating |-> Named("npz", "npz", "npz"),
     awi_grn_1km |-> Named("tif", "tif", "tif"),
     arcticdem_1km |-> Named("tif", "tif", "none"),
     arcticdem_1km_zarr |-> Named("zarr", "zarr", "none"),
     arcticdem_1km_v4_1 |-> Named("tif", "tif", "tif")]

(* Mutant for LoadSucceeds: zarr_type is not set.                          *)
RemaDemsAsTif ==
    [rema_ant_1km |-> Named("tif", "tif", "tif"),
     rema_ant_1km_zarr |-> Named("tif", "zarr", "zarr")]

RemaDems ==
    [rema_ant_1km |-> Named("tif", "tif", "tif"),
     rema_ant_1km_zarr |-> Named("zarr", "zarr", "zarr"),
     rema_ant_1km_v2 |-> Named("tif", "tif", "tif"),
     rema_ant_1km_v2_zarr |-> Named("zarr", "zarr", "zarr"),
     rema_ant_200m |-> Named("tif", "tif", "tif"),
     rema_ant_200m_zarr |-> Named("zarr", "zarr", "zarr")]

GaplessDems ==
    [rema_gapless_100m |-> Named("tif", "tif", "tif"),
     rema_gapless_100m_zarr |-> Named("zarr", "zarr", "zarr"),
     rema_gapless_1km |-> Named("tif", "tif", "tif"),
     rema_gapless_1km_zarr |-> Named("zarr", "zarr", "zarr")]

GreenlandDems ==
    [arcticdem_100m_greenland |-> Named("tif", "tif", "none"),
     arcticdem_1km_greenland_v4_1 |-> Named("tif", "tif", "none"),
     arcticdem_1km_greenland_v4_1_zarr |-> Named("zarr", "zarr", "none"),
     arcticdem_100m_greenland_v4_1 |-> Named("tif", "tif", "none"),
     arcticdem_100m_greenland_v4_1_zarr |-> Named("zarr", "zarr", "none")]

SlopeNames ==
    [rema_100m_900ws_slopes_zarr |-> Named("zarr", "zarr", "zarr"),
     arcticdem_100m_900ws_slopes_zarr |-> Named("zarr", "zarr", "zarr"),
     cpom_ant_2018_1km_slopes |-> Named("tif", "tif", "tif"),
     awi_grn_2013_1km_slopes |-> Named("nc", "nc", "nc")]

RoughnessNames ==
    [rema_100m_900ws_roughness_zarr |-> Named("zarr", "zarr", "zarr"),
     arcticdem_100m_900ws_roughness_zarr |-> Named("zarr", "zarr", "zarr")]

DhdtNames ==
    [grn_is2_is1_smith |-> Named("tif", "tif", "none"),
     ais_is2_is1_smith |-> Named("tif", "tif", "none"),
     grn_2010_2021 |-> Named("nc", "nc", "none")]

(* Masks, with what is done to the rows of the file.                       *)
BedMachineMasks ==
    [antarctica_bedmachine_v2_grid_mask |-> Named("flip", "nc", "nc"),
     greenland_bedmachine_v3_grid_mask |-> Named("flip", "nc", "nc")]

DilatedMasks ==
    [antarctica_iceandland_dilated_10km_grid_mask |-> Named("asis", "nc", "nc"),
     greenland_iceandland_dilated_10km_grid_mask |-> Named("transpose", "nc", "nc")]

BasinMasks ==
    [antarctic_grounded_and_floating_2km_grid_mask |-> Named("asis", "nc", "nc"),
     greenland_icesheet_2km_grid_mask |-> Named("asis", "nc", "nc"),
     antarctic_icesheet_2km_grid_mask_rignot2016 |-> Named("asis", "nc", "nc")]

LateBasinMasks ==
    [greenland_icesheet_2km_grid_mask_rignot2016 |-> Named("asis", "nc", "nc"),
     greenland_icesheet_2km_grid_mask_mouginot2019 |-> Named("asis", "nc", "nc")]

Entries(t) == {t[n] : n \in DOMAIN t}

Catalogue ==
    [dem |-> Entries(AwiDems) \cup Entries(RemaDems) \cup Entries(GaplessDems)
               \cup Entries(GreenlandDems),
     slopes |-> Entries(SlopeNames),
     roughness |-> Entries(RoughnessNames),
     dhdt |-> Entries(DhdtNames),
     mask |-> Entries(BedMachineMasks) \cup Entries(DilatedMasks)
                \cup Entries(BasinMasks) \cup Entries(LateBasinMasks)]

(* get_filename(): the name of the file, and the directory it is looked    *)
(* for in: the one of the configuration, else the argument, else default.  *)
FileName(e, filled) == IF filled /\ e.filled # "none" THEN e.filled ELSE e.ext

Directory(given) ==
    CASE "config" \in given -> "config"
      [] given = {"argument"} -> "argument"
      [] OTHER -> "default"

(* The files of the masks and of grn_2010_2021 have no void values; the    *)
(* size of a dh/dt matters to the filter of the GeoTIFFs, the shape of the *)
(* cells where it is tested.                                               *)
Flat == [c \in Cells |-> 0]

Setups ==
    {s \in UNION {{[class |-> c, type |-> e.type, ext |-> FileName(e, f), voids |-> v,
                    there |-> Directory(d.given) \in d.have, rate |-> m, square |-> q] :
                      e \in Catalogue[c], f \in BOOLEAN, d \in Directories, v \in Voids,
                      m \in Rates \cup {Flat}, q \in BOOLEAN} :
                    c \in DOMAIN Catalogue} :
       /\ s.class = "mask" \/ (s.class = "dhdt" /\ s.type = "nc") => s.voids = {}
       /\ s.class # "dhdt" \/ s.type # "tif" => s.rate = Flat
       /\ s.type \notin {"tif", "zarr"} => s.square}

VARIABLES
    cfg,    \* the class and the file of the grid, one of Setups
    zarr,   \* the .zarr store
    flip,   \* the _flipped.zarr store
    conv,   \* the converter: control point, window, chunk sizes, starts
    torn,   \* history: a removal has begun and the store is not rebuilt
    obj,    \* the grid object
    ans     \* the last answer of the object

vars == <<cfg, zarr, flip, conv, torn, obj, ans>>

(* A store: whether its .zarray and the attributes with the extent are     *)
(* there, and what its cells read as.                                      *)
Blank == [r \in Rows |-> [c \in Cols |-> Fill]]
NoStore == [array |-> FALSE, attrs |-> FALSE, z |-> Blank]

Unloaded == [status |-> "new", y |-> <<>>, z |-> <<>>, torn |-> FALSE, stale |-> FALSE]
NoAnswer == [op |-> "none"]
Raised == [op |-> "raised"]
IdleConv == [pc |-> "idle", i |-> 0, j |-> 0, h |-> 0, w |-> 0, starts |-> 0]

Init ==
    /\ cfg \in Setups
    /\ zarr = NoStore /\ flip = NoStore
    /\ conv = IdleConv /\ torn = FALSE
    /\ obj = Unloaded
    /\ ans = NoAnswer
-----------------------------------------------------------------------------
(* The files.                                                              *)

Datum(p) == IF p \in cfg.voids THEN Void ELSE p
TopFirst == [r \in Rows |-> [c \in Cols |-> Datum(<<NR - 1 - r, c>>)]]
BottomFirst == Flip(TopFirst, NR)

(* Void values become NaN; np.any() over the indices is false when the     *)
(* only void value is the one at [0][0].                                   *)
NaNIn(z) == [r \in Rows |-> [c \in Cols |-> IF z[r][c] = Void THEN NaN ELSE z[r][c]]]

VoidToNaN(z) ==
    IF \E i \in Cells : i # <<0, 0>> /\ z[i[1]][i[2]] = Void THEN NaNIn(z) ELSE z

(* np.linspace() from one end to the other, turned by np.flip().           *)
Down == [r \in Rows |-> 2 * (NR - 1 - r)]
Up == [r \in Rows |-> 2 * r]
XAxis == [c \in Cols |-> 2 * c]

(* The centre of cell n on the ground, times m, for an axis of m nodes.    *)
(* For GeoTIFFs, and what is made of them, linspace() sets the m nodes     *)
(* between the OUTER edges of the m cells: a cell is 2 * (m - 1) / m wide  *)
(* and its centre is not at its node.  The other files are given with the  *)
(* first and the last node.                                                *)
Spanned == cfg.ext \in {"tif", "zarr", "npz"}
Centre(n, m) == IF Spanned THEN (2 * n + 1) * (m - 1) ELSE 2 * n * m
-----------------------------------------------------------------------------
(* geotiff_to_zarr.py.                                                     *)

(* main() removes the old stores, .zarr first; rmtree() deletes the files  *)
(* in no particular order, so that a removal that is interrupted leaves    *)
(* some of them; the chunks of one row count as one file.                  *)
ConvStart ==
    /\ cfg.ext = "zarr" /\ cfg.there
    /\ conv.pc = "idle" /\ conv.starts < MaxConversions
    /\ \E width \in ChunkWidths :
         conv' = [pc |-> "rmzarr", i |-> 0, j |-> 0, h |-> NC \div width,
                  w |-> NR \div width, starts |-> conv.starts + 1]
    /\ ans' = NoAnswer
    /\ UNCHANGED <<cfg, zarr, flip, torn, obj>>

Files == {<<"array">>, <<"attrs">>} \cup {<<"row", r>> : r \in Rows}

Without(store, gone) ==
    [array |-> store.array /\ <<"array">> \notin gone,
     attrs |-> store.attrs /\ <<"attrs">> \notin gone,
     z |-> [r \in Rows |-> IF <<"row", r>> \in gone THEN Blank[r] ELSE store.z[r]]]

Touched == [obj EXCEPT !.stale = (obj.status = "ok")]

RemoveSome ==
    /\ conv.pc \in {"rmzarr", "rmflip"}
    /\ \E n \in 1..MaxGone : \E gone \in kSubset(n, Files) :
         /\ zarr' = IF conv.pc = "rmzarr" THEN Without(zarr, gone) ELSE zarr
         /\ flip' = IF conv.pc = "rmflip" THEN Without(flip, gone) ELSE flip
    /\ (IF conv.pc = "rmzarr" THEN zarr ELSE flip) # NoStore
    /\ torn' = TRUE
    /\ obj' = Touched
    /\ conv' = [conv EXCEPT !.pc = IF @ = "rmzarr" THEN "rmzarr2" ELSE "rmflip2"]
    /\ ans' = NoAnswer
    /\ UNCHANGED cfg

RemoveRest ==
    /\ conv.pc \in {"rmzarr", "rmzarr2", "rmflip", "rmflip2"}
    /\ IF conv.pc \in {"rmzarr", "rmzarr2"}
       THEN /\ zarr' = NoStore /\ conv' = [conv EXCEPT !.pc = "rmflip"]
            /\ UNCHANGED flip
       ELSE /\ flip' = NoStore /\ conv' = [conv EXCEPT !.pc = "open"]
            /\ UNCHANGED zarr
    /\ obj' = Touched
    /\ ans' = NoAnswer
    /\ UNCHANGED <<cfg, torn>>

(* Mutant for LoadedComplete: the extent is saved with the new arrays.     *)
OpenArraysWithExtent ==
    /\ conv.pc = "open" /\ cfg.square
    /\ zarr' = [NoStore EXCEPT !.array = TRUE, !.attrs = TRUE]
    /\ flip' = [NoStore EXCEPT !.array = TRUE, !.attrs = TRUE]
    /\ torn' = FALSE
    /\ conv' = [conv EXCEPT !.pc = IF conv.h = 0 \/ conv.w = 0 THEN "idle" ELSE "write"]
    /\ ans' = NoAnswer
    /\ UNCHANGED <<cfg, obj>>

(* get_geotiff_extent() raises when the cells are not square to the metre. *)
ExtentRejected ==
    /\ conv.pc = "open" /\ ~cfg.square
    /\ conv' = [conv EXCEPT !.pc = "idle"]
    /\ ans' = NoAnswer
    /\ UNCHANGED <<cfg, zarr, flip, torn, obj>>

(* Both arrays are created; a chunk size of zero ends the conversion.      *)
OpenArrays ==
    /\ conv.pc = "open" /\ cfg.square
    /\ zarr' = [NoStore EXCEPT !.array = TRUE]
    /\ flip' = [NoStore EXCEPT !.array = TRUE]
    /\ torn' = FALSE
    /\ conv' = [conv EXCEPT !.pc = IF conv.h = 0 \/ conv.w = 0 THEN "idle" ELSE "write"]
    /\ ans' = NoAnswer
    /\ UNCHANGED <<cfg, obj>>

Within(lo, n, last) == {k \in lo..lo + n - 1 : k <= last}

(* Row r of the flipped store comes from row NR - 1 - r of the file.       *)
FlippedWindow(i, rows) ==
    [r \in NR - i - Cardinality(rows)..NR - i - 1 |-> NR - 1 - r]

LastWindow == conv.i + conv.h > NR - 1 /\ conv.j + conv.w > NC - 1

WriteWindow ==
    /\ conv.pc = "write"
    /\ LET rows == Within(conv.i, conv.h, NR - 1)
           cols == Within(conv.j, conv.w, NC - 1)
           data == NaNIn(TopFirst)
           from == FlippedWindow(conv.i, rows)
       IN /\ zarr' = [zarr EXCEPT !.z =
                [r \in Rows |-> [c \in Cols |->
                    IF r \in rows /\ c \in cols THEN data[r][c] ELSE zarr.z[r][c]]]]
          /\ flip' = [flip EXCEPT !.z =
                [r \in Rows |-> [c \in Cols |->
                    IF r \in DOMAIN from /\ c \in cols THEN data[from[r]][c]
                    ELSE flip.z[r][c]]]]
    /\ conv' = CASE LastWindow -> [conv EXCEPT !.pc = "attrs"]
                 [] ~LastWindow /\ conv.j + conv.w <= NC - 1 -> [conv EXCEPT !.j = @ + conv.w]
                 [] OTHER -> [conv EXCEPT !.j = 0, !.i = @ + conv.h]
    /\ ans' = NoAnswer
    /\ UNCHANGED <<cfg, torn, obj>>

SaveMetadata ==
    /\ conv.pc = "attrs"
    /\ zarr' = [zarr EXCEPT !.attrs = TRUE]
    /\ flip' = [flip EXCEPT !.attrs = TRUE]
    /\ conv' = [conv EXCEPT !.pc = "idle"]
    /\ ans' = NoAnswer
    /\ UNCHANGED <<cfg, torn, obj>>

(* The converter is killed.                                                *)
Kill ==
    /\ conv.pc # "idle"
    /\ conv' = [conv EXCEPT !.pc = "idle"]
    /\ ans' = NoAnswer
    /\ UNCHANGED <<cfg, zarr, flip, torn, obj>>
-----------------------------------------------------------------------------
(* Loading.                                                                *)

ZarrType == cfg.type = "zarr"

(* get_filename(): a Zarr file must be a directory, the others files.      *)
Found ==
    /\ cfg.there
    /\ ZarrType <=> cfg.ext = "zarr"
    /\ ZarrType => zarr # NoStore

(* load_zarr(): both stores must open, and the extent must be there.       *)
LoadZarr(unopened) ==
    CASE ~zarr.array -> unopened
      [] zarr.array /\ ~zarr.attrs -> "raised"
      [] zarr.attrs /\ zarr.array /\ ~flip.array -> unopened
      [] OTHER -> "ok"

(* The y axis and the array, in the order in which a loader leaves them;   *)
(* the arrays of Zarr files stay in their stores.                          *)
Lazy == [y |-> Down, z |-> <<>>]
Tif == [y |-> Down, z |-> VoidToNaN(TopFirst)]
Npz == [y |-> Down, z |-> NaNIn(TopFirst)]

DemArray ==
    CASE cfg.type = "npz" -> Npz [] cfg.type = "zarr" -> Lazy [] OTHER -> Tif

SlopesArray ==
    CASE cfg.type = "nc" -> [y |-> Up, z |-> VoidToNaN(BottomFirst)]
      [] cfg.type = "zarr" -> Lazy
      [] OTHER -> Tif

RoughnessArray == IF cfg.type = "zarr" THEN Lazy ELSE Tif

(* abs_filter = 10: larger values become NaN, a void value too; the test   *)
(* by np.any() is that of VoidToNaN.                                       *)
RateOf(v) == IF v = Void THEN -9999 ELSE cfg.rate[v]
Beyond(v) == v # NaN /\ (RateOf(v) > 10 \/ RateOf(v) < -10)

AbsFilter(z) ==
    IF \E i \in Cells : i # <<0, 0>> /\ Beyond(z[i[1]][i[2]])
      THEN [r \in Rows |-> [c \in Cols |-> IF Beyond(z[r][c]) THEN NaN ELSE z[r][c]]]
      ELSE z

(* scipy.ndimage.median_filter() of width 3, the edges reflected: the      *)
(* fifth of nine.  No order is defined among values with a NaN: where that *)
(* leaves none in the middle, the result is some one of them.              *)
Reflect(k, n) == IF k < 0 THEN 0 ELSE IF k > n - 1 THEN n - 1 ELSE k
Offsets == (-1..1) \X (-1..1)

MedianAt(z, r, c) ==
    LET near(d) == z[Reflect(r + d[1], NR)][Reflect(c + d[2], NC)]
        less(a, b) == a # NaN /\ b # NaN /\ RateOf(a) < RateOf(b)
        middle(v) == /\ Cardinality({d \in Offsets : less(near(d), v)}) <= 4
                     /\ Cardinality({d \in Offsets : less(v, near(d))}) <= 4
        window == {near(d) : d \in Offsets}
    IN  CHOOSE v \in window : middle(v) \/ \A w \in window : ~middle(w)

MedianFilter(z) == [r \in Rows |-> [c \in Cols |-> MedianAt(z, r, c)]]

(* GeoTIFFs are loaded with flip_y = False.                                *)
DhdtArray ==
    IF cfg.type = "nc" THEN [y |-> Down, z |-> BottomFirst]
    ELSE [y |-> Up, z |-> MedianFilter(AbsFilter(VoidToNaN(TopFirst)))]

LoadMask ==
    LET file == CASE cfg.type = "flip" -> TopFirst
                  [] cfg.type = "asis" -> BottomFirst
                  [] OTHER -> [c \in Cols |-> [r \in Rows |-> BottomFirst[r][c]]]
    IN CASE cfg.type = "flip" -> Flip(file, NR)       \* np.flipud
         [] cfg.type = "asis" -> file
         [] OTHER -> [r \in Rows |-> [c \in Cols |-> file[c][r]]]

LoadAs(array, missing, unopened) ==
    /\ obj.status = "new"
    /\ LET status == CASE ~Found -> missing
                       [] Found /\ ZarrType -> LoadZarr(unopened)
                       [] Found /\ cfg.type = "tif" /\ ~cfg.square -> "raised"
                       [] OTHER -> "ok"
       IN obj' = IF status = "ok"
                 THEN [status |-> "ok", y |-> array.y, z |-> array.z,
                       torn |-> torn, stale |-> FALSE]
                 ELSE [Unloaded EXCEPT !.status = status]
    /\ UNCHANGED <<cfg, zarr, flip, conv, torn, ans>>

(* Dem and Slopes log an error and go on without data when there is no     *)
(* file, the others raise; Roughness goes on without data when a store     *)
(* does not open.                                                          *)
DemLoad == cfg.class = "dem" /\ LoadAs(DemArray, "empty", "raised")
SlopesLoad == cfg.class = "slopes" /\ LoadAs(SlopesArray, "empty", "raised")
RoughnessLoad == cfg.class = "roughness" /\ LoadAs(RoughnessArray, "raised", "empty")
DhdtLoad == cfg.class = "dhdt" /\ LoadAs(DhdtArray, "raised", "raised")
MaskLoad == cfg.class = "mask" /\ LoadAs([y |-> Up, z |-> LoadMask], "raised", "raised")

(* clean_up() of a private grid forgets the stores.                        *)
CleanUp ==
    /\ obj.status = "ok" /\ ZarrType
    /\ obj' = [Unloaded EXCEPT !.status = "closed"]
    /\ ans' = NoAnswer
    /\ UNCHANGED <<cfg, zarr, flip, conv, torn>>

DemCleanUp == cfg.class = "dem" /\ CleanUp
SlopesCleanUp == cfg.class = "slopes" /\ CleanUp
RoughnessCleanUp == cfg.class = "roughness" /\ CleanUp
-----------------------------------------------------------------------------
(* scipy's interpolation on axes of any direction.                         *)

Coords(axis) == {axis[k] : k \in DOMAIN axis}
At(axis, a) == CHOOSE k \in DOMAIN axis : axis[k] = a
Outside(axis, v) == v < Min(Coords(axis)) \/ v > Max(Coords(axis))

(* The interval of the axis that v is in, the last one at the upper end.   *)
Interval(axis, v) ==
    LET lower == {a \in Coords(axis) : a <= v /\ \E b \in Coords(axis) : b > a}
        lo == IF lower = {} THEN Min(Coords(axis)) ELSE Max(lower)
        upper == {b \in Coords(axis) : b > lo}
    IN {lo} \cup (IF upper = {} THEN {} ELSE {Min(upper)})

Near(axis, v) ==
    Min({a \in Coords(axis) : \A b \in Coords(axis) : (a - v) * (a - v) <= (b - v) * (b - v)})

Linear(ys, xs, z, p) ==
    LET corners == Interval(ys, p[1]) \X Interval(xs, p[2])
        value(c) == z[At(ys, c[1])][At(xs, c[2])]
        weighs(c) == c[1] - p[1] \in -1..1 /\ c[2] - p[2] \in -1..1
    IN IF p = NaNPoint \/ Outside(ys, p[1]) \/ Outside(xs, p[2])
          \/ \E c \in corners : value(c) = NaN
       THEN {NaN}
       ELSE {value(c) : c \in {d \in corners : weighs(d)}}

Nearest(ys, xs, z, p) ==
    IF p = NaNPoint \/ Outside(ys, p[1]) \/ Outside(xs, p[2]) THEN {NaN}
    ELSE {z[At(ys, Near(ys, p[1]))][At(xs, Near(xs, p[2]))]}

(* chunked_interpolation(): the part of the store around the points.       *)
SearchSorted(axis, v) == Cardinality({k \in DOMAIN axis : axis[k] < v})

(* Mutant for ValuesExact: the part is not widened downwards.              *)
ChunkTight(axis, vs, n) ==
    Min({SearchSorted(axis, Min(vs)), n - 1})
        ..Min({SearchSorted(axis, Max(vs)) + 1, n - 1})

Chunk(axis, vs, n) ==
    Max({SearchSorted(axis, Min(vs)) - 1, 0})
        ..Min({SearchSorted(axis, Max(vs)) + 1, n - 1})

Part(f, s) == [k \in s |-> f[k]]

ChunkedInterpolation(q) ==
    LET valid == q \ {NaNPoint}
        ys == Chunk(Up, {p[1] : p \in valid}, NR)
        xs == Chunk(XAxis, {p[2] : p \in valid}, NC)
    IN [p \in q |-> IF p = NaNPoint THEN {NaN}
                    ELSE Linear(Part(Up, ys), Part(XAxis, xs), Part(flip.z, ys), p)]

Interp(q) ==
    IF ZarrType THEN ChunkedInterpolation(q)
    ELSE [p \in q |-> Linear(Flip(obj.y, NR), XAxis, Flip(obj.z, NR), p)]

(* One question between two other steps: an answer does not depend on the  *)
(* one before.  An object without data raises, unless chunked              *)
(* interpolation finds no valid point.                                     *)
Ask(q, answer(_)) ==
    /\ obj.status \in {"ok", "empty", "closed"} /\ ans = NoAnswer
    /\ ans' = IF obj.status = "ok" \/ (ZarrType /\ q = {NaNPoint})
              THEN [op |-> "interp", at |-> q, val |-> answer(q)]
              ELSE Raised
    /\ UNCHANGED <<cfg, zarr, flip, conv, torn, obj>>

(* interp_dem(), interp_slopes() and interp_roughness() turn the axis and  *)
(* the rows round, interp_dhdt() only the rows.                            *)
InterpDem(q) == cfg.class = "dem" /\ Ask(q, Interp)
InterpSlopes(q) == cfg.class = "slopes" /\ Ask(q, Interp)
InterpRoughness(q) == cfg.class = "roughness" /\ Ask(q, Interp)

InterpDhdt(q) ==
    /\ cfg.class = "dhdt"
    /\ Ask(q, LAMBDA qq : [p \in qq |-> Nearest(obj.y, XAxis, Flip(obj.z, NR), p)])

(* get_segment(): from the index nearest to each bound, the first of equal *)
(* ones, to the one before the other bound.                                *)
ArgMin(axis, v) ==
    Min({k \in DOMAIN axis : \A l \in DOMAIN axis :
            (axis[k] - v) * (axis[k] - v) <= (axis[l] - v) * (axis[l] - v)})

(* Mutant for SegmentSound: rows in the order of an ascending axis.        *)
SegmentRowsUp(b) == ArgMin(obj.y, b[1])..ArgMin(obj.y, b[2]) - 1

SegmentRows(b) == ArgMin(obj.y, b[2])..ArgMin(obj.y, b[1]) - 1
SegmentCols(b) == ArgMin(XAxis, b[3])..ArgMin(XAxis, b[4]) - 1

GetSegment(b) ==
    /\ obj.status \in {"ok", "empty", "closed"} /\ ans = NoAnswer
    /\ LET z == IF ZarrType THEN zarr.z ELSE obj.z
       IN ans' = IF obj.status # "ok" THEN Raised
                 ELSE [op |-> "segment", at |-> b,
                       val |-> {<<IF z[i[1]][i[2]] = NaN THEN NaNPoint
                                  ELSE <<obj.y[i[1]], XAxis[i[2]]>>, z[i[1]][i[2]]>> :
                                  i \in SegmentRows(b) \X SegmentCols(b)}]
    /\ UNCHANGED <<cfg, zarr, flip, conv, torn, obj>>

DemSegment(b) == cfg.class = "dem" /\ GetSegment(b)
SlopesSegment(b) == cfg.class = "slopes" /\ GetSegment(b)
RoughnessSegment(b) == cfg.class = "roughness" /\ GetSegment(b)
-----------------------------------------------------------------------------
(* Masks.  np.around() rounds halves to the even index.                    *)

Around(v) == IF v % 2 = 0 THEN v \div 2
             ELSE IF ((v - 1) \div 2) % 2 = 0 THEN (v - 1) \div 2 ELSE (v + 1) \div 2

InGrid(p) == Around(p[1]) \in Rows /\ Around(p[2]) \in Cols
MaskCell(p) == obj.z[Around(p[1])][Around(p[2])]

(* grid_mask_values(); points_inside() raises for a point that is NaN.     *)
MaskValues(q) ==
    /\ obj.status = "ok" /\ cfg.class = "mask" /\ ans = NoAnswer
    /\ ans' = [op |-> "mask", at |-> q,
               val |-> [p \in q |-> IF p # NaNPoint /\ InGrid(p) THEN MaskCell(p)
                                    ELSE Unknown]]
    /\ UNCHANGED <<cfg, zarr, flip, conv, torn, obj>>

(* What n_inside counts: each point with each place in the list of a basin *)
(* number it matches; with no list, each point of a surface that is not 0. *)
Counted(q, basins) ==
    {m \in q \X (0..Len(basins)) :
       /\ InGrid(m[1])
       /\ IF basins = <<>> THEN Surface[MaskCell(m[1])] > 0
          ELSE m[2] \in DOMAIN basins /\ basins[m[2]] = Surface[MaskCell(m[1])]}

PointsInside(q, basins) ==
    /\ obj.status = "ok" /\ cfg.class = "mask" /\ ans = NoAnswer
    /\ ans' = IF NaNPoint \in q THEN Raised
              ELSE [op |-> "inside", at |-> q, basins |-> basins,
                    val |-> {m[1] : m \in Counted(q, basins)},
                    n |-> Cardinality(Counted(q, basins))]
    /\ UNCHANGED <<cfg, zarr, flip, conv, torn, obj>>
-----------------------------------------------------------------------------
Next ==
    \/ ConvStart \/ RemoveSome \/ RemoveRest \/ ExtentRejected \/ OpenArrays
    \/ WriteWindow \/ SaveMetadata \/ Kill
    \/ DemLoad \/ SlopesLoad \/ RoughnessLoad \/ DhdtLoad \/ MaskLoad
    \/ DemCleanUp \/ SlopesCleanUp \/ RoughnessCleanUp
    \/ \E q \in Queries : InterpDem(q) \/ InterpSlopes(q) \/ InterpRoughness(q) \/ InterpDhdt(q)
    \/ \E b \in Bounds : DemSegment(b) \/ SlopesSegment(b) \/ RoughnessSegment(b)
    \/ \E q \in Queries : MaskValues(q)
    \/ \E q \in Queries, basins \in Basins : PointsInside(q, basins)

Spec == Init /\ [][Next]_vars
-----------------------------------------------------------------------------
StoreOK(s) == DOMAIN s = {"array", "attrs", "z"} /\ s.z \in [Rows -> [Cols -> Values]]

(* Types of all variables; the converter stays within the grid.            *)
TypeOK ==
    /\ cfg \in Setups
    /\ StoreOK(zarr) /\ StoreOK(flip)
    /\ conv.pc \in {"idle", "rmzarr", "rmzarr2", "rmflip", "rmflip2", "open", "write", "attrs"}
    /\ conv.i \in Rows /\ conv.j \in Cols /\ conv.starts \in 0..MaxConversions
    /\ torn \in BOOLEAN
    /\ obj.status \in {"new", "ok", "empty", "closed", "raised"}
    /\ ans.op \in {"none", "raised", "interp", "segment", "mask", "inside"}

(* The object was loaded from stores that no interrupted removal has left, *)
(* and no conversion has touched them since.                               *)
Sound == obj.status = "ok" /\ ~obj.torn /\ ~obj.stale

Close(v, n, d) == 2 * n - v \in -d..d
Around4(p, d) == {c \in Cells : Close(p[1], c[1], d) /\ Close(p[2], c[2], d)}
OnGround(p) == p[1] \in 0..2 * (NR - 1) /\ p[2] \in 0..2 * (NC - 1)

(* The centre of cell n is less than d half nodes from v, on the ground.   *)
Nearby(v, n, m, d) == m * v - Centre(n, m) \in 1 - d * m..d * m - 1
OnGroundNear(p, c, d) == Nearby(p[1], c[1], NR, d) /\ Nearby(p[2], c[2], NC, d)

(* The filter takes in the neighbours of a dh/dt.                          *)
Reach == IF cfg.class = "dhdt" /\ cfg.type = "tif" THEN 3 ELSE 1
Steep == {c \in Cells : Beyond(c)}

(* Whatever the format, the order of its rows, the direction of the axes,  *)
(* the part of the store that is read and the other points of the          *)
(* question, a value is made of the cells whose nodes are around its own   *)
(* point, all of them (for dh/dt one of them, or of their neighbours where *)
(* it is filtered), and their centres on the ground are less than half the *)
(* distance of two nodes further away than the nodes; it is NaN outside    *)
(* the grid, and inside only next to a void, or to a dh/dt that was too    *)
(* large (interp_dem(), interp_slopes(), interp_roughness(),               *)
(* interp_dhdt(), chunked_interpolation()).                                *)
InterpExact ==
    ans.op = "interp" /\ Sound =>
      \A p \in ans.at :
        LET around == {Datum(c) : c \in Around4(p, Reach)}
        IN IF ~OnGround(p) THEN ans.val[p] = {NaN}
           ELSE /\ \/ /\ ans.val[p] = {NaN}
                      /\ Around4(p, Reach + 1) \cap (cfg.voids \cup Steep) # {}
                   \/ cfg.class = "dhdt" /\ \E v \in around : ans.val[p] = {v}
                   \/ cfg.class # "dhdt" /\ ans.val[p] = around
                /\ \A c \in ans.val[p] \cap Cells : OnGroundNear(p, c, Reach + 1)

(* A void value, or the zero of a chunk that is not there, gets into an    *)
(* answer only when it is the first of its array and there is no other:    *)
(* the test of load_geotiff() and load_nc() does not see that one.         *)
VoidsRemoved ==
    Sound /\ ans.op \in {"interp", "segment"} =>
      LET used == IF ans.op = "interp" THEN UNION {ans.val[p] : p \in ans.at}
                  ELSE {e[2] : e \in ans.val}
      IN /\ Fill \notin used
         /\ Void \in used => /\ cfg.voids \in {{<<0, 0>>}, {<<NR - 1, 0>>}}
                             /\ cfg.class = "dhdt" \/ obj.z[0][0] = Void

(* A Zarr grid that could be loaded is complete, whenever the converter    *)
(* was killed (its windows come before the attributes that load_zarr()     *)
(* needs), unless a removal was interrupted.                               *)
LoadedComplete ==
    Sound /\ ZarrType =>
      /\ zarr.z = NaNIn(TopFirst)
      /\ flip.z = NaNIn(BottomFirst)

(* A file that is where it is looked for, whose cells are square and whose *)
(* conversion is over, is loaded: the flags that load() sets for a name    *)
(* fit the file it names, filled or not.                                   *)
LoadSucceeds ==
    [][obj.status = "new" /\ obj'.status # "new" /\ cfg.there
       /\ cfg.square /\ (cfg.ext = "zarr" => zarr.array /\ zarr.attrs /\ flip.array)
         => obj'.status = "ok"]_vars

(* get_segment() of a grid whose rows descend gives each value with the    *)
(* coordinates of its node, at most half a cell from its centre on the     *)
(* ground, nothing from further than half a node outside the bounds, and   *)
(* every value of the inner cells within them, up to one cell at the lower *)
(* and the right side.                                                     *)
SegmentSound ==
    ans.op = "segment" /\ Sound /\ cfg.type # "nc" =>
      LET b == ans.at
          within == {c \in Cells : /\ c[1] > 0 /\ c[2] < NC - 1
                                   /\ 2 * c[1] >= b[1] + 2 /\ 2 * c[1] <= b[2]
                                   /\ 2 * c[2] >= b[3] /\ 2 * c[2] <= b[4] - 2}
      IN /\ \A e \in ans.val : e[2] \in Cells =>
              /\ e[1] = <<2 * e[2][1], 2 * e[2][2]>> /\ OnGroundNear(e[1], e[2], 1)
              /\ e[1][1] > b[1] - 1 /\ e[1][1] <= b[2] + 1
              /\ e[1][2] >= b[3] - 1 /\ e[1][2] < b[4] + 1
         /\ \A c \in within \ cfg.voids : <<<<2 * c[1], 2 * c[2]>>, c>> \in ans.val

(* A point has the surface type of the cell it is in, whatever the order   *)
(* of the mask's file, at most half a cell away, and is unknown only       *)
(* outside the mask (grid_mask_values()).                                  *)
MaskExact ==
    ans.op = "mask" =>
      \A p \in ans.at :
        /\ ans.val[p] # Unknown => ans.val[p] \in Around4(p, 1)
        /\ ans.val[p] = Unknown => ~OnGround(p)

(* points_inside(): a point on a node is inside iff it is on the grid and  *)
(* its surface type is asked for, any but 0 when none is; the number       *)
(* returned is that of the points, unless a basin number is given twice.   *)
InsideCounted ==
    ans.op = "inside" =>
      /\ \A p \in ans.at : p[1] % 2 = 0 /\ p[2] % 2 = 0 =>
           (p \in ans.val <=>
              \E c \in Around4(p, 0) :
                IF ans.basins = <<>> THEN Surface[c] > 0
                ELSE Surface[c] \in {ans.basins[k] : k \in DOMAIN ans.basins})
      /\ \/ ans.n = Cardinality(ans.val)
         \/ \E k, l \in DOMAIN ans.basins : k # l /\ ans.basins[k] = ans.basins[l]

(* Every question about a place is answered with what is at that place.    *)
ValuesExact ==
    /\ TypeOK
    /\ InterpExact
    /\ VoidsRemoved
    /\ MaskExact
    /\ InsideCounted
============================================================================
