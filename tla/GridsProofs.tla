---------------------------- MODULE GridsProofs ----------------------------
(***************************************************************************)
(* Proofs about Grids, for grids of any size, any voids, chunk widths and  *)
(* bounds, and any number of conversions: a Zarr file that loads is        *)
(* complete, whenever the converter was killed; the flags of every name    *)
(* fit its file; a segment has the right cells with the coordinates of     *)
(* their nodes; every point is answered with what is around its place.     *)
(*                                                                         *)
(* A store is complete when its attributes are there, because the windows  *)
(* come first: CInv says which cells are written at each step of the       *)
(* converter, and that an object that is sound has a store with attributes.*)
(***************************************************************************)
EXTENDS Grids, FiniteSetTheorems, WellFoundedInduction, TLAPS

Arrays == [Rows -> [Cols -> Values]]
Stores == [array : BOOLEAN, attrs : BOOLEAN, z : Arrays]
ConvPoints == {"idle", "rmzarr", "rmzarr2", "rmflip", "rmflip2", "open", "write", "attrs"}
Convs == [pc : ConvPoints, i : Rows, j : Cols, h : Nat, w : Nat, starts : 0..MaxConversions]
ObjFields == {"status", "y", "z", "torn", "stale"}
Statuses == {"new", "ok", "empty", "closed", "raised"}

Types ==
    /\ cfg \in Setups /\ zarr \in Stores /\ flip \in Stores /\ conv \in Convs
    /\ torn \in BOOLEAN
    /\ obj = [f \in ObjFields |-> obj[f]] /\ obj.status \in Statuses
    /\ obj.torn \in BOOLEAN /\ obj.stale \in BOOLEAN
    /\ obj.status = "new" => ans.op = "none"

Full == zarr.z = NaNIn(TopFirst) /\ flip.z = NaNIn(BottomFirst)

(* The cell of row r of the file and column c is in both stores.           *)
Copied(r, c) ==
    /\ zarr.z[r][c] = NaNIn(TopFirst)[r][c]
    /\ flip.z[NR - 1 - r][c] = NaNIn(TopFirst)[r][c]

(* What the stores hold at each step of the converter.                     *)
Progress ==
    /\ conv.pc \notin {"idle", "write", "attrs"} => conv.i = 0 /\ conv.j = 0
    /\ conv.pc \in {"rmflip", "rmflip2", "open"} => zarr = NoStore
    /\ conv.pc = "open" => flip = NoStore
    /\ conv.pc \in {"write", "attrs"} => zarr.attrs = FALSE /\ torn = FALSE
    /\ conv.pc = "write" =>
         /\ conv.h > 0 /\ conv.w > 0
         /\ \A r \in Rows, c \in Cols :
              r < conv.i \/ (r < conv.i + conv.h /\ c < conv.j) => Copied(r, c)
    /\ conv.pc = "attrs" => Full
    /\ zarr.attrs = TRUE /\ torn = FALSE => Full

Open == Sound /\ ZarrType => zarr.attrs = TRUE /\ Full

CInv == Types /\ Progress /\ Open
-----------------------------------------------------------------------------
(* The data.                                                               *)

LEMMA RowFacts ==
    /\ NR \in Nat /\ NC \in Nat /\ NR > 1 /\ NC > 1
    /\ 0 \in Rows /\ 0 \in Cols
    /\ \A r \in Rows : NR - 1 - r \in Rows /\ NR - 1 - (NR - 1 - r) = r
    /\ \A r \in Rows : r \in Int /\ r >= 0 /\ r <= NR - 1
    /\ \A c \in Cols : c \in Int /\ c >= 0 /\ c <= NC - 1
BY GridsAssumption DEF Rows, Cols

LEMMA DataFacts ==
    /\ NaNIn(TopFirst) \in Arrays
    /\ NaNIn(BottomFirst) = [r \in Rows |-> [c \in Cols |-> NaNIn(TopFirst)[NR - 1 - r][c]]]
<1>1. \A r \in Rows, c \in Cols :
        /\ TopFirst[r][c] = Datum(<<NR - 1 - r, c>>)
        /\ Datum(<<NR - 1 - r, c>>) \in Cells \cup {Void}
  BY RowFacts DEF TopFirst, Datum, Cells
<1>2. NaNIn(TopFirst) \in Arrays
  BY <1>1 DEF NaNIn, Arrays, Values
<1>3. Rows = 0..NR - 1
  BY DEF Rows
<1>4. \A r \in Rows : BottomFirst[r] = TopFirst[NR - 1 - r]
  BY <1>3 DEF BottomFirst, Flip
<1>5. ASSUME NEW r \in Rows, NEW c \in Cols
      PROVE  (IF BottomFirst[r][c] = Void THEN NaN ELSE BottomFirst[r][c])
               = NaNIn(TopFirst)[NR - 1 - r][c]
  BY <1>4, RowFacts DEF NaNIn
<1>6. NaNIn(BottomFirst) = [r \in Rows |-> [c \in Cols |->
          IF BottomFirst[r][c] = Void THEN NaN ELSE BottomFirst[r][c]]]
  BY DEF NaNIn
<1> QED BY <1>2, <1>5, <1>6

(* Stores into which every cell was copied are full.                       *)
LEMMA AllCopied ==
    ASSUME NEW z \in Arrays, NEW w \in Arrays,
           \A r \in Rows, c \in Cols : /\ z[r][c] = NaNIn(TopFirst)[r][c]
                                       /\ w[NR - 1 - r][c] = NaNIn(TopFirst)[r][c]
    PROVE  z = NaNIn(TopFirst) /\ w = NaNIn(BottomFirst)
<1> DEFINE D == NaNIn(TopFirst)
<1>1. D \in Arrays
  BY DataFacts
<1>2. \A r \in Rows, c \in Cols : z[r][c] = D[r][c] /\ w[NR - 1 - r][c] = D[r][c]
  OBVIOUS
<1>3. NaNIn(BottomFirst) = [r \in Rows |-> [c \in Cols |-> D[NR - 1 - r][c]]]
  BY DataFacts
<1> HIDE DEF D
<1>4. \A r \in Rows : z[r] = D[r]
  BY <1>1, <1>2 DEF Arrays
<1>5. z = D
  BY <1>1, <1>4 DEF Arrays
<1>6. \A r \in Rows, c \in Cols : w[r][c] = D[NR - 1 - r][c]
  <2> TAKE r \in Rows, c \in Cols
  <2>1. NR - 1 - r \in Rows /\ NR - 1 - (NR - 1 - r) = r
    BY RowFacts
  <2> QED BY <1>2, <2>1
<1>7. \A r \in Rows : w[r] = [c \in Cols |-> D[NR - 1 - r][c]]
  BY <1>6 DEF Arrays
<1>8. w = [r \in Rows |-> [c \in Cols |-> D[NR - 1 - r][c]]]
  BY <1>7 DEF Arrays
<1> QED BY <1>3, <1>5, <1>8 DEF D

LEMMA NoStoreFacts ==
    /\ NoStore \in Stores /\ NoStore.attrs = FALSE /\ NoStore.array = FALSE
    /\ [NoStore EXCEPT !.array = TRUE] \in Stores
    /\ [NoStore EXCEPT !.array = TRUE].attrs = FALSE
BY DEF NoStore, Stores, Blank, Arrays, Values

(* The data do not change.                                                 *)
LEMMA SameData ==
    ASSUME cfg' = cfg
    PROVE  /\ NaNIn(TopFirst)' = NaNIn(TopFirst) /\ NaNIn(BottomFirst)' = NaNIn(BottomFirst)
           /\ ZarrType' = ZarrType
BY DEF NaNIn, TopFirst, BottomFirst, Flip, Datum, ZarrType

LEMMA SameStores ==
    ASSUME cfg' = cfg, zarr' = zarr, flip' = flip
    PROVE  /\ Full' = Full
           /\ \A r \in Rows, c \in Cols : Copied(r, c)' = Copied(r, c)
BY SameData DEF Full, Copied
-----------------------------------------------------------------------------
(* The converter.                                                          *)

(* The cells of a window are copied to both stores.                        *)
LEMMA WindowIsCopied ==
    ASSUME Types, Progress, WriteWindow
    PROVE  /\ zarr'.z \in Arrays /\ flip'.z \in Arrays
           /\ \A r \in Rows, c \in Cols :
                (conv.i <= r /\ r < conv.i + conv.h /\ conv.j <= c /\ c < conv.j + conv.w)
                  \/ Copied(r, c) => Copied(r, c)'
<1> DEFINE i == conv.i
           j == conv.j
           h == conv.h
           w == conv.w
           rows == Within(i, h, NR - 1)
           cols == Within(j, w, NC - 1)
           D == NaNIn(TopFirst)
           from == FlippedWindow(i, rows)
           n == IF i + h <= NR THEN h ELSE NR - i
<1>1. /\ i \in Rows /\ j \in Cols /\ h \in Nat /\ w \in Nat /\ h > 0 /\ w > 0
      /\ conv.pc = "write"
  BY DEF Types, Progress, Convs, WriteWindow
<1>2. /\ zarr'.z = [r \in Rows |-> [c \in Cols |->
                      IF r \in rows /\ c \in cols THEN D[r][c] ELSE zarr.z[r][c]]]
      /\ flip'.z = [r \in Rows |-> [c \in Cols |->
                      IF r \in DOMAIN from /\ c \in cols THEN D[from[r]][c] ELSE flip.z[r][c]]]
      /\ cfg' = cfg
  BY DEF WriteWindow, Types, Stores
<1>3. D \in Arrays /\ zarr.z \in Arrays /\ flip.z \in Arrays
  BY DataFacts DEF Types, Stores
<1> HIDE DEF D, i, j, h, w
<1>4. rows = i..i + n - 1 /\ n \in Nat /\ i + n <= NR
  BY <1>1, RowFacts DEF Within
<1>5. Cardinality(rows) = n
  <2> DEFINE last == i + n - 1
  <2>1. i \in Int /\ last \in Int /\ n \in Nat
    BY <1>1, <1>4, RowFacts
  <2> HIDE DEF n, rows
  <2>2. rows = i..last
    BY <1>4
  <2>3. last = i + n - 1
    OBVIOUS
  <2> HIDE DEF last
  <2>4. Cardinality(i..last) = IF i > last THEN 0 ELSE last - i + 1
    BY <2>1, FS_Interval
  <2>5. (IF i > last THEN 0 ELSE last - i + 1) = n
    BY <2>1, <2>3
  <2> QED BY <2>2, <2>4, <2>5
<1>6. from = [r \in NR - i - n..NR - i - 1 |-> NR - 1 - r]
  BY <1>5 DEF FlippedWindow
<1> HIDE DEF n, rows
<1>7. /\ \A r \in Rows : r \in rows => NR - 1 - r \in DOMAIN from /\ from[NR - 1 - r] = r
      /\ \A r \in Rows : NR - 1 - r \in DOMAIN from => r \in rows
      /\ \A r \in DOMAIN from : from[r] \in Rows
  BY <1>1, <1>4, <1>6, RowFacts DEF Rows
<1> HIDE DEF from
<1>8. \A c \in Cols : c \in cols <=> j <= c /\ c < j + w
  BY <1>1, RowFacts DEF Within
<1>9. \A r \in Rows : r \in rows <=> i <= r /\ r < i + h
  BY <1>1, <1>4, RowFacts DEF n
<1> HIDE DEF cols
<1>10. \A r \in Rows, c \in Cols :
         /\ zarr'.z[r][c] = IF r \in rows /\ c \in cols THEN D[r][c] ELSE zarr.z[r][c]
         /\ flip'.z[NR - 1 - r][c]
              = IF r \in rows /\ c \in cols THEN D[r][c] ELSE flip.z[NR - 1 - r][c]
  BY <1>2, <1>7, RowFacts
<1>11. zarr'.z \in Arrays /\ flip'.z \in Arrays
  BY <1>2, <1>3, <1>7 DEF Arrays
<1>12. \A r \in Rows, c \in Cols :
         (r \in rows /\ c \in cols) \/ Copied(r, c) =>
            zarr'.z[r][c] = D[r][c] /\ flip'.z[NR - 1 - r][c] = D[r][c]
  BY <1>10 DEF Copied, D
<1>13. NaNIn(TopFirst)' = D
  BY <1>2, SameData DEF D
<1>14. \A r \in Rows, c \in Cols : (r \in rows /\ c \in cols) \/ Copied(r, c) => Copied(r, c)'
  BY <1>12, <1>13 DEF Copied
<1> QED BY <1>8, <1>9, <1>11, <1>14 DEF i, j, h, w

LEMMA InitCInv == Init => CInv
<1> SUFFICES ASSUME Init PROVE CInv
  OBVIOUS
<1>0. 0 \in 0..MaxConversions
  BY GridsAssumption
<1>1. Types
  BY <1>0, NoStoreFacts, RowFacts
  DEF Init, Types, Convs, ConvPoints, IdleConv, Unloaded, ObjFields, Statuses, NoAnswer
<1>2. Progress
  BY NoStoreFacts DEF Init, Progress, IdleConv
<1>3. Open
  BY DEF Init, Open, Sound, Unloaded
<1> QED BY <1>1, <1>2, <1>3 DEF CInv

(* What a step leaves to the object: the converter only makes it stale.    *)
LEMMA ObjectTypes ==
    ASSUME Types
    PROVE  /\ Touched = [f \in ObjFields |-> Touched[f]]
           /\ Touched.status = obj.status /\ Touched.torn = obj.torn
           /\ Touched.stale = (obj.status = "ok") /\ Touched.stale \in BOOLEAN
BY DEF Types, Touched, ObjFields

LEMMA ConverterKeepsCInv ==
    ASSUME CInv,
           \/ ConvStart \/ RemoveSome \/ RemoveRest \/ ExtentRejected \/ OpenArrays
           \/ WriteWindow \/ SaveMetadata \/ Kill
    PROVE  CInv'
<1> USE DEF CInv
<1>0. /\ cfg' = cfg /\ ans' = NoAnswer /\ zarr \in Stores /\ flip \in Stores
      /\ conv \in Convs /\ cfg \in Setups
  BY DEF ConvStart, RemoveSome, RemoveRest, ExtentRejected, OpenArrays, WriteWindow,
         SaveMetadata, Kill, Types
<1>1. CASE ConvStart
  <2>1. /\ UNCHANGED <<zarr, flip, torn, obj>> /\ conv'.pc = "rmzarr" /\ conv' \in Convs
        /\ conv'.i = 0 /\ conv'.j = 0
    <3>1. PICK width \in ChunkWidths :
            conv' = [pc |-> "rmzarr", i |-> 0, j |-> 0, h |-> NC \div width,
                     w |-> NR \div width, starts |-> conv.starts + 1]
      BY <1>1 DEF ConvStart
    <3>2. width \in Nat /\ width > 0
      BY GridsAssumption
    <3>3. NC \div width \in Nat /\ NR \div width \in Nat
      BY <3>2, RowFacts
    <3>4. conv.starts + 1 \in 0..MaxConversions
      BY <1>0, <1>1, GridsAssumption DEF Convs, ConvStart
    <3> QED BY <1>1, <3>1, <3>3, <3>4, RowFacts DEF ConvStart, Convs, ConvPoints
  <2>2. Types'
    BY <1>0, <2>1 DEF Types, NoAnswer
  <2>3. Progress' /\ Open'
    BY <1>0, <2>1, SameStores, SameData DEF Progress, Open, Sound
  <2> QED BY <2>2, <2>3
<1>2. CASE RemoveSome
  <2>1. PICK gone :
          /\ zarr' = IF conv.pc = "rmzarr" THEN Without(zarr, gone) ELSE zarr
          /\ flip' = IF conv.pc = "rmflip" THEN Without(flip, gone) ELSE flip
    BY <1>2 DEF RemoveSome
  <2>2. \A s \in Stores : Without(s, gone) \in Stores
    BY DEF Without, Stores, Arrays, Blank, Values
  <2>3. zarr' \in Stores /\ flip' \in Stores
    BY <1>0, <2>1, <2>2
  <2>4. /\ conv' \in Convs /\ torn' = TRUE /\ obj' = Touched
        /\ conv.pc \in {"rmzarr", "rmflip"}
        /\ conv'.pc = IF conv.pc = "rmzarr" THEN "rmzarr2" ELSE "rmflip2"
        /\ conv'.i = conv.i /\ conv'.j = conv.j
    BY <1>0, <1>2 DEF RemoveSome, Convs, ConvPoints
  <2>5. Types'
    BY <1>0, <2>3, <2>4, ObjectTypes DEF Types, NoAnswer
  <2>6. Progress'
    BY <2>1, <2>4 DEF Progress
  <2>7. Open'
    BY <2>4, ObjectTypes DEF Open, Sound
  <2> QED BY <2>5, <2>6, <2>7
<1>3. CASE RemoveRest
  <2>1. /\ obj' = Touched /\ torn' = torn
        /\ \/ zarr' = NoStore /\ flip' = flip /\ conv' = [conv EXCEPT !.pc = "rmflip"]
           \/ /\ zarr' = zarr /\ flip' = NoStore /\ conv' = [conv EXCEPT !.pc = "open"]
              /\ conv.pc \in {"rmflip", "rmflip2"}
    BY <1>3 DEF RemoveRest
  <2>2. conv' \in Convs /\ conv'.pc \in {"rmflip", "open"} /\ conv'.i = conv.i /\ conv'.j = conv.j
    BY <1>0, <2>1 DEF Convs, ConvPoints
  <2>3. zarr' = NoStore /\ (conv'.pc = "open" => flip' = NoStore) /\ flip' \in Stores
    BY <1>0, <2>1, NoStoreFacts DEF Progress, Convs
  <2>4. Types'
    BY <1>0, <2>1, <2>2, <2>3, ObjectTypes, NoStoreFacts DEF Types, NoAnswer
  <2>5. Progress'
    BY <1>3, <2>2, <2>3, NoStoreFacts DEF Progress, RemoveRest
  <2>6. Open'
    BY <2>1, ObjectTypes DEF Open, Sound
  <2> QED BY <2>4, <2>5, <2>6
<1>4. CASE OpenArrays
  <2>1. /\ conv.pc = "open" /\ obj' = obj /\ torn' = FALSE
        /\ zarr' = [NoStore EXCEPT !.array = TRUE] /\ flip' = [NoStore EXCEPT !.array = TRUE]
        /\ conv' = [conv EXCEPT !.pc = IF conv.h = 0 \/ conv.w = 0 THEN "idle" ELSE "write"]
    BY <1>4 DEF OpenArrays
  <2>2. zarr' \in Stores /\ flip' \in Stores /\ zarr'.attrs = FALSE
    BY <2>1, NoStoreFacts
  <2>3. /\ conv' \in Convs /\ conv'.h = conv.h /\ conv'.w = conv.w
        /\ conv'.i = conv.i /\ conv'.j = conv.j
        /\ conv'.pc = IF conv.h = 0 \/ conv.w = 0 THEN "idle" ELSE "write"
    BY <1>0, <2>1 DEF Convs, ConvPoints
  <2>4. Types'
    BY <1>0, <2>1, <2>2, <2>3 DEF Types, NoAnswer
  <2>5. zarr = NoStore
    BY <2>1 DEF Progress
  <2>6. Open'
    BY <1>0, <2>1, <2>5, NoStoreFacts, SameData DEF Open, Sound
  <2>7. conv'.i = 0 /\ conv'.j = 0
    BY <2>1, <2>3 DEF Progress
  <2>8. Progress'
    BY <1>0, <2>1, <2>2, <2>3, <2>7, RowFacts DEF Progress, Convs
  <2> QED BY <2>4, <2>6, <2>8
<1>5. CASE WriteWindow
  <2>1. /\ conv.pc = "write" /\ obj' = obj /\ torn' = torn /\ torn = FALSE
        /\ zarr.attrs = FALSE
    BY <1>5 DEF WriteWindow, Progress
  <2>2. /\ zarr'.z \in Arrays /\ flip'.z \in Arrays
        /\ zarr' = [zarr EXCEPT !.z = zarr'.z] /\ flip' = [flip EXCEPT !.z = flip'.z]
    <3>1. zarr'.z \in Arrays /\ flip'.z \in Arrays
      BY <1>5, WindowIsCopied
    <3>2. \E a, b : zarr' = [zarr EXCEPT !.z = a] /\ flip' = [flip EXCEPT !.z = b]
      BY <1>5, Zenon DEF WriteWindow
    <3> QED BY <1>0, <3>1, <3>2 DEF Stores
  <2>3. zarr' \in Stores /\ flip' \in Stores /\ zarr'.attrs = FALSE
    <3> DEFINE a == zarr'.z
               b == flip'.z
    <3>1. a \in Arrays /\ b \in Arrays /\ zarr' = [zarr EXCEPT !.z = a] /\ flip' = [flip EXCEPT !.z = b]
      BY <2>2
    <3> HIDE DEF a, b
    <3> QED BY <1>0, <2>1, <3>1 DEF Stores
  <2>4. /\ conv.i \in Rows /\ conv.j \in Cols /\ conv.h \in Nat /\ conv.w \in Nat
        /\ conv.h > 0 /\ conv.w > 0
    BY <1>0, <2>1 DEF Convs, Progress
  <2>5. Open'
    BY <1>0, <2>1, SameData DEF Open, Sound
  <2>6. \A r \in Rows, c \in Cols :
          \/ r < conv.i \/ (r < conv.i + conv.h /\ c < conv.j + conv.w)
          => Copied(r, c)'
    <3> TAKE r \in Rows, c \in Cols
    <3>1. CASE r < conv.i \/ (r < conv.i + conv.h /\ c < conv.j)
      BY <1>5, <2>1, <3>1, WindowIsCopied DEF Progress
    <3>2. CASE ~(r < conv.i) /\ r < conv.i + conv.h /\ ~(c < conv.j) /\ c < conv.j + conv.w
      <4>1. conv.i <= r /\ conv.j <= c
        BY <2>4, <3>2, RowFacts
      <4> QED BY <1>5, <3>2, <4>1, WindowIsCopied
    <3> QED BY <3>1, <3>2
  <2>7. CASE LastWindow
    <3>1. conv' = [conv EXCEPT !.pc = "attrs"]
      BY <1>5, <2>7 DEF WriteWindow
    <3>2. conv' \in Convs /\ conv'.pc = "attrs"
      BY <1>0, <3>1 DEF Convs, ConvPoints
    <3>3. \A r \in Rows, c \in Cols : r < conv.i + conv.h /\ c < conv.j + conv.w
      BY <2>4, <2>7, RowFacts DEF LastWindow
    <3>4. Full'
      <4> DEFINE a == zarr'.z
                 b == flip'.z
      <4>1. NaNIn(TopFirst)' = NaNIn(TopFirst) /\ NaNIn(BottomFirst)' = NaNIn(BottomFirst)
        BY <1>0, SameData
      <4>2. \A r \in Rows, c \in Cols : /\ a[r][c] = NaNIn(TopFirst)[r][c]
                                        /\ b[NR - 1 - r][c] = NaNIn(TopFirst)[r][c]
        BY <2>6, <3>3, <4>1 DEF Copied
      <4>3. a \in Arrays /\ b \in Arrays
        BY <2>2
      <4>4. a = NaNIn(TopFirst) /\ b = NaNIn(BottomFirst)
        <5> HIDE DEF a, b
        <5> QED BY <4>2, <4>3, AllCopied
      <4> QED BY <4>1, <4>4 DEF Full
    <3>5. Progress'
      BY <2>1, <2>3, <3>2, <3>4 DEF Progress
    <3>6. Types'
      BY <1>0, <2>1, <2>3, <3>2 DEF Types, NoAnswer
    <3> QED BY <2>5, <3>5, <3>6
  <2>8. CASE ~LastWindow /\ conv.j + conv.w <= NC - 1
    <3>1. conv' = [conv EXCEPT !.j = conv.j + conv.w]
      BY <1>0, <1>5, <2>8 DEF WriteWindow, Convs
    <3>2. conv.j + conv.w \in Cols
      BY <2>4, <2>8, RowFacts DEF Cols
    <3>3. /\ conv' \in Convs /\ conv'.pc = "write" /\ conv'.i = conv.i
          /\ conv'.j = conv.j + conv.w /\ conv'.h = conv.h /\ conv'.w = conv.w
      BY <1>0, <2>1, <3>1, <3>2 DEF Convs, ConvPoints
    <3>4. Progress'
      BY <2>1, <2>3, <2>4, <2>6, <3>3 DEF Progress
    <3>5. Types'
      BY <1>0, <2>1, <2>3, <3>3 DEF Types, NoAnswer
    <3> QED BY <2>5, <3>4, <3>5
  <2>9. CASE ~LastWindow /\ ~(conv.j + conv.w <= NC - 1)
    <3>1. conv' = [conv EXCEPT !.j = 0, !.i = conv.i + conv.h]
      BY <1>0, <1>5, <2>9 DEF WriteWindow, Convs
    <3>2. conv.i + conv.h \in Rows
      BY <2>4, <2>9, RowFacts DEF Rows, LastWindow
    <3>3. /\ conv' \in Convs /\ conv'.pc = "write" /\ conv'.i = conv.i + conv.h
          /\ conv'.j = 0 /\ conv'.h = conv.h /\ conv'.w = conv.w
      BY <1>0, <2>1, <3>1, <3>2, RowFacts DEF Convs, ConvPoints
    <3>4. \A c \in Cols : c < conv.j + conv.w /\ ~(c < 0)
      BY <2>4, <2>9, RowFacts
    <3>5. \A r \in Rows, c \in Cols :
            r < conv'.i \/ (r < conv'.i + conv'.h /\ c < conv'.j) => Copied(r, c)'
      BY <2>6, <3>3, <3>4
    <3>6. Progress'
      BY <2>1, <2>3, <2>4, <3>3, <3>5 DEF Progress
    <3>7. Types'
      BY <1>0, <2>1, <2>3, <3>3 DEF Types, NoAnswer
    <3> QED BY <2>5, <3>6, <3>7
  <2> QED BY <2>7, <2>8, <2>9
<1>6. CASE SaveMetadata
  <2>1. /\ conv.pc = "attrs" /\ obj' = obj /\ torn' = torn
        /\ zarr' = [zarr EXCEPT !.attrs = TRUE] /\ flip' = [flip EXCEPT !.attrs = TRUE]
        /\ conv' = [conv EXCEPT !.pc = "idle"]
    BY <1>6 DEF SaveMetadata
  <2>2. /\ zarr' \in Stores /\ flip' \in Stores /\ zarr'.z = zarr.z /\ flip'.z = flip.z
        /\ zarr'.attrs = TRUE /\ conv' \in Convs /\ conv'.pc = "idle"
    BY <1>0, <2>1 DEF Stores, Convs, ConvPoints
  <2>3. Full' /\ zarr.attrs = FALSE
    BY <1>0, <2>1, <2>2, SameData DEF Full, Progress
  <2>4. Types'
    BY <1>0, <2>1, <2>2 DEF Types, NoAnswer
  <2>5. Progress' /\ Open'
    BY <2>2, <2>3 DEF Progress, Open
  <2> QED BY <2>4, <2>5
<1>7. CASE ExtentRejected \/ Kill
  <2>1. UNCHANGED <<zarr, flip, torn, obj>> /\ conv' = [conv EXCEPT !.pc = "idle"]
    BY <1>7 DEF ExtentRejected, Kill
  <2>2. conv' \in Convs /\ conv'.pc = "idle"
    BY <1>0, <2>1 DEF Convs, ConvPoints
  <2>3. Types'
    BY <1>0, <2>1, <2>2 DEF Types, NoAnswer
  <2>4. Progress' /\ Open'
    BY <1>0, <2>1, <2>2, SameStores, SameData DEF Progress, Open, Sound
  <2> QED BY <2>3, <2>4
<1> QED BY <1>1, <1>2, <1>3, <1>4, <1>5, <1>6, <1>7
-----------------------------------------------------------------------------
(* Loading.                                                                *)

Bad == {"empty", "raised"}

LEMMA LoadFacts ==
    ASSUME Types, NEW array, NEW missing \in Bad, NEW unopened \in Bad,
           LoadAs(array, missing, unopened)
    PROVE  /\ UNCHANGED <<cfg, zarr, flip, conv, torn, ans>> /\ obj.status = "new"
           /\ obj' = [f \in ObjFields |-> obj'[f]] /\ obj'.status \in Statuses \ {"new", "closed"}
           /\ obj'.torn \in BOOLEAN /\ obj'.stale = FALSE
           /\ obj'.status = "ok" =>
                /\ obj'.torn = torn /\ obj'.y = array.y /\ obj'.z = array.z
                /\ Found /\ (ZarrType => zarr.array /\ zarr.attrs /\ flip.array)
           /\ obj'.status # "ok" =>
                \/ ~Found \/ ~cfg.square
                \/ ZarrType /\ ~(zarr.array /\ zarr.attrs /\ flip.array)
<1> DEFINE status == CASE ~Found -> missing
                       [] Found /\ ZarrType -> LoadZarr(unopened)
                       [] Found /\ cfg.type = "tif" /\ ~cfg.square -> "raised"
                       [] OTHER -> "ok"
<1>1. /\ UNCHANGED <<cfg, zarr, flip, conv, torn, ans>> /\ obj.status = "new"
      /\ obj' = IF status = "ok"
                THEN [status |-> "ok", y |-> array.y, z |-> array.z,
                      torn |-> torn, stale |-> FALSE]
                ELSE [Unloaded EXCEPT !.status = status]
  BY DEF LoadAs
<1>2. /\ LoadZarr(unopened) \in {"ok", "empty", "raised"}
      /\ LoadZarr(unopened) = "ok" <=> zarr.array /\ zarr.attrs /\ flip.array
  <2>1. CASE ~zarr.array
    BY <2>1 DEF LoadZarr, Bad
  <2>2. CASE zarr.array /\ ~zarr.attrs
    BY <2>2 DEF LoadZarr, Bad
  <2>3. CASE zarr.array /\ zarr.attrs /\ ~flip.array
    BY <2>3 DEF LoadZarr, Bad
  <2>4. CASE zarr.array /\ zarr.attrs /\ flip.array
    BY <2>4 DEF LoadZarr, Bad
  <2> QED BY <2>1, <2>2, <2>3, <2>4
<1>3. /\ status \in {"ok", "empty", "raised"}
      /\ status = "ok" => Found /\ (ZarrType => LoadZarr(unopened) = "ok")
      /\ status # "ok" => ~Found \/ ~cfg.square \/ (ZarrType /\ LoadZarr(unopened) # "ok")
  BY <1>2 DEF Bad, ZarrType
<1> HIDE DEF status
<1>4. torn \in BOOLEAN
  BY DEF Types
<1>5. CASE status = "ok"
  BY <1>1, <1>2, <1>3, <1>4, <1>5 DEF ObjFields, Statuses
<1>6. CASE status # "ok"
  BY <1>1, <1>2, <1>3, <1>6 DEF ObjFields, Statuses, Unloaded
<1> QED BY <1>5, <1>6

LEMMA LoadKeepsCInv ==
    ASSUME CInv, NEW array, NEW missing \in Bad, NEW unopened \in Bad,
           LoadAs(array, missing, unopened)
    PROVE  CInv'
<1> USE DEF CInv
<1>1. Types'
  BY LoadFacts DEF Types
<1>2. UNCHANGED <<cfg, zarr, flip, conv, torn>>
  BY LoadFacts
<1>3. Progress'
  BY <1>2, SameStores DEF Progress
<1>4. Open'
  <2> SUFFICES ASSUME Sound', ZarrType' PROVE (zarr.attrs = TRUE)' /\ Full'
    BY DEF Open
  <2>1. obj'.status = "ok" /\ obj'.torn = torn /\ ZarrType /\ zarr.attrs
    BY <1>2, LoadFacts, SameData DEF Sound
  <2>2. torn = FALSE /\ zarr.attrs = TRUE
    BY <2>1 DEF Sound, Types, Stores
  <2> QED BY <1>2, <2>2, SameStores DEF Progress
<1> QED BY <1>1, <1>3, <1>4

Loads == DemLoad \/ SlopesLoad \/ RoughnessLoad \/ DhdtLoad \/ MaskLoad

LEMMA LoadIs ==
    ASSUME Loads
    PROVE  \E array, missing, unopened :
             missing \in Bad /\ unopened \in Bad /\ LoadAs(array, missing, unopened)
BY DEF Loads, Bad, DemLoad, SlopesLoad, RoughnessLoad, DhdtLoad, MaskLoad

CleanUps == DemCleanUp \/ SlopesCleanUp \/ RoughnessCleanUp

LEMMA CleanUpFacts ==
    ASSUME CInv, CleanUps
    PROVE  /\ UNCHANGED <<cfg, zarr, flip, conv, torn>> /\ ans' = NoAnswer
           /\ obj.status = "ok" /\ obj'.status = "closed" /\ CInv'
<1>1. /\ UNCHANGED <<cfg, zarr, flip, conv, torn>> /\ ans' = NoAnswer /\ obj.status = "ok"
      /\ obj' = [Unloaded EXCEPT !.status = "closed"]
  BY DEF CleanUps, DemCleanUp, SlopesCleanUp, RoughnessCleanUp, CleanUp
<1>2. /\ obj' = [f \in ObjFields |-> obj'[f]] /\ obj'.status = "closed"
      /\ obj'.torn = FALSE /\ obj'.stale = FALSE
  BY <1>1 DEF Unloaded, ObjFields
<1>3. Types'
  BY <1>1, <1>2 DEF CInv, Types, Statuses, NoAnswer
<1>4. Progress' /\ Open'
  BY <1>1, <1>2, SameStores DEF CInv, Progress, Open, Sound
<1> QED BY <1>1, <1>2, <1>3, <1>4 DEF CInv

Segments(b) == DemSegment(b) \/ SlopesSegment(b) \/ RoughnessSegment(b)

Points ==
    \/ \E q \in Queries : InterpDem(q) \/ InterpSlopes(q) \/ InterpRoughness(q) \/ InterpDhdt(q)
    \/ \E q \in Queries : MaskValues(q)
    \/ \E q \in Queries, basins \in Basins : PointsInside(q, basins)

(* Questions change only the answer.                                       *)
LEMMA QuestionFacts ==
    ASSUME Points \/ \E b \in Bounds : Segments(b)
    PROVE  /\ UNCHANGED <<cfg, zarr, flip, conv, torn, obj>> /\ obj.status # "new"
           /\ Points => ans'.op # "segment"
<1>1. ASSUME NEW q \in Queries, InterpDem(q) \/ InterpSlopes(q) \/ InterpRoughness(q)
      PROVE  /\ UNCHANGED <<cfg, zarr, flip, conv, torn, obj>> /\ obj.status # "new"
             /\ ans'.op # "segment"
  BY <1>1 DEF InterpDem, InterpSlopes, InterpRoughness, Ask, Raised
<1>2. ASSUME NEW q \in Queries, InterpDhdt(q)
      PROVE  /\ UNCHANGED <<cfg, zarr, flip, conv, torn, obj>> /\ obj.status # "new"
             /\ ans'.op # "segment"
  BY <1>2 DEF InterpDhdt, Ask, Raised
<1>3. ASSUME NEW q \in Queries, MaskValues(q)
      PROVE  /\ UNCHANGED <<cfg, zarr, flip, conv, torn, obj>> /\ obj.status # "new"
             /\ ans'.op # "segment"
  BY <1>3 DEF MaskValues
<1>4. ASSUME NEW q \in Queries, NEW basins \in Basins, PointsInside(q, basins)
      PROVE  /\ UNCHANGED <<cfg, zarr, flip, conv, torn, obj>> /\ obj.status # "new"
             /\ ans'.op # "segment"
  BY <1>4 DEF PointsInside, Raised
<1>5. ASSUME NEW b \in Bounds, Segments(b)
      PROVE  UNCHANGED <<cfg, zarr, flip, conv, torn, obj>> /\ obj.status # "new"
  <2>1. GetSegment(b)
    BY <1>5 DEF Segments, DemSegment, SlopesSegment, RoughnessSegment
  <2>2. obj.status \in {"ok", "empty", "closed"} /\ UNCHANGED <<cfg, zarr, flip, conv, torn, obj>>
    BY <2>1, Zenon DEF GetSegment
  <2> QED BY <2>2
<1> QED BY <1>1, <1>2, <1>3, <1>4, <1>5, Zenon DEF Points

LEMMA NextCases ==
    ASSUME Next
    PROVE  \/ ConvStart \/ RemoveSome \/ RemoveRest \/ ExtentRejected \/ OpenArrays
           \/ WriteWindow \/ SaveMetadata \/ Kill
           \/ Loads \/ CleanUps \/ Points \/ \E b \in Bounds : Segments(b)
BY Zenon DEF Next, Loads, CleanUps, Points, Segments

LEMMA NextCInv == CInv /\ [Next]_vars => CInv'
<1> SUFFICES ASSUME CInv, [Next]_vars PROVE CInv'
  OBVIOUS
<1>1. ASSUME UNCHANGED <<cfg, zarr, flip, conv, torn, obj>>, ans' = ans \/ obj.status # "new"
      PROVE  CInv'
  <2>1. Types'
    BY <1>1 DEF CInv, Types
  <2>2. Progress' /\ Open'
    BY <1>1, SameStores, SameData DEF CInv, Progress, Open, Sound
  <2> QED BY <2>1, <2>2 DEF CInv
<1>2. CASE UNCHANGED vars
  BY <1>1, <1>2 DEF vars
<1>3. CASE Next
  <2>1. CASE \/ ConvStart \/ RemoveSome \/ RemoveRest \/ ExtentRejected \/ OpenArrays
             \/ WriteWindow \/ SaveMetadata \/ Kill
    BY <2>1, ConverterKeepsCInv
  <2>2. CASE Loads
    BY <2>2, LoadIs, LoadKeepsCInv
  <2>3. CASE CleanUps
    BY <2>3, CleanUpFacts
  <2>4. CASE Points \/ \E b \in Bounds : Segments(b)
    BY <1>1, <2>4, QuestionFacts
  <2> QED BY <1>3, <2>1, <2>2, <2>3, <2>4, NextCases
<1> QED BY <1>2, <1>3

LEMMA CInvHolds == Spec => []CInv
BY InitCInv, NextCInv, PTL DEF Spec

(* Whenever the converter is killed and however often it is started again, *)
(* a Zarr grid that could be loaded and that no conversion has touched     *)
(* since is complete, unless a removal of an old store was interrupted     *)
(* (geotiff_to_zarr.py:104-181, dems.py:249-280).                          *)
THEOREM LoadedGridsAreComplete == Spec => []LoadedComplete
<1>1. CInv => LoadedComplete
  BY DEF CInv, Open, Full, LoadedComplete
<1> QED BY <1>1, CInvHolds, PTL
-----------------------------------------------------------------------------
(* Names.                                                                  *)

(* The type that is set for a name fits the files of that name.            *)
Fits(e) ==
    /\ e.type = "zarr" <=> e.ext = "zarr"
    /\ e.filled # "none" => (e.type = "zarr" <=> e.filled = "zarr")

LEMMA NamedFacts ==
    ASSUME NEW t, NEW e, NEW f
    PROVE  Named(t, e, f).type = t /\ Named(t, e, f).ext = e /\ Named(t, e, f).filled = f
BY DEF Named

TifKinds == {Named("tif", "tif", "tif"), Named("tif", "tif", "none")}
NpzKinds == {Named("npz", "npz", "npz")}
ZarrKinds == {Named("zarr", "zarr", "zarr"), Named("zarr", "zarr", "none")}
NcKinds == {Named("nc", "nc", "nc"), Named("nc", "nc", "none")}
MaskKinds == {Named("flip", "nc", "nc"), Named("asis", "nc", "nc"), Named("transpose", "nc", "nc")}

LEMMA KindsFit ==
    /\ \A e \in TifKinds \cup NpzKinds \cup ZarrKinds : Fits(e) /\ e.type # "nc"
    /\ \A e \in NcKinds \cup MaskKinds : Fits(e)
<1>1. \A e \in TifKinds : Fits(e) /\ e.type # "nc"
  BY NamedFacts DEF TifKinds, Fits
<1>2. \A e \in NpzKinds : Fits(e) /\ e.type # "nc"
  BY NamedFacts DEF NpzKinds, Fits
<1>3. \A e \in ZarrKinds : Fits(e) /\ e.type # "nc"
  BY NamedFacts DEF ZarrKinds, Fits
<1>4. \A e \in NcKinds : Fits(e)
  BY NamedFacts DEF NcKinds, Fits
<1>5. \A e \in MaskKinds : Fits(e)
  BY NamedFacts DEF MaskKinds, Fits
<1> QED BY <1>1, <1>2, <1>3, <1>4, <1>5

LEMMA DemsFit == \A e \in Catalogue.dem : Fits(e) /\ e.type # "nc"
<1>1. Entries(AwiDems) \subseteq TifKinds \cup NpzKinds \cup ZarrKinds
  BY DEF Entries, AwiDems, TifKinds, NpzKinds, ZarrKinds
<1>2. Entries(RemaDems) \subseteq TifKinds \cup ZarrKinds
  BY DEF Entries, RemaDems, TifKinds, ZarrKinds
<1>3. Entries(GaplessDems) \subseteq TifKinds \cup ZarrKinds
  BY DEF Entries, GaplessDems, TifKinds, ZarrKinds
<1>4. Entries(GreenlandDems) \subseteq TifKinds \cup ZarrKinds
  BY DEF Entries, GreenlandDems, TifKinds, ZarrKinds
<1>5. Catalogue.dem = Entries(AwiDems) \cup Entries(RemaDems) \cup Entries(GaplessDems)
                        \cup Entries(GreenlandDems)
  BY DEF Catalogue
<1> QED BY <1>1, <1>2, <1>3, <1>4, <1>5, KindsFit

LEMMA OthersFit ==
    /\ \A e \in Catalogue.slopes : Fits(e)
    /\ \A e \in Catalogue.roughness : Fits(e) /\ e.type # "nc"
    /\ \A e \in Catalogue.dhdt : Fits(e) /\ e.type \in {"tif", "nc"}
<1>1. Entries(SlopeNames) \subseteq TifKinds \cup ZarrKinds \cup NcKinds
  BY DEF Entries, SlopeNames, TifKinds, ZarrKinds, NcKinds
<1>2. Entries(RoughnessNames) \subseteq ZarrKinds
  BY DEF Entries, RoughnessNames, ZarrKinds
<1>3. Entries(DhdtNames) \subseteq TifKinds \cup NcKinds
  BY DEF Entries, DhdtNames, TifKinds, NcKinds
<1>4. /\ Catalogue.slopes = Entries(SlopeNames)
      /\ Catalogue.roughness = Entries(RoughnessNames)
      /\ Catalogue.dhdt = Entries(DhdtNames)
  BY DEF Catalogue
<1>5. \A e \in TifKinds \cup NcKinds : e.type \in {"tif", "nc"}
  BY NamedFacts DEF TifKinds, NcKinds
<1> QED BY <1>1, <1>2, <1>3, <1>4, <1>5, KindsFit

LEMMA MasksFit == \A e \in Catalogue.mask : Fits(e)
<1>1. Entries(BedMachineMasks) \subseteq MaskKinds
  BY DEF Entries, BedMachineMasks, MaskKinds
<1>2. Entries(DilatedMasks) \subseteq MaskKinds
  BY DEF Entries, DilatedMasks, MaskKinds
<1>3. Entries(BasinMasks) \subseteq MaskKinds
  BY DEF Entries, BasinMasks, MaskKinds
<1>4. Entries(LateBasinMasks) \subseteq MaskKinds
  BY DEF Entries, LateBasinMasks, MaskKinds
<1>5. Catalogue.mask = Entries(BedMachineMasks) \cup Entries(DilatedMasks)
                         \cup Entries(BasinMasks) \cup Entries(LateBasinMasks)
  BY DEF Catalogue
<1> QED BY <1>1, <1>2, <1>3, <1>4, <1>5, KindsFit

LEMMA SetupFacts ==
    ASSUME NEW s \in Setups
    PROVE  /\ s.type = "zarr" <=> s.ext = "zarr"
           /\ s.class \in {"dem", "roughness"} => s.type # "nc"
           /\ s.class = "dhdt" => s.type \in {"tif", "nc"}
<1>1. PICK c \in DOMAIN Catalogue : \E e \in Catalogue[c], f \in BOOLEAN :
        s.class = c /\ s.type = e.type /\ s.ext = FileName(e, f)
  BY DEF Setups
<1>2. PICK e \in Catalogue[c], f \in BOOLEAN :
        s.class = c /\ s.type = e.type /\ s.ext = FileName(e, f)
  BY <1>1
<1>3. c \in {"dem", "slopes", "roughness", "dhdt", "mask"}
  BY DEF Catalogue
<1>4. /\ Fits(e) /\ (c \in {"dem", "roughness"} => e.type # "nc")
      /\ c = "dhdt" => e.type \in {"tif", "nc"}
  BY <1>3, DemsFit, OthersFit, MasksFit
<1> QED BY <1>2, <1>4 DEF Fits, FileName

(* A file that is where load() looks for it, with square cells, and whose  *)
(* conversion is over, is loaded, for every name, filled or not            *)
(* (dems.py:126-166, 198-211, 352-822).                                    *)
THEOREM LoadsSucceed == Spec => LoadSucceeds
<1>1. CInv /\ [Next]_vars =>
        [obj.status = "new" /\ obj'.status # "new" /\ cfg.there
         /\ cfg.square /\ (cfg.ext = "zarr" => zarr.array /\ zarr.attrs /\ flip.array)
           => obj'.status = "ok"]_vars
  <2> SUFFICES ASSUME CInv, [Next]_vars, obj.status = "new", obj'.status # "new", cfg.there,
                      cfg.square,
                      cfg.ext = "zarr" => zarr.array /\ zarr.attrs /\ flip.array
               PROVE  obj'.status = "ok"
    OBVIOUS
  <2>1. Types /\ cfg \in Setups
    BY DEF CInv, Types
  <2>2. Loads
    <3>1. CASE UNCHANGED vars
      BY <3>1 DEF vars
    <3>2. CASE \/ ConvStart \/ RemoveSome \/ RemoveRest \/ ExtentRejected \/ OpenArrays
               \/ WriteWindow \/ SaveMetadata \/ Kill
      <4>1. obj' = obj \/ obj' = Touched
        BY <3>2 DEF ConvStart, RemoveSome, RemoveRest, ExtentRejected, OpenArrays,
                    WriteWindow, SaveMetadata, Kill
      <4> QED BY <2>1, <4>1, ObjectTypes
    <3>3. CASE CleanUps
      BY <3>3, CleanUpFacts
    <3>4. CASE Points \/ \E b \in Bounds : Segments(b)
      BY <3>4, QuestionFacts
    <3> QED BY <3>1, <3>2, <3>3, <3>4, NextCases
  <2>3. ZarrType <=> cfg.ext = "zarr"
    BY <2>1, SetupFacts DEF ZarrType
  <2>4. Found
    <3>1. zarr.array => zarr # NoStore
      BY NoStoreFacts
    <3> QED BY <2>3, <3>1 DEF Found
  <2> QED BY <2>1, <2>2, <2>3, <2>4, LoadIs, LoadFacts
<1> QED BY <1>1, CInvHolds, PTL DEF Spec, LoadSucceeds
-----------------------------------------------------------------------------
(* Segments.                                                               *)

LEMMA SmallestExists ==
    ASSUME NEW S, S \subseteq Nat, S # {}
    PROVE  \E x \in S : \A y \in S : x <= y
<1>1. \E x \in S : \A y \in S : ~(<<y, x>> \in OpToRel(<, Nat))
  BY NatLessThanWellFounded, WFMin, Zenon
<1>2. \A x, y \in Nat : ~(<<y, x>> \in OpToRel(<, Nat)) => x <= y
  BY DEF OpToRel
<1> QED BY <1>1, <1>2

LEMMA MinFacts ==
    ASSUME NEW S, S \subseteq Nat, S # {}
    PROVE  Min(S) \in S /\ \A y \in S : Min(S) <= y
BY SmallestExists DEF Min

Far(x) == IF x < 0 THEN -x ELSE x

LEMMA SquaresCompare ==
    ASSUME NEW x \in Int, NEW y \in Int
    PROVE  x * x <= y * y <=> Far(x) <= Far(y)
<1> DEFINE a == Far(x)
           b == Far(y)
<1>1. a \in Nat /\ b \in Nat /\ a * a = x * x /\ b * b = y * y
  BY DEF Far
<1> HIDE DEF a, b
<1>2. a <= b => a * a <= b * b
  BY <1>1
<1>3. b < a => b * b < a * a
  BY <1>1
<1> QED BY <1>1, <1>2, <1>3 DEF a, b

(* The index nearest to v, the first of equal ones.                        *)
LEMMA ArgMinFacts ==
    ASSUME NEW n \in Nat, n > 0, NEW axis \in [0..n - 1 -> Int], NEW v \in Int
    PROVE  /\ ArgMin(axis, v) \in 0..n - 1
           /\ \A l \in 0..n - 1 : Far(axis[ArgMin(axis, v)] - v) <= Far(axis[l] - v)
<1> DEFINE D(k) == Far(axis[k] - v)
           I == 0..n - 1
           S == {k \in I : \A l \in I : D(k) <= D(l)}
<1>1. \A k \in I : D(k) \in Nat
  BY DEF Far
<1>2. {D(k) : k \in I} # {} /\ {D(k) : k \in I} \subseteq Nat
  <2>1. 0 \in I
    OBVIOUS
  <2> HIDE DEF D, I
  <2> QED BY <1>1, <2>1
<1>3. S # {}
  <2>1. PICK d \in {D(k) : k \in I} : \A e \in {D(k) : k \in I} : d <= e
    BY <1>2, SmallestExists
  <2> QED BY <2>1
<1>4. S \subseteq Nat
  OBVIOUS
<1>5. Min(S) \in S
  BY <1>3, <1>4, MinFacts
<1>6. ArgMin(axis, v) = Min(S)
  <2>1. DOMAIN axis = I
    OBVIOUS
  <2>2. \A k, l \in I : (axis[k] - v) * (axis[k] - v) <= (axis[l] - v) * (axis[l] - v)
                          <=> D(k) <= D(l)
    <3>1. \A k \in I : axis[k] - v \in Int
      OBVIOUS
    <3> QED BY <3>1, SquaresCompare
  <2>3. {k \in I : \A l \in I : (axis[k] - v) * (axis[k] - v) <= (axis[l] - v) * (axis[l] - v)} = S
    BY <2>2
  <2> QED BY <2>1, <2>3 DEF ArgMin
<1> QED BY <1>5, <1>6

LEMMA AxisFacts ==
    /\ Down \in [0..NR - 1 -> Int] /\ Up \in [0..NR - 1 -> Int] /\ XAxis \in [0..NC - 1 -> Int]
    /\ \A r \in Rows : Down[r] = 2 * (NR - 1 - r) /\ Up[r] = 2 * r
    /\ \A c \in Cols : XAxis[c] = 2 * c
BY RowFacts DEF Down, Up, XAxis, Rows, Cols

LEMMA NearestIndex ==
    ASSUME NEW v \in Int
    PROVE  /\ \A axis \in [0..NR - 1 -> Int] :
                /\ ArgMin(axis, v) \in Rows
                /\ \A l \in Rows : Far(axis[ArgMin(axis, v)] - v) <= Far(axis[l] - v)
           /\ \A axis \in [0..NC - 1 -> Int] :
                /\ ArgMin(axis, v) \in Cols
                /\ \A l \in Cols : Far(axis[ArgMin(axis, v)] - v) <= Far(axis[l] - v)
<1>1. NR \in Nat /\ NR > 0 /\ NC \in Nat /\ NC > 0
  BY RowFacts
<1>2. ASSUME NEW n \in Nat, n > 0, NEW axis \in [0..n - 1 -> Int]
      PROVE  /\ ArgMin(axis, v) \in 0..n - 1
             /\ \A l \in 0..n - 1 : Far(axis[ArgMin(axis, v)] - v) <= Far(axis[l] - v)
  BY <1>2, ArgMinFacts
<1> QED BY <1>1, <1>2, Zenon DEF Rows, Cols

(* Rows of a segment on an axis that descends.                             *)
LEMMA DownRows ==
    ASSUME NEW lo \in Int, NEW hi \in Int, NEW r \in Rows
    PROVE  /\ r \in ArgMin(Down, hi)..ArgMin(Down, lo) - 1 =>
                2 * (NR - 1 - r) > lo - 1 /\ 2 * (NR - 1 - r) <= hi + 1
           /\ r < NR - 1 /\ 2 * (NR - 1 - r) >= lo + 2 /\ 2 * (NR - 1 - r) <= hi =>
                r \in ArgMin(Down, hi)..ArgMin(Down, lo) - 1
<1> DEFINE k == ArgMin(Down, hi)
           m == ArgMin(Down, lo)
<1>1. /\ k \in Rows /\ \A l \in Rows : Far(Down[k] - hi) <= Far(Down[l] - hi)
      /\ m \in Rows /\ \A l \in Rows : Far(Down[m] - lo) <= Far(Down[l] - lo)
  BY NearestIndex, AxisFacts
<1> HIDE DEF k, m
<1>2. /\ \A l \in Rows : Far(2 * (NR - 1 - k) - hi) <= Far(2 * (NR - 1 - l) - hi)
      /\ \A l \in Rows : Far(2 * (NR - 1 - m) - lo) <= Far(2 * (NR - 1 - l) - lo)
  BY <1>1, AxisFacts
<1>3. /\ k \in Int /\ m \in Int /\ 0 <= k /\ k <= NR - 1 /\ 0 <= m /\ m <= NR - 1
      /\ r \in Int /\ 0 <= r /\ r <= NR - 1 /\ NR \in Nat
  BY <1>1, RowFacts
<1>4. ASSUME k <= r, r <= m - 1
      PROVE  2 * (NR - 1 - r) > lo - 1 /\ 2 * (NR - 1 - r) <= hi + 1
  <2>1. k + 1 \in Rows /\ m - 1 \in Rows
    BY <1>3, <1>4 DEF Rows
  <2>2. /\ Far(2 * (NR - 1 - k) - hi) <= Far(2 * (NR - 1 - (k + 1)) - hi)
        /\ Far(2 * (NR - 1 - m) - lo) <= Far(2 * (NR - 1 - (m - 1)) - lo)
    BY <1>2, <2>1
  <2>3. 2 * (NR - 1 - k) <= hi + 1
    BY <1>3, <2>2 DEF Far
  <2>4. 2 * (NR - 1 - m) > lo - 3
    BY <1>3, <2>2 DEF Far
  <2> QED BY <1>3, <1>4, <2>3, <2>4
<1>5. ASSUME r < NR - 1, 2 * (NR - 1 - r) >= lo + 2, 2 * (NR - 1 - r) <= hi
      PROVE  k <= r /\ r <= m - 1
  <2>1. r + 1 \in Rows
    BY <1>3, <1>5 DEF Rows
  <2>2. /\ Far(2 * (NR - 1 - k) - hi) <= Far(2 * (NR - 1 - r) - hi)
        /\ Far(2 * (NR - 1 - m) - lo) <= Far(2 * (NR - 1 - (r + 1)) - lo)
    BY <1>2, <2>1
  <2>3. k <= r
    BY <1>3, <1>5, <2>2 DEF Far
  <2>4. r <= m - 1
    BY <1>3, <1>5, <2>2 DEF Far
  <2> QED BY <2>3, <2>4
<1>6. r \in k..m - 1 <=> k <= r /\ r <= m - 1
  BY <1>3
<1> QED BY <1>4, <1>5, <1>6 DEF k, m

(* Columns.                                                                *)
LEMMA UpCols ==
    ASSUME NEW lo \in Int, NEW hi \in Int, NEW c \in Cols
    PROVE  /\ c \in ArgMin(XAxis, lo)..ArgMin(XAxis, hi) - 1 => 2 * c >= lo - 1 /\ 2 * c < hi + 1
           /\ c < NC - 1 /\ 2 * c >= lo /\ 2 * c <= hi - 2 =>
                c \in ArgMin(XAxis, lo)..ArgMin(XAxis, hi) - 1
<1> DEFINE k == ArgMin(XAxis, lo)
           m == ArgMin(XAxis, hi)
<1>1. /\ k \in Cols /\ \A l \in Cols : Far(XAxis[k] - lo) <= Far(XAxis[l] - lo)
      /\ m \in Cols /\ \A l \in Cols : Far(XAxis[m] - hi) <= Far(XAxis[l] - hi)
  BY NearestIndex, AxisFacts
<1> HIDE DEF k, m
<1>2. /\ \A l \in Cols : Far(2 * k - lo) <= Far(2 * l - lo)
      /\ \A l \in Cols : Far(2 * m - hi) <= Far(2 * l - hi)
  BY <1>1, AxisFacts
<1>3. /\ k \in Int /\ m \in Int /\ 0 <= k /\ k <= NC - 1 /\ 0 <= m /\ m <= NC - 1
      /\ c \in Int /\ 0 <= c /\ c <= NC - 1 /\ NC \in Nat
  BY <1>1, RowFacts
<1>4. ASSUME k <= c, c <= m - 1 PROVE 2 * c >= lo - 1 /\ 2 * c < hi + 1
  <2>1. k + 1 \in Cols /\ m - 1 \in Cols
    BY <1>3, <1>4 DEF Cols
  <2>2. /\ Far(2 * k - lo) <= Far(2 * (k + 1) - lo)
        /\ Far(2 * m - hi) <= Far(2 * (m - 1) - hi)
    BY <1>2, <2>1
  <2>3. 2 * k >= lo - 1
    BY <1>3, <2>2 DEF Far
  <2>4. 2 * m < hi + 3
    BY <1>3, <2>2 DEF Far
  <2> QED BY <1>3, <1>4, <2>3, <2>4
<1>5. ASSUME c < NC - 1, 2 * c >= lo, 2 * c <= hi - 2 PROVE k <= c /\ c <= m - 1
  <2>1. c + 1 \in Cols
    BY <1>3, <1>5 DEF Cols
  <2>2. /\ Far(2 * k - lo) <= Far(2 * c - lo)
        /\ Far(2 * m - hi) <= Far(2 * (c + 1) - hi)
    BY <1>2, <2>1
  <2>3. k <= c
    BY <1>3, <1>5, <2>2 DEF Far
  <2>4. c <= m - 1
    BY <1>3, <1>5, <2>2 DEF Far
  <2> QED BY <2>3, <2>4
<1>6. c \in k..m - 1 <=> k <= c /\ c <= m - 1
  BY <1>3
<1> QED BY <1>4, <1>5, <1>6 DEF k, m

(* Rows of a segment on an axis that ascends.                              *)
LEMMA UpRows ==
    ASSUME NEW lo \in Int, NEW hi \in Int, lo <= hi
    PROVE  ArgMin(Up, hi)..ArgMin(Up, lo) - 1 = {}
<1> DEFINE k == ArgMin(Up, hi)
           m == ArgMin(Up, lo)
<1>1. /\ k \in Rows /\ \A l \in Rows : Far(Up[k] - hi) <= Far(Up[l] - hi)
      /\ m \in Rows /\ \A l \in Rows : Far(Up[m] - lo) <= Far(Up[l] - lo)
  BY NearestIndex, AxisFacts
<1>2. lo = hi => k = m
  OBVIOUS
<1> HIDE DEF k, m
<1>3. /\ Far(2 * k - hi) <= Far(2 * m - hi) /\ Far(2 * m - lo) <= Far(2 * k - lo)
  BY <1>1, AxisFacts
<1>4. k \in Int /\ m \in Int
  BY <1>1, RowFacts
<1>5. k >= m
  BY <1>2, <1>3, <1>4 DEF Far
<1>6. k..m - 1 = {}
  BY <1>4, <1>5
<1> QED BY <1>6 DEF k, m

Gridded == {"dem", "slopes", "roughness"}

(* What a grid that is loaded has in memory.                               *)
InMemory ==
    obj.status = "ok" /\ cfg.class \in Gridded =>
      IF cfg.type = "nc" THEN obj.y = Up
      ELSE obj.y = Down /\ (~ZarrType => obj.z \in {TopFirst, NaNIn(TopFirst)})

SInv == CInv /\ InMemory /\ SegmentSound

LEMMA SameFiles ==
    ASSUME cfg' = cfg
    PROVE  TopFirst' = TopFirst /\ NaNIn(TopFirst)' = NaNIn(TopFirst) /\ ZarrType' = ZarrType
BY DEF NaNIn, TopFirst, Datum, ZarrType

LEMMA LoadInMemory ==
    ASSUME CInv, Loads
    PROVE  InMemory'
<1> USE DEF CInv
<1> SUFFICES ASSUME obj'.status = "ok", cfg'.class \in Gridded
             PROVE  (IF cfg.type = "nc" THEN obj.y = Up
                     ELSE obj.y = Down /\ (~ZarrType => obj.z \in {TopFirst, NaNIn(TopFirst)}))'
  BY DEF InMemory
<1>1. cfg' = cfg /\ cfg \in Setups
  <2>1. PICK array, missing, unopened :
          missing \in Bad /\ unopened \in Bad /\ LoadAs(array, missing, unopened)
    BY LoadIs
  <2> QED BY <2>1, LoadFacts DEF Types
<1>2. cfg.class \in {"dem", "roughness"} => cfg.type # "nc"
  BY <1>1, SetupFacts
<1>3. VoidToNaN(TopFirst) \in {TopFirst, NaNIn(TopFirst)}
  BY DEF VoidToNaN
<1>4. /\ Lazy.y = Down /\ Tif.y = Down /\ Npz.y = Down
      /\ Tif.z \in {TopFirst, NaNIn(TopFirst)} /\ Npz.z \in {TopFirst, NaNIn(TopFirst)}
  BY <1>3 DEF Lazy, Tif, Npz
<1>5. CASE DemLoad
  <2>1. LoadAs(DemArray, "empty", "raised") /\ cfg.class = "dem"
    BY <1>5 DEF DemLoad
  <2>2. obj'.y = DemArray.y /\ obj'.z = DemArray.z
    BY <2>1, LoadFacts DEF Bad
  <2>3. DemArray \in {Lazy, Tif, Npz} /\ (DemArray = Lazy => ZarrType \/ Lazy \in {Tif, Npz})
    BY DEF DemArray, ZarrType
  <2> QED BY <1>1, <1>2, <1>4, <2>1, <2>2, <2>3, SameFiles
<1>6. CASE SlopesLoad
  <2>1. LoadAs(SlopesArray, "empty", "raised") /\ cfg.class = "slopes"
    BY <1>6 DEF SlopesLoad
  <2>2. obj'.y = SlopesArray.y /\ obj'.z = SlopesArray.z
    BY <2>1, LoadFacts DEF Bad
  <2>3. CASE cfg.type = "nc"
    <3>1. SlopesArray.y = Up
      BY <2>3 DEF SlopesArray
    <3> QED BY <1>1, <2>2, <2>3, <3>1 DEF Up
  <2>4. CASE cfg.type # "nc"
    <3>1. SlopesArray = IF ZarrType THEN Lazy ELSE Tif
      BY <2>4 DEF SlopesArray, ZarrType
    <3> QED BY <1>1, <1>4, <2>2, <2>4, <3>1, SameFiles
  <2> QED BY <2>3, <2>4
<1>7. CASE RoughnessLoad
  <2>1. LoadAs(RoughnessArray, "raised", "empty") /\ cfg.class = "roughness"
    BY <1>7 DEF RoughnessLoad
  <2>2. obj'.y = RoughnessArray.y /\ obj'.z = RoughnessArray.z
    BY <2>1, LoadFacts DEF Bad
  <2>3. RoughnessArray = IF ZarrType THEN Lazy ELSE Tif
    BY DEF RoughnessArray, ZarrType
  <2> QED BY <1>1, <1>2, <1>4, <2>1, <2>2, <2>3, SameFiles
<1>8. CASE DhdtLoad \/ MaskLoad
  BY <1>1, <1>8 DEF DhdtLoad, MaskLoad, Gridded
<1> QED BY <1>5, <1>6, <1>7, <1>8 DEF Loads

(* A cell of the file is its own place, but for voids.                     *)
LEMMA CellFacts ==
    ASSUME NEW z \in {TopFirst, NaNIn(TopFirst)}, NEW r \in Rows, NEW c \in Cols
    PROVE  /\ z[r][c] \in Cells => z[r][c] = <<NR - 1 - r, c>>
           /\ <<NR - 1 - r, c>> \in Cells
           /\ <<NR - 1 - r, c>> \notin cfg.voids => z[r][c] = <<NR - 1 - r, c>>
           /\ NaN \notin Cells
<1> DEFINE p == <<NR - 1 - r, c>>
<1>1. p \in Cells /\ Void \notin Cells /\ NaN \notin Cells
  BY RowFacts DEF Cells, Void, NaN
<1>2. TopFirst[r][c] = Datum(p)
  BY DEF TopFirst
<1>3. NaNIn(TopFirst)[r][c] = IF TopFirst[r][c] = Void THEN NaN ELSE TopFirst[r][c]
  BY DEF NaNIn
<1> HIDE DEF p
<1>4. Datum(p) = IF p \in cfg.voids THEN Void ELSE p
  BY DEF Datum
<1>5. z[r][c] = TopFirst[r][c] \/ z[r][c] = NaNIn(TopFirst)[r][c]
  OBVIOUS
<1>6. /\ z[r][c] \in Cells => z[r][c] = p
      /\ p \notin cfg.voids => z[r][c] = p
  BY <1>1, <1>2, <1>3, <1>4, <1>5
<1> QED BY <1>1, <1>6 DEF p

(* A node is less than half the distance of two nodes from the centre of   *)
(* its cell.                                                               *)
LEMMA NodesNearby ==
    ASSUME NEW m \in Nat, m > 1, NEW n \in 0..m - 1, NEW v \in Int, NEW d \in Nat, Close(v, n, d)
    PROVE  Nearby(v, n, m, d + 1)
<1> DEFINE P == n * m
           Q == m * (v - 2 * n)
<1>1. m * v = Q + 2 * P
  OBVIOUS
<1>2. Centre(n, m) = 2 * P \/ Centre(n, m) = 2 * P - 2 * n + m - 1
  BY DEF Centre
<1>3. Q <= d * m /\ Q >= -(d * m)
  <2>1. v - 2 * n <= d /\ v - 2 * n >= -d
    BY DEF Close
  <2>2. \A a, b, c \in Int : a <= b /\ c >= 0 => c * a <= c * b
    OBVIOUS
  <2>3. m * (v - 2 * n) <= m * d /\ m * (-d) <= m * (v - 2 * n)
    BY <2>1, <2>2
  <2> QED BY <2>3
<1>4. (d + 1) * m = d * m + m
  OBVIOUS
<1> HIDE DEF P, Q
<1>5. P \in Int /\ Q \in Int /\ d * m \in Int
  BY DEF P, Q
<1>6. Centre(n, m) \in Int /\ Centre(n, m) - 2 * P \in 1 - m..m - 1
  BY <1>2, <1>5
<1> QED BY <1>1, <1>3, <1>4, <1>5, <1>6 DEF Nearby

LEMMA CellsNearby ==
    ASSUME NEW p \in Int \X Int, NEW c \in Cells, NEW d \in Nat,
           Close(p[1], c[1], d), Close(p[2], c[2], d)
    PROVE  OnGroundNear(p, c, d + 1)
BY NodesNearby, RowFacts DEF OnGroundNear, Cells, Rows, Cols

LEMMA SameGround ==
    ASSUME cfg' = cfg, NEW p, NEW c, NEW d
    PROVE  OnGroundNear(p, c, d)' = OnGroundNear(p, c, d)
BY DEF OnGroundNear, Nearby, Centre, Spanned

LEMMA SegmentIsSound ==
    ASSUME SInv, NEW b \in Bounds, Segments(b)
    PROVE  SegmentSound'
<1>1. /\ GetSegment(b) /\ cfg.class \in Gridded
  BY DEF Segments, DemSegment, SlopesSegment, RoughnessSegment, Gridded
<1>2. cfg' = cfg /\ obj' = obj
  BY <1>1, Zenon DEF GetSegment
<1> SUFFICES ASSUME Sound, ans'.op = "segment" PROVE SegmentSound'
  BY <1>2 DEF SegmentSound, Sound
<1> DEFINE z == IF ZarrType THEN zarr.z ELSE obj.z
           Item(i) == <<IF z[i[1]][i[2]] = NaN THEN NaNPoint
                        ELSE <<obj.y[i[1]], XAxis[i[2]]>>, z[i[1]][i[2]]>>
           I == SegmentRows(b) \X SegmentCols(b)
           val == {Item(i) : i \in I}
<1>3. obj.status = "ok"
  BY DEF Sound
<1>4. ans' = [op |-> "segment", at |-> b, val |-> val]
  BY <1>1, <1>3 DEF GetSegment
<1> HIDE DEF val
<1>5. ans'.at = b /\ ans'.val = val
  BY <1>4
<1>6. b[1] \in Int /\ b[2] \in Int /\ b[3] \in Int /\ b[4] \in Int /\ b[1] <= b[2]
  BY GridsAssumption
<1> DEFINE within == {c \in Cells : /\ c[1] > 0 /\ c[2] < NC - 1
                                    /\ 2 * c[1] >= b[1] + 2 /\ 2 * c[1] <= b[2]
                                    /\ 2 * c[2] >= b[3] /\ 2 * c[2] <= b[4] - 2}
           Good == cfg.type # "nc" =>
                     /\ \A e \in val : e[2] \in Cells =>
                          /\ e[1] = <<2 * e[2][1], 2 * e[2][2]>> /\ OnGroundNear(e[1], e[2], 1)
                          /\ e[1][1] > b[1] - 1 /\ e[1][1] <= b[2] + 1
                          /\ e[1][2] >= b[3] - 1 /\ e[1][2] < b[4] + 1
                     /\ \A c \in within \ cfg.voids : <<<<2 * c[1], 2 * c[2]>>, c>> \in val
<1>7. Good
  <2>2. CASE cfg.type # "nc"
    <3>1. obj.y = Down
      BY <1>1, <1>3, <2>2 DEF SInv, InMemory
    <3>2. z \in {TopFirst, NaNIn(TopFirst)}
      BY <1>1, <1>3, <2>2 DEF SInv, InMemory, CInv, Open, Full
    <3> HIDE DEF z
    <3>3. /\ SegmentRows(b) = ArgMin(Down, b[2])..ArgMin(Down, b[1]) - 1
          /\ SegmentCols(b) = ArgMin(XAxis, b[3])..ArgMin(XAxis, b[4]) - 1
      BY <3>1 DEF SegmentRows, SegmentCols
    <3>4. SegmentRows(b) \subseteq Rows /\ SegmentCols(b) \subseteq Cols
      <4>1. /\ ArgMin(Down, b[2]) \in Rows /\ ArgMin(Down, b[1]) \in Rows
            /\ ArgMin(XAxis, b[3]) \in Cols /\ ArgMin(XAxis, b[4]) \in Cols
        BY <1>6, NearestIndex, AxisFacts
      <4>2. \A k, l \in Rows : k..l - 1 \subseteq Rows
        BY RowFacts DEF Rows
      <4>3. \A k, l \in Cols : k..l - 1 \subseteq Cols
        BY RowFacts DEF Cols
      <4> QED BY <3>3, <4>1, <4>2, <4>3
    <3>5. ASSUME NEW e \in val, e[2] \in Cells
          PROVE  /\ e[1] = <<2 * e[2][1], 2 * e[2][2]>> /\ OnGroundNear(e[1], e[2], 1)
                 /\ e[1][1] > b[1] - 1 /\ e[1][1] <= b[2] + 1
                 /\ e[1][2] >= b[3] - 1 /\ e[1][2] < b[4] + 1
      <4>1. PICK i \in I : e = Item(i)
        BY DEF val
      <4>2. PICK r \in SegmentRows(b), c \in SegmentCols(b) : i = <<r, c>>
        BY <4>1
      <4>3. r \in Rows /\ c \in Cols
        BY <3>4
      <4>4. e = <<IF z[r][c] = NaN THEN NaNPoint ELSE <<Down[r], XAxis[c]>>, z[r][c]>>
        BY <3>1, <4>1, <4>2
      <4>5. e[2] = <<NR - 1 - r, c>> /\ z[r][c] # NaN
        BY <3>2, <3>5, <4>3, <4>4, CellFacts
      <4>6. e[1] = <<2 * (NR - 1 - r), 2 * c>>
        BY <4>3, <4>4, <4>5, AxisFacts
      <4>7. 2 * (NR - 1 - r) > b[1] - 1 /\ 2 * (NR - 1 - r) <= b[2] + 1
        BY <1>6, <3>3, <4>3, DownRows
      <4>8. 2 * c >= b[3] - 1 /\ 2 * c < b[4] + 1
        BY <1>6, <3>3, <4>3, UpCols
      <4>9. OnGroundNear(e[1], e[2], 1)
        <5>1. NR - 1 - r \in Rows /\ NR - 1 - r \in Int /\ c \in Int
          BY <4>3, RowFacts
        <5>2. /\ e[1] \in Int \X Int /\ Close(e[1][1], e[2][1], 0)
              /\ Close(e[1][2], e[2][2], 0)
          BY <4>5, <4>6, <5>1 DEF Close
        <5>3. OnGroundNear(e[1], e[2], 0 + 1)
          BY <3>5, <5>2, CellsNearby
        <5> QED BY <5>3
      <4> QED BY <4>5, <4>6, <4>7, <4>8, <4>9
    <3>6. ASSUME NEW p \in within \ cfg.voids PROVE <<<<2 * p[1], 2 * p[2]>>, p>> \in val
      <4>1. PICK y \in Rows, c \in Cols : p = <<y, c>>
        BY DEF Cells
      <4> DEFINE r == NR - 1 - y
      <4>2. r \in Rows /\ NR - 1 - r = y
        BY RowFacts
      <4>3. /\ y > 0 /\ c < NC - 1 /\ 2 * y >= b[1] + 2 /\ 2 * y <= b[2]
            /\ 2 * c >= b[3] /\ 2 * c <= b[4] - 2
        BY <4>1
      <4>4. r < NR - 1
        BY <4>3, RowFacts
      <4> HIDE DEF r
      <4>5. r \in SegmentRows(b)
        BY <1>6, <3>3, <4>2, <4>3, <4>4, DownRows
      <4>6. c \in SegmentCols(b)
        BY <1>6, <3>3, <4>3, UpCols
      <4>7. z[r][c] = p /\ z[r][c] # NaN
        BY <3>2, <4>1, <4>2, CellFacts
      <4>8. <<r, c>> \in I /\ Item(<<r, c>>) = <<<<obj.y[r], XAxis[c]>>, p>>
        BY <4>5, <4>6, <4>7
      <4>9. obj.y[r] = 2 * y /\ XAxis[c] = 2 * c
        BY <3>1, <4>2, AxisFacts
      <4>10. Item(<<r, c>>) = <<<<2 * p[1], 2 * p[2]>>, p>>
        BY <4>1, <4>8, <4>9
      <4> HIDE DEF Item, I
      <4> QED BY <4>8, <4>10 DEF val
    <3> QED BY <2>2, <3>5, <3>6
  <2> QED BY <2>2
<1>8. \A p, c : OnGroundNear(p, c, 1)' = OnGroundNear(p, c, 1)
  BY <1>2, SameGround
<1> HIDE DEF within
<1> QED BY <1>2, <1>5, <1>7, <1>8 DEF SegmentSound, within

LEMMA InitSInv == Init => SInv
<1> SUFFICES ASSUME Init PROVE SInv
  OBVIOUS
<1>1. obj.status = "new" /\ ans.op = "none"
  BY DEF Init, Unloaded, NoAnswer
<1> QED BY <1>1, InitCInv DEF SInv, InMemory, SegmentSound

LEMMA NextSInv == SInv /\ [Next]_vars => SInv'
<1> SUFFICES ASSUME SInv, [Next]_vars PROVE SInv'
  OBVIOUS
<1>1. CInv /\ CInv'
  BY NextCInv DEF SInv
<1>2. ASSUME cfg' = cfg, obj' = obj PROVE InMemory'
  BY <1>2, SameFiles DEF SInv, InMemory, Up, Down
<1>3. ASSUME ans'.op # "segment" PROVE SegmentSound'
  BY <1>3 DEF SegmentSound
<1>4. CASE UNCHANGED vars
  <2>1. cfg' = cfg /\ obj' = obj /\ ans' = ans
    BY <1>4 DEF vars
  <2>2. \A p, c : OnGroundNear(p, c, 1)' = OnGroundNear(p, c, 1)
    BY <2>1, SameGround
  <2>3. SegmentSound'
    BY <2>1, <2>2 DEF SInv, SegmentSound, Sound
  <2> QED BY <1>1, <1>2, <2>1, <2>3 DEF SInv
<1>5. CASE \/ ConvStart \/ RemoveSome \/ RemoveRest \/ ExtentRejected \/ OpenArrays
           \/ WriteWindow \/ SaveMetadata \/ Kill
  <2>1. cfg' = cfg /\ ans' = NoAnswer /\ (obj' = obj \/ obj' = Touched)
    BY <1>5 DEF ConvStart, RemoveSome, RemoveRest, ExtentRejected, OpenArrays, WriteWindow,
                SaveMetadata, Kill
  <2>2. obj'.status = obj.status /\ obj'.y = obj.y /\ obj'.z = obj.z
    BY <1>1, <2>1 DEF CInv, Types, Touched, ObjFields
  <2>3. InMemory'
    BY <2>1, <2>2, SameFiles DEF SInv, InMemory, Up, Down
  <2> QED BY <1>1, <1>3, <2>1, <2>3 DEF SInv, NoAnswer
<1>6. CASE Loads
  <2>1. ans' = ans /\ obj.status = "new"
    BY <1>1, <1>6, LoadIs, LoadFacts DEF CInv
  <2>2. ans'.op = "none"
    BY <1>1, <2>1 DEF CInv, Types
  <2> QED BY <1>1, <1>3, <1>6, <2>2, LoadInMemory DEF SInv
<1>7. CASE CleanUps
  <2>1. obj'.status = "closed" /\ ans' = NoAnswer
    BY <1>1, <1>7, CleanUpFacts
  <2> QED BY <1>1, <1>3, <2>1 DEF SInv, InMemory, NoAnswer
<1>8. CASE Points
  BY <1>1, <1>2, <1>3, <1>8, QuestionFacts DEF SInv
<1>9. CASE \E b \in Bounds : Segments(b)
  BY <1>1, <1>2, <1>9, QuestionFacts, SegmentIsSound DEF SInv
<1> QED BY <1>4, <1>5, <1>6, <1>7, <1>8, <1>9, NextCases

(* get_segment() of a grid whose rows descend returns each value with the  *)
(* coordinates of its node, less than half the distance of two nodes from  *)
(* the centre of its cell on the ground, nothing from further than that    *)
(* outside the bounds, and every inner cell within them but one at the     *)
(* lower and the right side, for any grid and any bounds (dems.py:126-166, *)
(* 338-343, 853-899).                                                      *)
THEOREM SegmentsAreSound == Spec => []SegmentSound
<1>1. SInv => SegmentSound
  BY DEF SInv
<1> QED BY <1>1, InitSInv, NextSInv, PTL DEF Spec
-----------------------------------------------------------------------------
(* Extremes of sets of numbers.                                            *)

LEMMA FiniteHasExtremes ==
    ASSUME NEW S, S \subseteq Int, S # {}, IsFiniteSet(S)
    PROVE  /\ \E x \in S : \A y \in S : x <= y
           /\ \E x \in S : \A y \in S : x >= y
<1> DEFINE Has(T) == /\ \E x \in T : \A y \in T : x <= y
                     /\ \E x \in T : \A y \in T : x >= y
           Wrong == {n \in Nat : \E T \in SUBSET Int :
                       T # {} /\ IsFiniteSet(T) /\ Cardinality(T) = n /\ ~Has(T)}
<1> SUFFICES ASSUME ~Has(S) PROVE FALSE
  OBVIOUS
<1>1. Cardinality(S) \in Wrong
  BY FS_CardinalityType
<1>2. PICK n \in Wrong : \A m \in Wrong : n <= m
  BY <1>1, SmallestExists
<1>3. PICK T \in SUBSET Int : T # {} /\ IsFiniteSet(T) /\ Cardinality(T) = n /\ ~Has(T)
  OBVIOUS
<1>4. PICK x \in T : TRUE
  BY <1>3
<1> DEFINE U == T \ {x}
<1>5. IsFiniteSet(U) /\ Cardinality(U) = n - 1 /\ Cardinality(U) \in Nat
  BY <1>3, FS_RemoveElement, FS_CardinalityType
<1>6. U # {}
  BY <1>3
<1>7. U \in SUBSET Int /\ T = U \cup {x} /\ x \in Int /\ n \in Nat
  OBVIOUS
<1>8. Has(U)
  <2> SUFFICES ASSUME ~Has(U) PROVE FALSE
    OBVIOUS
  <2> HIDE DEF U, Has
  <2>1. Cardinality(U) \in Wrong
    BY <1>5, <1>6, <1>7
  <2>2. n <= n - 1
    BY <1>2, <1>5, <2>1
  <2> QED BY <1>7, <2>2
<1>9. PICK lo \in U : \A y \in U : lo <= y
  BY <1>8
<1>10. PICK hi \in U : \A y \in U : hi >= y
  BY <1>8
<1>11. \E a \in T : \A y \in T : a <= y
  <2>1. CASE x <= lo
    BY <1>7, <1>9, <2>1
  <2>2. CASE lo <= x
    BY <1>7, <1>9, <2>2
  <2> QED BY <1>7, <1>9, <2>1, <2>2
<1>12. \E a \in T : \A y \in T : a >= y
  <2>1. CASE x >= hi
    BY <1>7, <1>10, <2>1
  <2>2. CASE hi >= x
    BY <1>7, <1>10, <2>2
  <2> QED BY <1>7, <1>10, <2>1, <2>2
<1> QED BY <1>3, <1>11, <1>12

LEMMA Extremes ==
    ASSUME NEW S, S \subseteq Int, S # {}, IsFiniteSet(S)
    PROVE  /\ Min(S) \in S /\ \A y \in S : Min(S) <= y
           /\ Max(S) \in S /\ \A y \in S : Max(S) >= y
BY FiniteHasExtremes DEF Min, Max

LEMMA OfTwo ==
    ASSUME NEW a \in Int, NEW b \in Int
    PROVE  /\ Max({a, b}) = IF a >= b THEN a ELSE b
           /\ Min({a, b}) = IF a <= b THEN a ELSE b
<1>1. IsFiniteSet({a, b}) /\ {a, b} # {} /\ {a, b} \subseteq Int
  <2>1. {a, b} = {a} \cup {b}
    OBVIOUS
  <2>2. IsFiniteSet({a}) /\ IsFiniteSet({b})
    BY FS_Singleton
  <2>3. IsFiniteSet({a} \cup {b})
    BY <2>2, FS_Union
  <2> QED BY <2>1, <2>3
<1>2. /\ Max({a, b}) \in {a, b} /\ Max({a, b}) >= a /\ Max({a, b}) >= b
      /\ Min({a, b}) \in {a, b} /\ Min({a, b}) <= a /\ Min({a, b}) <= b
  BY <1>1, Extremes
<1> QED BY <1>2
-----------------------------------------------------------------------------
(* Axes: the coordinates of a part of the nodes.                           *)

Evens(a, b) == {2 * n : n \in a..b}

LEMMA EvensFacts ==
    ASSUME NEW a \in Nat, NEW b \in Nat, a <= b
    PROVE  /\ Evens(a, b) \subseteq Nat /\ 2 * a \in Evens(a, b) /\ 2 * b \in Evens(a, b)
           /\ \A e \in Evens(a, b) : 2 * a <= e /\ e <= 2 * b
           /\ \A S \in SUBSET Evens(a, b) : IsFiniteSet(S)
<1>1. \A e \in Evens(a, b) : \E n \in a..b : e = 2 * n
  BY DEF Evens
<1>2. Evens(a, b) \subseteq 0..2 * b
  BY <1>1
<1>3. IsFiniteSet(0..2 * b)
  BY FS_Interval
<1>4. \A S \in SUBSET Evens(a, b) : IsFiniteSet(S)
  BY <1>2, <1>3, FS_Subset
<1>5. a \in a..b /\ b \in a..b
  OBVIOUS
<1> QED BY <1>1, <1>4, <1>5 DEF Evens

LEMMA OutsideFacts ==
    ASSUME NEW axis, NEW a \in Nat, NEW b \in Nat, a <= b, Coords(axis) = Evens(a, b),
           NEW v \in Int
    PROVE  Outside(axis, v) <=> v < 2 * a \/ v > 2 * b
<1> DEFINE E == Evens(a, b)
           lo == Min(E)
           hi == Max(E)
<1>1. /\ E \subseteq Nat /\ 2 * a \in E /\ 2 * b \in E /\ IsFiniteSet(E)
      /\ \A e \in E : 2 * a <= e /\ e <= 2 * b
  BY EvensFacts
<1>2. Outside(axis, v) <=> v < lo \/ v > hi
  BY DEF Outside
<1> HIDE DEF E
<1>3. lo \in E /\ lo <= 2 * a /\ hi \in E /\ hi >= 2 * b
  <2>1. E \subseteq Int /\ E # {}
    BY <1>1
  <2> QED BY <1>1, <2>1, Extremes
<1> HIDE DEF lo, hi
<1>4. lo \in Nat /\ hi \in Nat /\ lo = 2 * a /\ hi = 2 * b
  BY <1>1, <1>3
<1> QED BY <1>2, <1>4

(* The interval is close to the point, and has all that is next to it.     *)
LEMMA IntervalFacts ==
    ASSUME NEW axis, NEW a \in Nat, NEW b \in Nat, a <= b, Coords(axis) = Evens(a, b),
           NEW v \in Int, 2 * a <= v, v <= 2 * b
    PROVE  /\ \A e \in Interval(axis, v) : \E n \in a..b : e = 2 * n /\ Close(v, n, 2)
           /\ \A n \in a..b : Close(v, n, 1) => 2 * n \in Interval(axis, v)
<1> DEFINE E == Evens(a, b)
           lower == {x \in E : x <= v /\ \E y \in E : y > x}
           lo == IF lower = {} THEN Min(E) ELSE Max(lower)
           upper == {y \in E : y > lo}
           I == {lo} \cup (IF upper = {} THEN {} ELSE {Min(upper)})
<1>1. Interval(axis, v) = I
  BY DEF Interval
<1>2. /\ \A e \in E : \E n \in a..b : e = 2 * n
      /\ \A n \in a..b : 2 * n \in E
  BY DEF Evens
<1>3. E \subseteq Nat /\ \A S \in SUBSET E : IsFiniteSet(S)
  BY EvensFacts
<1> HIDE DEF E
<1>4. CASE a = b
  <2>1. E = {2 * a}
    BY <1>2, <1>4
  <2>2. lower = {}
    BY <2>1
  <2>3. lo = 2 * a
    BY <2>1, <2>2, <1>3, Extremes
  <2>4. upper = {}
    BY <2>1, <2>3
  <2>5. I = {2 * a}
    <3> HIDE DEF lo, upper
    <3> QED BY <2>3, <2>4
  <2> HIDE DEF I, lo, upper, lower
  <2>6. v = 2 * a
    BY <1>4
  <2> QED BY <1>1, <1>4, <2>5, <2>6 DEF Close
<1>5. CASE a < b
  <2>1. PICK k \in Int : 2 * k <= v /\ v <= 2 * k + 1
    <3>1. v = 2 * (v \div 2) \/ v = 2 * (v \div 2) + 1
      OBVIOUS
    <3>2. v \div 2 \in Int
      OBVIOUS
    <3> QED BY <3>1, <3>2
  <2> DEFINE j == IF k < b THEN k ELSE b - 1
  <2>2. j \in a..b /\ j + 1 \in a..b /\ 2 * j <= v /\ v <= 2 * j + 2 /\ j \in Nat
    BY <1>5, <2>1
  <2>3. \A n \in a..b : 2 * n <= v /\ n < b => n <= j
    BY <2>1
  <2> HIDE DEF j
  <2>4. 2 * j \in lower
    <3>1. 2 * j \in E /\ 2 * (j + 1) \in E
      BY <1>2, <2>2, Zenon
    <3>2. 2 * (j + 1) > 2 * j
      BY <2>2
    <3> QED BY <2>2, <3>1, <3>2
  <2>5. \A x \in lower : x <= 2 * j
    <3> TAKE x \in lower
    <3>1. PICK n \in a..b : x = 2 * n
      BY <1>2
    <3>2. PICK y \in E : y > x
      OBVIOUS
    <3>3. PICK m \in a..b : y = 2 * m
      BY <1>2
    <3>4. n < b
      BY <3>1, <3>2, <3>3
    <3> QED BY <2>2, <2>3, <3>1, <3>4
  <2>6. lo = 2 * j
    <3>0. lower \in SUBSET E
      OBVIOUS
    <3>1. lo = Max(lower) /\ lower \subseteq Int /\ lower # {} /\ IsFiniteSet(lower)
      <4> HIDE DEF lower
      <4>1. lower # {}
        BY <2>4
      <4>2. lower \subseteq Int /\ IsFiniteSet(lower)
        <5> HIDE DEF lo
        <5> QED BY <1>3, <3>0
      <4> QED BY <4>1, <4>2
    <3>2. Max(lower) \in lower /\ Max(lower) >= 2 * j
      BY <2>4, <3>1, Extremes
    <3>3. Max(lower) <= 2 * j /\ Max(lower) \in Int
      BY <2>5, <3>1, <3>2
    <3> HIDE DEF lower, lo
    <3> QED BY <2>2, <3>1, <3>2, <3>3
  <2> HIDE DEF lo
  <2>7. 2 * j + 2 \in upper /\ \A y \in upper : y >= 2 * j + 2
    <3>0. 2 * (j + 1) \in E
      BY <1>2, <2>2, Zenon
    <3>1. 2 * (j + 1) \in E /\ 2 * (j + 1) > 2 * j /\ 2 * (j + 1) = 2 * j + 2
      BY <2>2, <3>0
    <3>2. ASSUME NEW y \in upper PROVE y >= 2 * j + 2
      <4>1. PICK n \in a..b : y = 2 * n
        BY <1>2
      <4> QED BY <2>2, <2>6, <4>1
    <3> QED BY <2>6, <3>1, <3>2
  <2>8. Min(upper) = 2 * j + 2
    <3>0. upper \in SUBSET E
      OBVIOUS
    <3>1. upper \subseteq Int /\ upper # {} /\ IsFiniteSet(upper)
      <4> HIDE DEF upper
      <4> QED BY <1>3, <2>7, <3>0
    <3>2. Min(upper) \in upper /\ Min(upper) <= 2 * j + 2
      BY <2>7, <3>1, Extremes
    <3>3. Min(upper) \in Int
      BY <3>1, <3>2
    <3> HIDE DEF upper
    <3> QED BY <2>2, <2>7, <3>2, <3>3
  <2>9. I = {2 * j, 2 * j + 2}
    BY <2>6, <2>7, <2>8
  <2> HIDE DEF I
  <2>10. Close(v, j, 2) /\ Close(v, j + 1, 2)
    BY <2>2 DEF Close
  <2>11. \A n \in a..b : Close(v, n, 1) => n = j \/ n = j + 1
    BY <2>2 DEF Close
  <2>12. 2 * (j + 1) = 2 * j + 2
    BY <2>2
  <2> QED BY <1>1, <2>2, <2>9, <2>10, <2>11, <2>12
<1> QED BY <1>4, <1>5

(* The nearest coordinate is next to the point.                            *)
LEMMA NearFacts ==
    ASSUME NEW axis, NEW a \in Nat, NEW b \in Nat, a <= b, Coords(axis) = Evens(a, b),
           NEW v \in Int, 2 * a <= v, v <= 2 * b
    PROVE  \E n \in a..b : Near(axis, v) = 2 * n /\ Close(v, n, 1)
<1> DEFINE E == Evens(a, b)
           N == {x \in E : \A y \in E : (x - v) * (x - v) <= (y - v) * (y - v)}
<1>1. Near(axis, v) = Min(N)
  BY DEF Near
<1>2. /\ \A e \in E : \E n \in a..b : e = 2 * n
      /\ \A n \in a..b : 2 * n \in E
  BY DEF Evens
<1>3. E \subseteq Nat
  BY EvensFacts
<1> HIDE DEF E
<1>4. PICK k \in a..b : Close(v, k, 1)
  <2>1. v = 2 * (v \div 2) \/ v = 2 * (v \div 2) + 1
    OBVIOUS
  <2>2. v \div 2 \in a..b
    OBVIOUS
  <2>3. Close(v, v \div 2, 1)
    BY <2>1 DEF Close
  <2> QED BY <2>2, <2>3
<1>5. 2 * k \in N
  <2>1. ASSUME NEW y \in E PROVE (2 * k - v) * (2 * k - v) <= (y - v) * (y - v)
    <3>1. PICK n \in a..b : y = 2 * n
      BY <1>2
    <3>2. Far(2 * k - v) <= Far(y - v)
      BY <1>4, <3>1 DEF Far, Close
    <3> QED BY <3>1, <3>2, SquaresCompare
  <2> QED BY <1>2, <2>1
<1>6. Min(N) \in N
  <2>1. N \subseteq Nat /\ N # {}
    BY <1>3, <1>5
  <2> QED BY <2>1, MinFacts
<1>7. PICK n \in a..b : Min(N) = 2 * n
  BY <1>2, <1>6
<1>8. (2 * n - v) * (2 * n - v) <= (2 * k - v) * (2 * k - v)
  BY <1>2, <1>6, <1>7
<1>9. Far(2 * n - v) <= Far(2 * k - v)
  BY <1>8, SquaresCompare
<1>10. Close(v, n, 1)
  BY <1>4, <1>9 DEF Close, Far
<1> QED BY <1>1, <1>7, <1>10

(* searchsorted(): the number of nodes below the point.                    *)
LEMMA SearchFacts ==
    ASSUME NEW N \in Nat, NEW axis, axis = [k \in 0..N - 1 |-> 2 * k], NEW v \in Int
    PROVE  /\ SearchSorted(axis, v) \in 0..N
           /\ \A k \in 0..N - 1 : k < SearchSorted(axis, v) <=> 2 * k < v
<1> DEFINE h == (v + 1) \div 2
           s == IF v <= 0 THEN 0 ELSE IF h <= N THEN h ELSE N
           last == s - 1
           zero == 0
<1>1. h \in Int /\ (v = 2 * h \/ v = 2 * h - 1)
  OBVIOUS
<1> HIDE DEF h
<1>2. s \in 0..N /\ \A k \in 0..N - 1 : k < s <=> 2 * k < v
  BY <1>1
<1>3. {k \in DOMAIN axis : axis[k] < v} = 0..last
  BY <1>2
<1>4. last \in Int /\ zero \in Int /\ s = last + 1
  BY <1>2
<1> HIDE DEF s, last, zero
<1>5. Cardinality(zero..last) = IF zero > last THEN 0 ELSE last - zero + 1
  BY <1>4, FS_Interval
<1>6. (IF zero > last THEN 0 ELSE last - zero + 1) = s
  BY <1>2, <1>4 DEF zero
<1>7. SearchSorted(axis, v) = s
  BY <1>3, <1>5, <1>6 DEF SearchSorted, zero
<1> QED BY <1>2, <1>7

(* The nodes of an axis that are next to a coordinate on the ground.       *)
Covers(a, b, v, last) ==
    /\ 2 * a <= v /\ v <= 2 * b
    /\ \A n \in 0..last : Close(v, n, 1) => n \in a..b

(* The part of the store that is read has all nodes that are next to a     *)
(* point.                                                                  *)
LEMMA ChunkFacts ==
    ASSUME NEW N \in Nat, N > 1, NEW axis, axis = [k \in 0..N - 1 |-> 2 * k],
           NEW vs, vs \subseteq Int, IsFiniteSet(vs), NEW v \in vs
    PROVE  \E a, b \in 0..N - 1 :
             /\ a <= b /\ Chunk(axis, vs, N) = a..b
             /\ 0 <= v /\ v <= 2 * (N - 1) => Covers(a, b, v, N - 1)
<1> DEFINE lo == Min(vs)
           hi == Max(vs)
           s == SearchSorted(axis, lo)
           t == SearchSorted(axis, hi)
<1>1. lo \in Int /\ hi \in Int /\ lo <= v /\ v <= hi /\ v \in Int
  BY Extremes
<1> HIDE DEF lo, hi
<1>2. /\ s \in 0..N /\ \A k \in 0..N - 1 : k < s <=> 2 * k < lo
      /\ t \in 0..N /\ \A k \in 0..N - 1 : k < t <=> 2 * k < hi
  BY <1>1, SearchFacts
<1>3. Chunk(axis, vs, N) = Max({s - 1, 0})..Min({t + 1, N - 1})
  BY DEF Chunk, lo, hi
<1> HIDE DEF s, t
<1> DEFINE a == IF s - 1 >= 0 THEN s - 1 ELSE 0
           b == IF t + 1 <= N - 1 THEN t + 1 ELSE N - 1
<1>4. Max({s - 1, 0}) = a /\ Min({t + 1, N - 1}) = b
  <2>1. s - 1 \in Int /\ t + 1 \in Int /\ N - 1 \in Int /\ 0 \in Int
    BY <1>2
  <2> QED BY <2>1, OfTwo
<1>5. s - 1 <= t
  <2>1. CASE s > 0
    <3>1. s - 1 \in 0..N - 1 /\ s - 1 < s
      BY <1>2, <2>1
    <3>2. 2 * (s - 1) < lo
      BY <1>2, <3>1
    <3>3. s - 1 < t
      BY <1>1, <1>2, <3>1, <3>2
    <3> QED BY <1>2, <3>3
  <2> QED BY <1>2, <2>1
<1>6. a \in 0..N - 1 /\ b \in 0..N - 1 /\ a <= b
  BY <1>2, <1>5
<1>7. ASSUME 0 <= v, v <= 2 * (N - 1)
      PROVE  2 * a <= v /\ v <= 2 * b
  <2>1. 2 * a <= v
    <3>1. CASE s > 0
      <4>1. s - 1 \in 0..N - 1 /\ s - 1 < s
        BY <1>2, <3>1
      <4>2. 2 * (s - 1) < lo
        BY <1>2, <4>1
      <4> QED BY <1>1, <1>2, <3>1, <4>2
    <3> QED BY <1>2, <1>7, <3>1
  <2>2. v <= 2 * b
    <3>1. CASE t + 1 <= N - 1
      <4>1. t \in 0..N - 1 /\ ~(t < t)
        BY <1>2, <3>1
      <4>2. ~(2 * t < hi)
        BY <1>2, <4>1
      <4> QED BY <1>1, <1>2, <3>1, <4>2
    <3> QED BY <1>2, <1>7, <3>1
  <2> QED BY <2>1, <2>2
<1>8. ASSUME NEW n \in 0..N - 1, Close(v, n, 1)
      PROVE  n \in a..b
  <2>1. 2 * n - v <= 1 /\ 2 * n - v >= -1
    BY <1>1, <1>8 DEF Close
  <2>2. s - 1 <= n
    <3> SUFFICES ASSUME n + 1 < s PROVE FALSE
      BY <1>2
    <3>1. n + 1 \in 0..N - 1
      BY <1>2
    <3>2. 2 * (n + 1) < lo
      BY <1>2, <3>1
    <3> QED BY <1>1, <2>1, <3>2
  <2>3. n <= t + 1
    <3> SUFFICES ASSUME t < n - 1 PROVE FALSE
      BY <1>2
    <3>1. n - 1 \in 0..N - 1 /\ ~(n - 1 < t)
      BY <1>2
    <3>2. ~(2 * (n - 1) < hi)
      BY <1>2, <3>1
    <3> QED BY <1>1, <2>1, <3>2
  <2> QED BY <1>2, <2>2, <2>3
<1> HIDE DEF a, b
<1>9. 0 <= v /\ v <= 2 * (N - 1) => Covers(a, b, v, N - 1)
  BY <1>7, <1>8 DEF Covers
<1> QED BY <1>3, <1>4, <1>6, <1>9
-----------------------------------------------------------------------------
(* Interpolation.  An answer is made of what the array has for the places   *)
(* around the point.                                                       *)

(* What an array has for each place: its datum, or NaN when it is void.    *)
Reads(g) == \A k \in Cells : g[k] = Datum(k) \/ (g[k] = NaN /\ k \in cfg.voids)

LinearExact(p, val) ==
    IF ~OnGround(p) THEN val = {NaN}
    ELSE \/ val = {NaN} /\ Around4(p, 2) \cap cfg.voids # {}
         \/ val = {Datum(k) : k \in Around4(p, 1)}

LEMMA CellParts ==
    /\ \A k \in Cells : k[1] \in Rows /\ k[2] \in Cols /\ k = <<k[1], k[2]>>
    /\ \A r \in Rows, c \in Cols : <<r, c>> \in Cells
    /\ Void \notin Cells /\ NaN \notin Cells /\ Fill \notin Cells /\ Unknown \notin Cells
    /\ Void # NaN /\ Fill # NaN /\ Void # Fill
    /\ \A k \in Cells : Datum(k) \in {k, Void} /\ Datum(k) # NaN
    /\ ~OnGround(NaNPoint)
<1>1. /\ \A k \in Cells : k[1] \in Rows /\ k[2] \in Cols /\ k = <<k[1], k[2]>>
      /\ \A r \in Rows, c \in Cols : <<r, c>> \in Cells
  BY DEF Cells
<1>2. /\ Void \notin Cells /\ NaN \notin Cells /\ Fill \notin Cells /\ Unknown \notin Cells
      /\ Void # NaN /\ Fill # NaN /\ Void # Fill
  BY RowFacts DEF Cells, Void, NaN, Fill, Unknown
<1>3. \A k \in Cells : Datum(k) \in {k, Void} /\ Datum(k) # NaN
  BY <1>2 DEF Datum
<1>4. ~OnGround(NaNPoint)
  BY DEF OnGround, NaNPoint
<1> QED BY <1>1, <1>2, <1>3, <1>4

LEMMA LinearFacts ==
    ASSUME NEW g, Reads(g), NEW ys, NEW xs, NEW z, NEW p \in Int \X Int,
           NEW a \in Rows, NEW b \in Rows, a <= b, Coords(ys) = Evens(a, b),
           NEW c \in Cols, NEW d \in Cols, c <= d, Coords(xs) = Evens(c, d),
           \A n \in a..b, m \in c..d : z[At(ys, 2 * n)][At(xs, 2 * m)] = g[<<n, m>>],
           OnGround(p) => Covers(a, b, p[1], NR - 1) /\ Covers(c, d, p[2], NC - 1)
    PROVE  /\ LinearExact(p, Linear(ys, xs, z, p))
           /\ \A e \in Linear(ys, xs, z, p) : e = NaN \/ \E k \in Cells : e = g[k]
<1> DEFINE V == Interval(ys, p[1])
           U == Interval(xs, p[2])
           value(k) == z[At(ys, k[1])][At(xs, k[2])]
           weighs(k) == k[1] - p[1] \in -1..1 /\ k[2] - p[2] \in -1..1
           val == Linear(ys, xs, z, p)
<1>1. /\ a \in Nat /\ b \in Nat /\ c \in Nat /\ d \in Nat /\ b <= NR - 1 /\ d <= NC - 1
      /\ NR \in Nat /\ NC \in Nat /\ p[1] \in Int /\ p[2] \in Int
  BY RowFacts
<1>2. /\ Outside(ys, p[1]) <=> p[1] < 2 * a \/ p[1] > 2 * b
      /\ Outside(xs, p[2]) <=> p[2] < 2 * c \/ p[2] > 2 * d
  BY <1>1, OutsideFacts
<1>3. val = IF p = NaNPoint \/ Outside(ys, p[1]) \/ Outside(xs, p[2])
               \/ \E k \in V \X U : value(k) = NaN
            THEN {NaN}
            ELSE {value(k) : k \in {h \in V \X U : weighs(h)}}
  BY DEF Linear
<1> HIDE DEF val, V, U
<1>4. CASE ~OnGround(p)
  <2>1. Outside(ys, p[1]) \/ Outside(xs, p[2])
    BY <1>1, <1>2, <1>4 DEF OnGround
  <2>2. val = {NaN}
    BY <1>3, <2>1
  <2> QED BY <1>4, <2>2 DEF val, LinearExact
<1>5. CASE OnGround(p)
  <2>1. p # NaNPoint
    BY <1>5, CellParts
  <2>2. /\ 2 * a <= p[1] /\ p[1] <= 2 * b /\ 2 * c <= p[2] /\ p[2] <= 2 * d
        /\ \A n \in 0..NR - 1 : Close(p[1], n, 1) => n \in a..b
        /\ \A n \in 0..NC - 1 : Close(p[2], n, 1) => n \in c..d
    BY <1>5 DEF Covers
  <2>3. ~Outside(ys, p[1]) /\ ~Outside(xs, p[2])
    BY <1>1, <1>2, <2>2
  <2>4. /\ \A e \in V : \E n \in a..b : e = 2 * n /\ Close(p[1], n, 2)
        /\ \A n \in a..b : Close(p[1], n, 1) => 2 * n \in V
    BY <1>1, <2>2, IntervalFacts DEF V
  <2>5. /\ \A e \in U : \E n \in c..d : e = 2 * n /\ Close(p[2], n, 2)
        /\ \A n \in c..d : Close(p[2], n, 1) => 2 * n \in U
    BY <1>1, <2>2, IntervalFacts DEF U
  <2>6. ASSUME NEW k \in V \X U
        PROVE  \E n \in a..b, m \in c..d :
                 /\ k[1] = 2 * n /\ k[2] = 2 * m /\ value(k) = g[<<n, m>>]
                 /\ <<n, m>> \in Around4(p, 2)
                 /\ weighs(k) <=> <<n, m>> \in Around4(p, 1)
    <3>1. PICK n \in a..b : k[1] = 2 * n /\ Close(p[1], n, 2)
      BY <2>4
    <3>2. PICK m \in c..d : k[2] = 2 * m /\ Close(p[2], m, 2)
      BY <2>5
    <3>3. value(k) = g[<<n, m>>]
      BY <3>1, <3>2
    <3>4. n \in Rows /\ m \in Cols
      BY <1>1 DEF Rows, Cols
    <3>5. <<n, m>> \in Cells
      BY <3>4, CellParts
    <3>6. weighs(k) <=> Close(p[1], n, 1) /\ Close(p[2], m, 1)
      BY <3>1, <3>2 DEF Close
    <3> HIDE DEF value, weighs
    <3> QED BY <3>1, <3>2, <3>3, <3>5, <3>6 DEF Around4
  <2>7. ASSUME NEW k \in Around4(p, 1)
        PROVE  \E h \in V \X U : weighs(h) /\ value(h) = g[k] /\ k \in Cells
    <3>1. k \in Cells /\ Close(p[1], k[1], 1) /\ Close(p[2], k[2], 1)
      BY DEF Around4
    <3>2. k[1] \in a..b /\ k[2] \in c..d /\ k = <<k[1], k[2]>>
      BY <2>2, <3>1, CellParts DEF Rows, Cols
    <3> DEFINE h == <<2 * k[1], 2 * k[2]>>
    <3>3. h \in V \X U
      BY <2>4, <2>5, <3>1, <3>2
    <3>4. value(h) = g[k]
      <4>1. h[1] = 2 * k[1] /\ h[2] = 2 * k[2]
        OBVIOUS
      <4> QED BY <3>2, <4>1
    <3>5. weighs(h)
      BY <3>1 DEF Close
    <3> QED BY <3>1, <3>3, <3>4, <3>5
  <2>8. ASSUME NEW k \in V \X U
        PROVE  \E i \in Around4(p, 2) :
                 value(k) = g[i] /\ (weighs(k) <=> i \in Around4(p, 1))
    BY <2>6
  <2> HIDE DEF value, weighs
  <2>9. Around4(p, 1) \subseteq Cells /\ Around4(p, 2) \subseteq Cells
    BY DEF Around4
  <2>10. CASE \E k \in V \X U : value(k) = NaN
    <3>1. val = {NaN}
      BY <1>3, <2>10
    <3>2. PICK i \in Around4(p, 2) : g[i] = NaN
      BY <2>8, <2>10
    <3>3. i \in cfg.voids
      BY <2>9, <3>2, CellParts DEF Reads
    <3> QED BY <1>5, <3>1, <3>3 DEF val, LinearExact
  <2>11. CASE ~(\E k \in V \X U : value(k) = NaN)
    <3>1. val = {value(k) : k \in {h \in V \X U : weighs(h)}}
      BY <1>3, <2>1, <2>3, <2>11
    <3>2. \A i \in Cells : g[i] # NaN => g[i] = Datum(i)
      BY DEF Reads
    <3>3. ASSUME NEW e \in val
          PROVE  (\E i \in Around4(p, 1) : e = Datum(i)) /\ (\E i \in Cells : e = g[i])
      <4>1. PICK k \in V \X U : weighs(k) /\ e = value(k)
        BY <3>1
      <4>2. PICK i \in Around4(p, 2) : value(k) = g[i] /\ (weighs(k) <=> i \in Around4(p, 1))
        BY <2>8
      <4> QED BY <2>9, <2>11, <3>2, <4>1, <4>2
    <3>4. ASSUME NEW i \in Around4(p, 1) PROVE Datum(i) \in val
      <4>1. PICK h \in V \X U : weighs(h) /\ value(h) = g[i] /\ i \in Cells
        BY <2>7
      <4> QED BY <2>11, <3>1, <3>2, <4>1
    <3>5. val = {Datum(i) : i \in Around4(p, 1)}
      BY <3>3, <3>4
    <3> QED BY <1>5, <3>3, <3>5 DEF val, LinearExact
  <2> QED BY <2>10, <2>11
<1> QED BY <1>4, <1>5

(* What the array has for the nearest place.                               *)
NearestOf(g, p, val) ==
    IF ~OnGround(p) THEN val = {NaN} ELSE \E k \in Around4(p, 1) : val = {g[k]}

LEMMA NearestFacts ==
    ASSUME NEW g, NEW ys, NEW xs, NEW z, NEW p \in Int \X Int,
           Coords(ys) = Evens(0, NR - 1), Coords(xs) = Evens(0, NC - 1),
           \A n \in Rows, m \in Cols : z[At(ys, 2 * n)][At(xs, 2 * m)] = g[<<n, m>>]
    PROVE  NearestOf(g, p, Nearest(ys, xs, z, p))
<1> DEFINE val == Nearest(ys, xs, z, p)
           y == Near(ys, p[1])
           x == Near(xs, p[2])
           a == 0
           b == NR - 1
           d == NC - 1
<1>1. /\ a \in Nat /\ b \in Nat /\ d \in Nat /\ a <= b /\ a <= d /\ a = 0
      /\ b = NR - 1 /\ d = NC - 1
      /\ p[1] \in Int /\ p[2] \in Int /\ Rows = a..b /\ Cols = a..d
      /\ Coords(ys) = Evens(a, b) /\ Coords(xs) = Evens(a, d)
  BY RowFacts DEF Rows, Cols
<1> HIDE DEF a, b, d
<1>2. /\ Outside(ys, p[1]) <=> p[1] < 2 * a \/ p[1] > 2 * b
      /\ Outside(xs, p[2]) <=> p[2] < 2 * a \/ p[2] > 2 * d
  BY <1>1, OutsideFacts
<1>3. OnGround(p) <=> /\ 2 * a <= p[1] /\ p[1] <= 2 * b
                      /\ 2 * a <= p[2] /\ p[2] <= 2 * d
  BY <1>1 DEF OnGround
<1>4. val = IF p = NaNPoint \/ Outside(ys, p[1]) \/ Outside(xs, p[2]) THEN {NaN}
            ELSE {z[At(ys, y)][At(xs, x)]}
  BY DEF Nearest
<1>5. CASE ~OnGround(p)
  <2>1. Outside(ys, p[1]) \/ Outside(xs, p[2])
    BY <1>1, <1>2, <1>3, <1>5
  <2>2. val = {NaN}
    BY <1>4, <2>1
  <2> HIDE DEF val
  <2> QED BY <1>5, <2>2 DEF val, NearestOf
<1>6. CASE OnGround(p)
  <2>1. PICK n \in a..b : y = 2 * n /\ Close(p[1], n, 1)
    <3> DEFINE v == p[1]
    <3>1. /\ v \in Int /\ 2 * a <= v /\ v <= 2 * b /\ Coords(ys) = Evens(a, b)
          /\ a \in Nat /\ b \in Nat /\ a <= b
      BY <1>1, <1>3, <1>6
    <3> HIDE DEF v
    <3>2. \E n \in a..b : Near(ys, v) = 2 * n /\ Close(v, n, 1)
      BY <3>1, NearFacts
    <3> QED BY <3>2 DEF v
  <2>2. PICK m \in a..d : x = 2 * m /\ Close(p[2], m, 1)
    <3> DEFINE v == p[2]
    <3>1. /\ v \in Int /\ 2 * a <= v /\ v <= 2 * d /\ Coords(xs) = Evens(a, d)
          /\ a \in Nat /\ d \in Nat /\ a <= d
      BY <1>1, <1>3, <1>6
    <3> HIDE DEF v
    <3>2. \E i \in a..d : Near(xs, v) = 2 * i /\ Close(v, i, 1)
      BY <3>1, NearFacts
    <3> QED BY <3>2 DEF v
  <2>3. ~Outside(ys, p[1]) /\ ~Outside(xs, p[2])
    BY <1>1, <1>2, <1>3, <1>6
  <2>4. p # NaNPoint
    BY <1>6, CellParts
  <2> DEFINE k == <<n, m>>
  <2>5. k \in Cells
    BY <1>1, CellParts
  <2>6. z[At(ys, y)][At(xs, x)] = g[k]
    BY <1>1, <2>1, <2>2
  <2>7. val = {g[k]}
    <3> HIDE DEF k, y, x
    <3> QED BY <1>4, <2>3, <2>4, <2>6
  <2>8. k \in Around4(p, 1)
    BY <2>1, <2>2, <2>5 DEF Around4
  <2> HIDE DEF k, val
  <2> QED BY <1>6, <2>7, <2>8 DEF val, NearestOf
<1> QED BY <1>5, <1>6
-----------------------------------------------------------------------------
(* The arrays of the files, by place.                                      *)

(* The node that is at a coordinate, of an axis that goes up or down.      *)
LEMMA UpAxis ==
    ASSUME NEW a \in Nat, NEW b \in Nat, NEW axis, axis = [k \in a..b |-> 2 * k]
    PROVE  Coords(axis) = Evens(a, b) /\ \A n \in a..b : At(axis, 2 * n) = n
<1>1. DOMAIN axis = a..b /\ \A k \in a..b : axis[k] = 2 * k
  OBVIOUS
<1>2. Coords(axis) = Evens(a, b)
  BY <1>1 DEF Coords, Evens
<1>3. ASSUME NEW n \in a..b PROVE At(axis, 2 * n) = n
  <2>1. n \in DOMAIN axis /\ axis[n] = 2 * n
    BY <1>1
  <2>2. \A k \in DOMAIN axis : axis[k] = 2 * n => k = n
    BY <1>1
  <2> QED BY <2>1, <2>2 DEF At
<1> QED BY <1>2, <1>3

LEMMA WholeAxes ==
    /\ Coords(Up) = Evens(0, NR - 1) /\ \A n \in Rows : At(Up, 2 * n) = n
    /\ Coords(XAxis) = Evens(0, NC - 1) /\ \A m \in Cols : At(XAxis, 2 * m) = m
    /\ Coords(Down) = Evens(0, NR - 1) /\ \A n \in Rows : At(Down, 2 * n) = NR - 1 - n
<1> DEFINE a == 0
           b == NR - 1
           d == NC - 1
<1>1. a \in Nat /\ b \in Nat /\ d \in Nat /\ Rows = a..b /\ Cols = a..d
  BY RowFacts DEF Rows, Cols
<1>2. Up = [k \in a..b |-> 2 * k] /\ XAxis = [k \in a..d |-> 2 * k]
  BY DEF Up, XAxis, Rows, Cols
<1>3. /\ Coords(Up) = Evens(a, b) /\ \A n \in a..b : At(Up, 2 * n) = n
      /\ Coords(XAxis) = Evens(a, d) /\ \A n \in a..d : At(XAxis, 2 * n) = n
  <2> HIDE DEF a, b, d
  <2> QED BY <1>1, <1>2, UpAxis
<1>4. DOMAIN Down = Rows /\ \A k \in Rows : Down[k] = 2 * (NR - 1 - k)
  BY DEF Down
<1>5. Coords(Down) = Evens(0, NR - 1)
  <2>1. ASSUME NEW e \in Coords(Down) PROVE e \in Evens(0, NR - 1)
    <3>1. PICK k \in Rows : e = 2 * (NR - 1 - k)
      BY <1>4 DEF Coords
    <3>2. NR - 1 - k \in 0..NR - 1
      BY RowFacts DEF Rows
    <3> QED BY <3>1, <3>2 DEF Evens
  <2>2. ASSUME NEW e \in Evens(0, NR - 1) PROVE e \in Coords(Down)
    <3>1. PICK n \in 0..NR - 1 : e = 2 * n
      BY DEF Evens
    <3>2. NR - 1 - n \in Rows /\ NR - 1 - (NR - 1 - n) = n
      BY RowFacts DEF Rows
    <3>3. e = Down[NR - 1 - n]
      BY <1>4, <3>1, <3>2
    <3> QED BY <1>4, <3>2, <3>3 DEF Coords
  <2> QED BY <2>1, <2>2
<1>6. ASSUME NEW n \in Rows PROVE At(Down, 2 * n) = NR - 1 - n
  <2> DEFINE k == NR - 1 - n
  <2>1. k \in DOMAIN Down /\ Down[k] = 2 * n
    BY <1>4, RowFacts
  <2>2. \A l \in DOMAIN Down : Down[l] = 2 * n => l = k
    BY <1>4, RowFacts
  <2> HIDE DEF k
  <2>3. At(Down, 2 * n) = k
    BY <2>1, <2>2 DEF At
  <2> QED BY <2>3 DEF k
<1> QED BY <1>1, <1>3, <1>5, <1>6

LEMMA FlipFacts ==
    /\ Flip(Up, NR) = Down /\ Flip(Down, NR) = Up
    /\ \A z, r : r \in Rows => Flip(z, NR)[r] = z[NR - 1 - r]
<1>1. Rows = 0..NR - 1
  BY DEF Rows
<1>2. \A z, r : r \in Rows => Flip(z, NR)[r] = z[NR - 1 - r]
  BY <1>1 DEF Flip
<1>3. Flip(Up, NR) = [k \in Rows |-> Up[NR - 1 - k]] /\ Flip(Down, NR) = [k \in Rows |-> Down[NR - 1 - k]]
  BY <1>1 DEF Flip
<1>4. \A k \in Rows : Up[NR - 1 - k] = Down[k] /\ Down[NR - 1 - k] = Up[k]
  BY RowFacts, AxisFacts
<1>5. Up = [k \in Rows |-> Up[k]] /\ Down = [k \in Rows |-> Down[k]]
  BY DEF Up, Down
<1> QED BY <1>2, <1>3, <1>4, <1>5

(* The arrays, by place.                                                   *)
LEMMA RowsOfFiles ==
    ASSUME NEW r \in Rows, NEW c \in Cols
    PROVE  /\ BottomFirst[r][c] = Datum(<<r, c>>)
           /\ TopFirst[r][c] = Datum(<<NR - 1 - r, c>>)
           /\ NaNIn(BottomFirst)[r][c] = IF Datum(<<r, c>>) = Void THEN NaN ELSE Datum(<<r, c>>)
           /\ NaNIn(TopFirst)[r][c] = IF Datum(<<NR - 1 - r, c>>) = Void THEN NaN
                                      ELSE Datum(<<NR - 1 - r, c>>)
<1>1. NR - 1 - r \in Rows /\ NR - 1 - (NR - 1 - r) = r
  BY RowFacts
<1>2. TopFirst[r][c] = Datum(<<NR - 1 - r, c>>)
  BY DEF TopFirst
<1>3. TopFirst[NR - 1 - r][c] = Datum(<<NR - 1 - (NR - 1 - r), c>>)
  BY <1>1, Zenon DEF TopFirst
<1>4. BottomFirst[r][c] = Datum(<<r, c>>)
  BY <1>1, <1>3, FlipFacts DEF BottomFirst
<1>5. \A z : NaNIn(z)[r][c] = IF z[r][c] = Void THEN NaN ELSE z[r][c]
  BY DEF NaNIn
<1>6. /\ NaNIn(BottomFirst)[r][c] = IF BottomFirst[r][c] = Void THEN NaN ELSE BottomFirst[r][c]
      /\ NaNIn(TopFirst)[r][c] = IF TopFirst[r][c] = Void THEN NaN ELSE TopFirst[r][c]
  BY <1>5
<1> QED BY <1>2, <1>4, <1>6

LEMMA DatumFacts ==
    ASSUME NEW k \in Cells
    PROVE  /\ Datum(k) = Void <=> k \in cfg.voids
           /\ k \notin cfg.voids => Datum(k) = k
BY CellParts DEF Datum

ByTop(z) == [k \in Cells |-> z[NR - 1 - k[1]][k[2]]]
ByBottom(z) == [k \in Cells |-> z[k[1]][k[2]]]

LEMMA ArraysRead ==
    /\ \A z \in {TopFirst, NaNIn(TopFirst)} : Reads(ByTop(z))
    /\ \A z \in {BottomFirst, NaNIn(BottomFirst)} : Reads(ByBottom(z))
<1>1. ASSUME NEW z \in {TopFirst, NaNIn(TopFirst)}, NEW k \in Cells
      PROVE  ByTop(z)[k] = Datum(k) \/ (ByTop(z)[k] = NaN /\ k \in cfg.voids)
  <2> DEFINE r == NR - 1 - k[1]
             c == k[2]
  <2>1. r \in Rows /\ c \in Cols /\ <<NR - 1 - r, c>> = k
    BY CellParts, RowFacts
  <2>2. ByTop(z)[k] = z[r][c]
    BY DEF ByTop
  <2> HIDE DEF r, c
  <2>3. /\ TopFirst[r][c] = Datum(k)
        /\ NaNIn(TopFirst)[r][c] = IF Datum(k) = Void THEN NaN ELSE Datum(k)
    BY <2>1, RowsOfFiles
  <2> QED BY <2>2, <2>3, DatumFacts
<1>2. ASSUME NEW z \in {BottomFirst, NaNIn(BottomFirst)}, NEW k \in Cells
      PROVE  ByBottom(z)[k] = Datum(k) \/ (ByBottom(z)[k] = NaN /\ k \in cfg.voids)
  <2> DEFINE r == k[1]
             c == k[2]
  <2>1. r \in Rows /\ c \in Cols /\ <<r, c>> = k
    BY CellParts
  <2>2. ByBottom(z)[k] = z[r][c]
    BY DEF ByBottom
  <2> HIDE DEF r, c
  <2>3. /\ BottomFirst[r][c] = Datum(k)
        /\ NaNIn(BottomFirst)[r][c] = IF Datum(k) = Void THEN NaN ELSE Datum(k)
    BY <2>1, RowsOfFiles
  <2> QED BY <2>2, <2>3, DatumFacts
<1> QED BY <1>1, <1>2 DEF Reads

(* A void value is left only at [0][0], when there is no other.            *)
LEMMA VoidLeft ==
    ASSUME cfg.voids \subseteq Cells, NEW z \in {TopFirst, BottomFirst},
           NEW r \in Rows, NEW c \in Cols, VoidToNaN(z)[r][c] = Void
    PROVE  /\ cfg.voids \in {{<<0, 0>>}, {<<NR - 1, 0>>}}
           /\ VoidToNaN(z)[0][0] = Void
<1>1. \A w : NaNIn(w)[r][c] # Void
  BY CellParts DEF NaNIn
<1>2. VoidToNaN(z) = z /\ ~(\E i \in Cells : i # <<0, 0>> /\ z[i[1]][i[2]] = Void)
  BY <1>1 DEF VoidToNaN
<1>3. <<r, c>> \in Cells /\ <<r, c>>[1] = r /\ <<r, c>>[2] = c
  BY CellParts
<1>4. <<r, c>> = <<0, 0>>
  BY <1>2, <1>3
<1>5. r = 0 /\ c = 0
  BY <1>4
<1>6. z[0][0] = Void /\ \A k \in Rows, l \in Cols : z[k][l] = Void => k = 0 /\ l = 0
  <2>1. ASSUME NEW k \in Rows, NEW l \in Cols, z[k][l] = Void PROVE k = 0 /\ l = 0
    <3>1. <<k, l>> \in Cells /\ <<k, l>>[1] = k /\ <<k, l>>[2] = l
      BY CellParts
    <3>2. <<k, l>> = <<0, 0>>
      BY <1>2, <2>1, <3>1
    <3> QED BY <3>2
  <2> QED BY <1>2, <1>5, <2>1
<1>7. CASE z = BottomFirst
  <2>1. \A k \in Cells : k \in cfg.voids <=> BottomFirst[k[1]][k[2]] = Void
    <3> TAKE k \in Cells
    <3>1. k[1] \in Rows /\ k[2] \in Cols /\ <<k[1], k[2]>> = k
      BY CellParts
    <3>2. BottomFirst[k[1]][k[2]] = Datum(k)
      BY <3>1, RowsOfFiles
    <3> QED BY <3>2, DatumFacts
  <2>2. ASSUME NEW k \in cfg.voids PROVE k = <<0, 0>>
    <3>1. k \in Cells /\ k[1] \in Rows /\ k[2] \in Cols /\ k = <<k[1], k[2]>>
      BY CellParts
    <3>2. k[1] = 0 /\ k[2] = 0
      BY <1>6, <1>7, <2>1, <3>1
    <3> QED BY <3>1, <3>2
  <2>3. <<0, 0>> \in cfg.voids
    <3>1. <<0, 0>> \in Cells /\ <<0, 0>>[1] = 0 /\ <<0, 0>>[2] = 0
      BY CellParts, RowFacts
    <3> QED BY <1>6, <1>7, <2>1, <3>1
  <2>4. cfg.voids = {<<0, 0>>}
    BY <2>2, <2>3
  <2> QED BY <1>2, <1>6, <2>4
<1>8. CASE z = TopFirst
  <2>1. \A k \in Cells : k \in cfg.voids <=> TopFirst[NR - 1 - k[1]][k[2]] = Void
    <3> TAKE k \in Cells
    <3>1. /\ NR - 1 - k[1] \in Rows /\ k[2] \in Cols
          /\ <<NR - 1 - (NR - 1 - k[1]), k[2]>> = k
      BY CellParts, RowFacts
    <3>2. TopFirst[NR - 1 - k[1]][k[2]] = Datum(k)
      BY <3>1, RowsOfFiles
    <3> QED BY <3>2, DatumFacts
  <2>2. ASSUME NEW k \in cfg.voids PROVE k = <<NR - 1, 0>>
    <3>1. k \in Cells /\ k[1] \in Rows /\ NR - 1 - k[1] \in Rows /\ k[2] \in Cols /\ k = <<k[1], k[2]>>
      BY CellParts, RowFacts
    <3>2. NR - 1 - k[1] = 0 /\ k[2] = 0
      BY <1>6, <1>8, <2>1, <3>1
    <3>3. k[1] = NR - 1
      BY <3>1, <3>2, RowFacts
    <3> QED BY <3>1, <3>2, <3>3
  <2>3. <<NR - 1, 0>> \in cfg.voids
    <3> DEFINE k == <<NR - 1, 0>>
    <3>1. k \in Cells /\ NR - 1 - k[1] = 0 /\ k[2] = 0
      BY CellParts, RowFacts DEF Rows
    <3> HIDE DEF k
    <3>2. k \in cfg.voids
      BY <1>6, <1>8, <2>1, <3>1
    <3> QED BY <3>2 DEF k
  <2>4. cfg.voids = {<<NR - 1, 0>>}
    BY <2>2, <2>3
  <2> QED BY <1>2, <1>6, <2>4
<1> QED BY <1>7, <1>8

LEMMA NoVoidLeft ==
    ASSUME NEW r \in Rows, NEW c \in Cols, NEW z
    PROVE  NaNIn(z)[r][c] # Void
BY CellParts DEF NaNIn
-----------------------------------------------------------------------------
(* What is in memory.                                                      *)

LEMMA SetupVoids ==
    ASSUME NEW s \in Setups
    PROVE  /\ s.voids \subseteq Cells
           /\ s.class = "mask" \/ (s.class = "dhdt" /\ s.type = "nc") => s.voids = {}
<1>1. s.voids \in Voids
  BY DEF Setups
<1>2. s.class = "mask" \/ (s.class = "dhdt" /\ s.type = "nc") => s.voids = {}
  BY DEF Setups
<1> QED BY <1>1, <1>2, GridsAssumption

(* The array that each class has in memory when it is loaded.              *)
Near1(k, l) == l[1] - k[1] \in -1..1 /\ l[2] - k[2] \in -1..1
Unfiltered == AbsFilter(VoidToNaN(TopFirst))

(* What is in a place of an array is from a place next to it.              *)
Smoothed(z) ==
    \A k \in Cells : \E l \in Cells : Near1(k, l) /\ ByTop(z)[k] = ByTop(Unfiltered)[l]

Loaded ==
    obj.status = "ok" =>
      /\ cfg.class \in Gridded /\ ~ZarrType =>
           IF cfg.type = "nc" THEN obj.z = VoidToNaN(BottomFirst)
           ELSE obj.z \in {VoidToNaN(TopFirst), NaNIn(TopFirst)}
      /\ cfg.class = "dhdt" =>
           IF cfg.type = "nc" THEN obj.y = Down /\ obj.z = BottomFirst
           ELSE obj.y = Up /\ Smoothed(obj.z)
      /\ cfg.class = "mask" => obj.z = BottomFirst

LEMMA SameArrays ==
    ASSUME cfg' = cfg
    PROVE  /\ TopFirst' = TopFirst /\ BottomFirst' = BottomFirst
           /\ NaNIn(TopFirst)' = NaNIn(TopFirst)
           /\ VoidToNaN(TopFirst)' = VoidToNaN(TopFirst)
           /\ VoidToNaN(BottomFirst)' = VoidToNaN(BottomFirst)
           /\ Down' = Down /\ Up' = Up /\ ZarrType' = ZarrType
           /\ Unfiltered' = Unfiltered
<1>1. /\ TopFirst' = TopFirst /\ BottomFirst' = BottomFirst
      /\ NaNIn(TopFirst)' = NaNIn(TopFirst)
      /\ VoidToNaN(TopFirst)' = VoidToNaN(TopFirst)
      /\ VoidToNaN(BottomFirst)' = VoidToNaN(BottomFirst)
      /\ Down' = Down /\ Up' = Up /\ ZarrType' = ZarrType
  BY DEF VoidToNaN, NaNIn, TopFirst, BottomFirst, Flip, Datum, ZarrType, Up, Down
<1>2. \A v : RateOf(v)' = RateOf(v) /\ Beyond(v)' = Beyond(v)
  BY DEF RateOf, Beyond
<1>3. Unfiltered' = Unfiltered
  BY <1>1, <1>2 DEF Unfiltered, AbsFilter
<1> QED BY <1>1, <1>3

(* All masks come out in the same order.                                   *)
LEMMA MaskRows == LoadMask = BottomFirst
<1>1. CASE cfg.type = "flip"
  BY <1>1 DEF LoadMask, BottomFirst
<1>2. CASE cfg.type = "asis"
  BY <1>2 DEF LoadMask
<1>3. CASE cfg.type \notin {"flip", "asis"}
  <2> DEFINE B == BottomFirst
             file == [c \in Cols |-> [r \in Rows |-> B[r][c]]]
  <2>1. LoadMask = [r \in Rows |-> [c \in Cols |-> file[c][r]]]
    BY <1>3 DEF LoadMask
  <2>2. B = [r \in Rows |-> B[r]] /\ \A r \in Rows : B[r] = [c \in Cols |-> B[r][c]]
    <3>1. \A r \in Rows : TopFirst[r] = [c \in Cols |-> TopFirst[r][c]]
      BY DEF TopFirst
    <3>2. \A r \in Rows : B[r] = TopFirst[NR - 1 - r]
      BY FlipFacts DEF BottomFirst
    <3>3. B = [r \in Rows |-> B[r]]
      BY DEF BottomFirst, Flip, Rows
    <3> HIDE DEF B
    <3> QED BY <3>1, <3>2, <3>3, RowFacts
  <2> HIDE DEF B
  <2>3. LoadMask = B
    BY <2>1, <2>2
  <2> QED BY <2>3 DEF B
<1> QED BY <1>1, <1>2, <1>3

(* The median is one of the values around a place.                         *)
LEMMA MedianFacts ==
    ASSUME NEW z, NEW k \in Cells
    PROVE  \E l \in Cells : Near1(k, l) /\ MedianFilter(z)[k[1]][k[2]] = z[l[1]][l[2]]
<1> DEFINE r == k[1]
           c == k[2]
           near(d) == z[Reflect(r + d[1], NR)][Reflect(c + d[2], NC)]
           less(a, b) == a # NaN /\ b # NaN /\ RateOf(a) < RateOf(b)
           middle(v) == /\ Cardinality({d \in Offsets : less(near(d), v)}) <= 4
                        /\ Cardinality({d \in Offsets : less(v, near(d))}) <= 4
           window == {near(d) : d \in Offsets}
           P(v) == middle(v) \/ \A w \in window : ~middle(w)
<1>1. r \in Rows /\ c \in Cols
  BY CellParts
<1>2. MedianFilter(z)[r][c] = CHOOSE v \in window : P(v)
  BY <1>1, Zenon DEF MedianFilter, MedianAt
<1>3. <<0, 0>> \in Offsets
  BY DEF Offsets
<1>4. near(<<0, 0>>) \in window
  BY <1>3
<1>5. \E v \in window : P(v)
  <2> HIDE DEF window, middle
  <2>1. CASE \E v \in window : middle(v)
    BY <2>1
  <2>2. CASE ~\E v \in window : middle(v)
    BY <1>4, <2>2
  <2> QED BY <2>1, <2>2
<1>6. MedianFilter(z)[r][c] \in window
  <2> HIDE DEF window, P
  <2> QED BY <1>2, <1>5
<1>7. PICK d \in Offsets : MedianFilter(z)[r][c] = near(d)
  BY <1>6
<1> DEFINE l == <<Reflect(r + d[1], NR), Reflect(c + d[2], NC)>>
<1>8. d[1] \in -1..1 /\ d[2] \in -1..1
  BY DEF Offsets
<1>9. \A n \in Nat : \A a \in 0..n - 1, e \in -1..1 :
        Reflect(a + e, n) \in 0..n - 1 /\ Reflect(a + e, n) - a \in -1..1
  BY DEF Reflect
<1>10. Reflect(r + d[1], NR) \in Rows /\ Reflect(r + d[1], NR) - r \in -1..1
  BY <1>1, <1>8, <1>9, RowFacts DEF Rows
<1>11. Reflect(c + d[2], NC) \in Cols /\ Reflect(c + d[2], NC) - c \in -1..1
  BY <1>1, <1>8, <1>9, RowFacts DEF Cols
<1>12. l \in Cells /\ Near1(k, l) /\ near(d) = z[l[1]][l[2]]
  BY <1>10, <1>11, CellParts DEF Near1
<1> HIDE DEF l
<1> QED BY <1>7, <1>12

LEMMA MedianSmooths == Smoothed(MedianFilter(Unfiltered))
<1> DEFINE Filtered == MedianFilter(Unfiltered)
<1> SUFFICES ASSUME NEW k \in Cells
             PROVE  \E l \in Cells : Near1(k, l) /\ ByTop(Filtered)[k] = ByTop(Unfiltered)[l]
  BY DEF Smoothed
<1> DEFINE j == <<NR - 1 - k[1], k[2]>>
<1>1. j \in Cells /\ j[1] = NR - 1 - k[1] /\ j[2] = k[2] /\ k[1] \in Int
  BY CellParts, RowFacts
<1>2. ByTop(Filtered)[k] = Filtered[j[1]][j[2]]
  BY <1>1 DEF ByTop
<1> HIDE DEF j
<1>3. PICK i \in Cells : Near1(j, i) /\ Filtered[j[1]][j[2]] = Unfiltered[i[1]][i[2]]
  BY <1>1, MedianFacts
<1> HIDE DEF Filtered
<1> DEFINE l == <<NR - 1 - i[1], i[2]>>
<1>4. /\ l \in Cells /\ l[1] = NR - 1 - i[1] /\ l[2] = i[2]
      /\ i[1] \in Int /\ NR - 1 - l[1] = i[1]
  BY CellParts, RowFacts
<1>5. ByTop(Unfiltered)[l] = Unfiltered[i[1]][i[2]]
  BY <1>4 DEF ByTop
<1> HIDE DEF l
<1>6. Near1(k, l)
  BY <1>1, <1>3, <1>4, RowFacts DEF Near1
<1> QED BY <1>2, <1>3, <1>4, <1>5, <1>6

LEMMA LoadLoaded ==
    ASSUME CInv, Loads
    PROVE  Loaded'
<1> USE DEF CInv
<1>1. cfg' = cfg
  BY LoadIs, LoadFacts
<1> SUFFICES ASSUME obj'.status = "ok"
             PROVE  /\ cfg.class \in Gridded /\ ~ZarrType =>
                         IF cfg.type = "nc" THEN obj'.z = VoidToNaN(BottomFirst)
                         ELSE obj'.z \in {VoidToNaN(TopFirst), NaNIn(TopFirst)}
                    /\ cfg.class = "dhdt" =>
                         IF cfg.type = "nc" THEN obj'.y = Down /\ obj'.z = BottomFirst
                         ELSE obj'.y = Up /\ Smoothed(obj'.z)
                    /\ cfg.class = "mask" => obj'.z = BottomFirst
  BY <1>1, SameArrays DEF Loaded, Smoothed, ByTop
<1>2. cfg.class \in {"dem", "roughness"} => cfg.type # "nc"
  BY SetupFacts DEF Types
<1>3. /\ Tif.z = VoidToNaN(TopFirst) /\ Npz.z = NaNIn(TopFirst)
  BY DEF Tif, Npz
<1>4. CASE DemLoad
  <2>1. LoadAs(DemArray, "empty", "raised") /\ cfg.class = "dem"
    BY <1>4 DEF DemLoad
  <2>2. obj'.z = DemArray.z
    BY <2>1, LoadFacts DEF Bad
  <2>3. ~ZarrType => DemArray \in {Tif, Npz}
    BY DEF DemArray, ZarrType
  <2> QED BY <1>2, <1>3, <2>1, <2>2, <2>3
<1>5. CASE SlopesLoad
  <2>1. LoadAs(SlopesArray, "empty", "raised") /\ cfg.class = "slopes"
    BY <1>5 DEF SlopesLoad
  <2>2. obj'.z = SlopesArray.z
    BY <2>1, LoadFacts DEF Bad
  <2>3. CASE cfg.type = "nc"
    <3>1. SlopesArray.z = VoidToNaN(BottomFirst)
      BY <2>3 DEF SlopesArray
    <3> QED BY <2>1, <2>2, <2>3, <3>1
  <2>4. CASE cfg.type # "nc"
    <3>1. SlopesArray = IF ZarrType THEN Lazy ELSE Tif
      BY <2>4 DEF SlopesArray, ZarrType
    <3> QED BY <1>3, <2>1, <2>2, <2>4, <3>1
  <2> QED BY <2>3, <2>4
<1>6. CASE RoughnessLoad
  <2>1. LoadAs(RoughnessArray, "raised", "empty") /\ cfg.class = "roughness"
    BY <1>6 DEF RoughnessLoad
  <2>2. obj'.z = RoughnessArray.z
    BY <2>1, LoadFacts DEF Bad
  <2>3. RoughnessArray = IF ZarrType THEN Lazy ELSE Tif
    BY DEF RoughnessArray, ZarrType
  <2> QED BY <1>2, <1>3, <2>1, <2>2, <2>3
<1>7. CASE DhdtLoad
  <2>1. LoadAs(DhdtArray, "raised", "raised") /\ cfg.class = "dhdt"
    BY <1>7 DEF DhdtLoad
  <2>2. obj'.y = DhdtArray.y /\ obj'.z = DhdtArray.z
    BY <2>1, LoadFacts DEF Bad
  <2>3. IF cfg.type = "nc" THEN DhdtArray.y = Down /\ DhdtArray.z = BottomFirst
        ELSE DhdtArray.y = Up /\ DhdtArray.z = MedianFilter(Unfiltered)
    BY DEF DhdtArray, Unfiltered
  <2> QED BY <2>1, <2>2, <2>3, MedianSmooths DEF Gridded
<1>8. CASE MaskLoad
  <2> DEFINE array == [y |-> Up, z |-> LoadMask]
  <2>1. LoadAs(array, "raised", "raised") /\ cfg.class = "mask" /\ array.z = LoadMask
    BY <1>8 DEF MaskLoad
  <2> HIDE DEF array
  <2>2. obj'.z = array.z
    BY <2>1, LoadFacts DEF Bad
  <2> QED BY <2>1, <2>2, MaskRows DEF Gridded
<1> QED BY <1>4, <1>5, <1>6, <1>7, <1>8 DEF Loads

(* What the first filter of dh/dt leaves of a place: its value, or NaN.    *)
LEMMA UnfilteredFacts ==
    ASSUME NEW k \in Cells
    PROVE  LET v == ByTop(Unfiltered)[k]
           IN  v = Datum(k) \/ (v = NaN /\ k \in cfg.voids \cup Steep)
<1> DEFINE r == NR - 1 - k[1]
           c == k[2]
           w == VoidToNaN(TopFirst)
<1>1. r \in Rows /\ c \in Cols
  BY CellParts, RowFacts
<1>2. w \in {TopFirst, NaNIn(TopFirst)}
  BY DEF VoidToNaN
<1>3. w[r][c] = Datum(k) \/ (w[r][c] = NaN /\ k \in cfg.voids)
  <2>1. Reads(ByTop(w))
    BY <1>2, ArraysRead
  <2>2. ByTop(w)[k] = w[r][c]
    BY DEF ByTop
  <2> HIDE DEF w, r, c
  <2> QED BY <2>1, <2>2 DEF Reads
<1> HIDE DEF w
<1>4. ByTop(Unfiltered)[k] = Unfiltered[r][c]
  BY DEF ByTop
<1> HIDE DEF r, c
<1>5. Unfiltered[r][c] = w[r][c] \/ (Unfiltered[r][c] = NaN /\ Beyond(w[r][c]))
  <2>1. Unfiltered = AbsFilter(w)
    BY DEF Unfiltered, w
  <2> QED BY <1>1, <2>1 DEF AbsFilter
<1>6. Datum(k) \in {k, Void} /\ (Datum(k) = Void => k \in cfg.voids)
  BY CellParts, DatumFacts
<1>7. ~Beyond(NaN)
  BY DEF Beyond
<1>8. Beyond(k) => k \in Steep
  BY DEF Steep
<1> QED BY <1>3, <1>4, <1>5, <1>6, <1>7, <1>8

LEMMA UnfilteredVoid ==
    ASSUME cfg.voids \subseteq Cells, NEW r \in Rows, NEW c \in Cols, Unfiltered[r][c] = Void
    PROVE  cfg.voids \in {{<<0, 0>>}, {<<NR - 1, 0>>}}
<1> DEFINE w == VoidToNaN(TopFirst)
<1>1. Unfiltered = AbsFilter(w)
  BY DEF Unfiltered
<1> HIDE DEF w
<1>2. Unfiltered[r][c] \in {w[r][c], NaN}
  BY <1>1 DEF AbsFilter
<1>3. w[r][c] = Void
  BY <1>2, CellParts
<1> QED BY <1>3, VoidLeft DEF w

(* A void value that is left in memory is the first one, and the only one. *)
FirstOnly ==
    /\ cfg.voids \in {{<<0, 0>>}, {<<NR - 1, 0>>}}
    /\ cfg.class = "dhdt" \/ obj.z[0][0] = Void

LEMMA VoidInMemory ==
    ASSUME cfg \in Setups, Loaded, InMemory, obj.status = "ok",
           cfg.class \in Gridded /\ ~ZarrType,
           NEW r \in Rows, NEW c \in Cols, obj.z[r][c] = Void
    PROVE  FirstOnly
<1>1. cfg.voids \subseteq Cells
  BY SetupVoids
<1>2. NaNIn(TopFirst)[r][c] # Void
  BY NoVoidLeft
<1>3. obj.z \in {VoidToNaN(BottomFirst), VoidToNaN(TopFirst), NaNIn(TopFirst)}
  BY DEF Loaded
<1>4. PICK z \in {TopFirst, BottomFirst} : obj.z = VoidToNaN(z)
  BY <1>2, <1>3
<1> QED BY <1>1, <1>4, VoidLeft DEF FirstOnly
-----------------------------------------------------------------------------
(* The answers of grids.                                                   *)

(* The image of a finite set under a function is finite.                   *)
LEMMA FiniteImage ==
    ASSUME NEW S, IsFiniteSet(S), NEW f, f = [s \in S |-> f[s]]
    PROVE  /\ IsFiniteSet({f[s] : s \in S})
           /\ (\A s, t \in S : f[s] = f[t] => s = t) =>
                Cardinality({f[s] : s \in S}) = Cardinality(S)
<1> DEFINE T == {f[s] : s \in S}
<1>1. f \in [S -> T] /\ \A t \in T : \E s \in S : f[s] = t
  OBVIOUS
<1> HIDE DEF T
<1>2. f \in Surjection(S, T)
  BY <1>1 DEF Surjection
<1>3. IsFiniteSet(T) /\ (Cardinality(T) = Cardinality(S) <=> f \in Injection(S, T))
  BY <1>2, FS_Surjection
<1>4. (\A s, t \in S : f[s] = f[t] => s = t) => f \in Injection(S, T)
  BY <1>1 DEF Injection, IsInjective
<1> QED BY <1>3, <1>4 DEF T

(* Interpolation on whole axes.                                            *)
LEMMA WholeLinear ==
    ASSUME NEW g, Reads(g), NEW ys \in {Up, Down}, NEW z, NEW p \in Int \X Int,
           \A n \in Rows, m \in Cols : z[At(ys, 2 * n)][At(XAxis, 2 * m)] = g[<<n, m>>]
    PROVE  /\ LinearExact(p, Linear(ys, XAxis, z, p))
           /\ \A e \in Linear(ys, XAxis, z, p) : e = NaN \/ \E k \in Cells : e = g[k]
<1> DEFINE a == 0
           b == NR - 1
           d == NC - 1
<1>1. /\ a \in Rows /\ b \in Rows /\ a \in Cols /\ d \in Cols /\ a <= b /\ a <= d
      /\ Rows = a..b /\ Cols = a..d
  BY RowFacts DEF Rows, Cols
<1>2. Coords(ys) = Evens(a, b) /\ Coords(XAxis) = Evens(a, d)
  BY WholeAxes
<1>3. OnGround(p) => Covers(a, b, p[1], NR - 1) /\ Covers(a, d, p[2], NC - 1)
  BY RowFacts DEF OnGround, Covers
<1>4. \A n \in a..b, m \in a..d : z[At(ys, 2 * n)][At(XAxis, 2 * m)] = g[<<n, m>>]
  BY <1>1
<1> HIDE DEF a, b, d
<1> QED BY <1>1, <1>2, <1>3, <1>4, LinearFacts

(* Interpolation in a part of the store.                                   *)
LEMMA ChunkLinear ==
    ASSUME flip.z = NaNIn(BottomFirst), NEW q \in Queries, NEW p \in q, p # NaNPoint
    PROVE  LET g == ByBottom(NaNIn(BottomFirst))
           IN  /\ LinearExact(p, ChunkedInterpolation(q)[p])
               /\ \A e \in ChunkedInterpolation(q)[p] : e = NaN \/ \E k \in Cells : e = g[k]
<1> DEFINE g == ByBottom(NaNIn(BottomFirst))
           valid == q \ {NaNPoint}
           vy == {s[1] : s \in valid}
           vx == {s[2] : s \in valid}
           Y == Chunk(Up, vy, NR)
           X == Chunk(XAxis, vx, NC)
           ys == Part(Up, Y)
           xs == Part(XAxis, X)
           z == Part(flip.z, Y)
<1>1. ChunkedInterpolation(q)[p] = Linear(ys, xs, z, p)
  BY DEF ChunkedInterpolation
<1>2. q \subseteq Int \X Int /\ IsFiniteSet(q) /\ p \in Int \X Int /\ p \in valid
  BY GridsAssumption
<1>3. IsFiniteSet(valid)
  BY <1>2, FS_Subset
<1>4. vy \subseteq Int /\ vx \subseteq Int /\ p[1] \in vy /\ p[2] \in vx
  BY <1>2
<1>5. IsFiniteSet(vy) /\ IsFiniteSet(vx)
  <2> DEFINE f == [s \in valid |-> s[1]]
             h == [s \in valid |-> s[2]]
  <2>1. /\ f = [s \in valid |-> f[s]] /\ h = [s \in valid |-> h[s]]
        /\ vy = {f[s] : s \in valid} /\ vx = {h[s] : s \in valid}
    OBVIOUS
  <2> HIDE DEF f, h, valid, vy, vx
  <2> QED BY <1>3, <2>1, FiniteImage
<1> HIDE DEF vy, vx
<1>6. /\ NR \in Nat /\ NR > 1 /\ Up = [k \in 0..NR - 1 |-> 2 * k]
      /\ NC \in Nat /\ NC > 1 /\ XAxis = [k \in 0..NC - 1 |-> 2 * k]
  BY RowFacts DEF Up, XAxis, Rows, Cols
<1>7. PICK a, b \in 0..NR - 1 :
        /\ a <= b /\ Y = a..b
        /\ 0 <= p[1] /\ p[1] <= 2 * (NR - 1) => Covers(a, b, p[1], NR - 1)
  BY <1>4, <1>5, <1>6, ChunkFacts
<1>8. PICK c, d \in 0..NC - 1 :
        /\ c <= d /\ X = c..d
        /\ 0 <= p[2] /\ p[2] <= 2 * (NC - 1) => Covers(c, d, p[2], NC - 1)
  BY <1>4, <1>5, <1>6, ChunkFacts
<1> HIDE DEF Y, X
<1>9. a \in Nat /\ b \in Nat /\ c \in Nat /\ d \in Nat
  OBVIOUS
<1>10. /\ a..b \subseteq 0..NR - 1 /\ c..d \subseteq 0..NC - 1
       /\ a \in Rows /\ b \in Rows /\ c \in Cols /\ d \in Cols
       /\ Rows = 0..NR - 1 /\ Cols = 0..NC - 1
  BY <1>6 DEF Rows, Cols
<1>11. ys = [k \in a..b |-> 2 * k] /\ xs = [k \in c..d |-> 2 * k]
  BY <1>6, <1>7, <1>8, <1>10 DEF Part
<1>12. /\ Coords(ys) = Evens(a, b) /\ \A n \in a..b : At(ys, 2 * n) = n
       /\ Coords(xs) = Evens(c, d) /\ \A n \in c..d : At(xs, 2 * n) = n
  <2> HIDE DEF ys, xs
  <2> QED BY <1>9, <1>11, UpAxis
<1>13. \A n \in a..b, m \in c..d : z[n][m] = g[<<n, m>>]
  <2> TAKE n \in a..b, m \in c..d
  <2>1. z[n] = flip.z[n]
    BY <1>7 DEF Part
  <2>2. <<n, m>> \in Cells /\ <<n, m>>[1] = n /\ <<n, m>>[2] = m
    BY <1>10, CellParts
  <2>3. g[<<n, m>>] = flip.z[n][m]
    BY <2>2 DEF ByBottom
  <2> QED BY <2>1, <2>3
<1> HIDE DEF ys, xs, z
<1>14. \A n \in a..b, m \in c..d : z[At(ys, 2 * n)][At(xs, 2 * m)] = g[<<n, m>>]
  BY <1>12, <1>13
<1>15. OnGround(p) => Covers(a, b, p[1], NR - 1) /\ Covers(c, d, p[2], NC - 1)
  BY <1>2, <1>7, <1>8 DEF OnGround
<1>16. Reads(g)
  BY ArraysRead
<1> HIDE DEF g
<1>17. /\ LinearExact(p, Linear(ys, xs, z, p))
       /\ \A e \in Linear(ys, xs, z, p) : e = NaN \/ \E k \in Cells : e = g[k]
  <2>1. /\ a \in Rows /\ b \in Rows /\ a <= b /\ Coords(ys) = Evens(a, b)
        /\ c \in Cols /\ d \in Cols /\ c <= d /\ Coords(xs) = Evens(c, d)
    BY <1>7, <1>8, <1>10, <1>12
  <2> QED BY <1>2, <1>14, <1>15, <1>16, <2>1, LinearFacts
<1> QED BY <1>1, <1>17 DEF g

(* An answer has no fill value, and no void but one that is left.          *)
Clean(val) == \A e \in val : e # Fill /\ (e = Void => FirstOnly)

LEMMA CleanFacts ==
    ASSUME NEW g, Reads(g), NEW val, \A e \in val : e = NaN \/ \E k \in Cells : e = g[k],
           \A k \in Cells : g[k] = Void => FirstOnly
    PROVE  Clean(val)
<1> SUFFICES ASSUME NEW e \in val PROVE e # Fill /\ (e = Void => FirstOnly)
  BY DEF Clean
<1>1. CASE e = NaN
  BY <1>1, CellParts
<1>2. CASE e # NaN
  <2>1. PICK k \in Cells : e = g[k]
    BY <1>2
  <2>2. e \in {k, Void}
    BY <1>2, <2>1, CellParts DEF Reads
  <2> QED BY <2>1, <2>2, CellParts
<1> QED BY <1>1, <1>2

LEMMA InterpAnswers ==
    ASSUME CInv, Loaded, InMemory, Sound, cfg.class \in Gridded, NEW q \in Queries, NEW p \in q
    PROVE  LinearExact(p, Interp(q)[p]) /\ Clean(Interp(q)[p])
<1>1. cfg \in Setups /\ obj.status = "ok" /\ p \in Int \X Int
  BY GridsAssumption DEF CInv, Types, Sound
<1>2. CASE ZarrType
  <2>1. flip.z = NaNIn(BottomFirst)
    BY <1>2 DEF CInv, Open, Full
  <2>2. Interp(q)[p] = ChunkedInterpolation(q)[p]
    BY <1>2 DEF Interp
  <2>3. CASE p = NaNPoint
    <3>1. Interp(q)[p] = {NaN}
      BY <2>2, <2>3 DEF ChunkedInterpolation
    <3> QED BY <2>3, <3>1, CellParts DEF LinearExact, Clean
  <2>4. CASE p # NaNPoint
    <3> DEFINE g == ByBottom(NaNIn(BottomFirst))
    <3>1. /\ LinearExact(p, ChunkedInterpolation(q)[p])
          /\ \A e \in ChunkedInterpolation(q)[p] : e = NaN \/ \E k \in Cells : e = g[k]
      BY <2>1, <2>4, ChunkLinear
    <3>2. \A k \in Cells : g[k] # Void
      BY CellParts, NoVoidLeft DEF ByBottom
    <3>3. Reads(g)
      BY ArraysRead
    <3> HIDE DEF g
    <3> QED BY <2>2, <3>1, <3>2, <3>3, CleanFacts
  <2> QED BY <2>3, <2>4
<1>3. CASE ~ZarrType /\ cfg.type = "nc"
  <2> DEFINE z == Flip(obj.z, NR)
             g == ByBottom(obj.z)
  <2>1. obj.y = Up /\ obj.z = VoidToNaN(BottomFirst)
    BY <1>1, <1>3 DEF InMemory, Loaded
  <2>2. obj.z \in {BottomFirst, NaNIn(BottomFirst)}
    BY <2>1 DEF VoidToNaN
  <2>3. Interp(q)[p] = Linear(Down, XAxis, z, p)
    BY <1>3, <2>1, FlipFacts DEF Interp
  <2>4. \A n \in Rows, m \in Cols : z[At(Down, 2 * n)][At(XAxis, 2 * m)] = g[<<n, m>>]
    <3> TAKE n \in Rows, m \in Cols
    <3>1. At(Down, 2 * n) = NR - 1 - n /\ At(XAxis, 2 * m) = m
      BY WholeAxes
    <3>2. NR - 1 - n \in Rows /\ NR - 1 - (NR - 1 - n) = n
      BY RowFacts
    <3>3. z[NR - 1 - n] = obj.z[n]
      BY <3>2, FlipFacts
    <3>4. <<n, m>> \in Cells /\ <<n, m>>[1] = n /\ <<n, m>>[2] = m
      BY CellParts
    <3>5. g[<<n, m>>] = obj.z[n][m]
      BY <3>4 DEF ByBottom
    <3> QED BY <3>1, <3>3, <3>5
  <2>5. \A k \in Cells : g[k] = Void => FirstOnly
    BY <1>1, <1>3, CellParts, VoidInMemory DEF ByBottom
  <2>6. Reads(g)
    BY <2>2, ArraysRead
  <2> HIDE DEF g, z
  <2>7. /\ LinearExact(p, Linear(Down, XAxis, z, p))
        /\ \A e \in Linear(Down, XAxis, z, p) : e = NaN \/ \E k \in Cells : e = g[k]
    BY <1>1, <2>4, <2>6, WholeLinear
  <2> QED BY <2>3, <2>5, <2>6, <2>7, CleanFacts
<1>4. CASE ~ZarrType /\ cfg.type # "nc"
  <2> DEFINE z == Flip(obj.z, NR)
             g == ByTop(obj.z)
  <2>1. obj.y = Down /\ obj.z \in {VoidToNaN(TopFirst), NaNIn(TopFirst)}
    BY <1>1, <1>4 DEF InMemory, Loaded
  <2>2. obj.z \in {TopFirst, NaNIn(TopFirst)}
    BY <2>1 DEF VoidToNaN
  <2>3. Interp(q)[p] = Linear(Up, XAxis, z, p)
    BY <1>4, <2>1, FlipFacts DEF Interp
  <2>4. \A n \in Rows, m \in Cols : z[At(Up, 2 * n)][At(XAxis, 2 * m)] = g[<<n, m>>]
    <3> TAKE n \in Rows, m \in Cols
    <3>1. At(Up, 2 * n) = n /\ At(XAxis, 2 * m) = m
      BY WholeAxes
    <3>2. z[n] = obj.z[NR - 1 - n]
      BY FlipFacts
    <3>3. <<n, m>> \in Cells /\ <<n, m>>[1] = n /\ <<n, m>>[2] = m
      BY CellParts
    <3>4. g[<<n, m>>] = obj.z[NR - 1 - n][m]
      BY <3>3 DEF ByTop
    <3> QED BY <3>1, <3>2, <3>4
  <2>5. \A k \in Cells : g[k] = Void => FirstOnly
    <3> TAKE k \in Cells
    <3>1. NR - 1 - k[1] \in Rows /\ k[2] \in Cols
      BY CellParts, RowFacts
    <3> QED BY <1>1, <1>4, <3>1, VoidInMemory DEF ByTop
  <2>6. Reads(g)
    BY <2>2, ArraysRead
  <2> HIDE DEF g, z
  <2>7. /\ LinearExact(p, Linear(Up, XAxis, z, p))
        /\ \A e \in Linear(Up, XAxis, z, p) : e = NaN \/ \E k \in Cells : e = g[k]
    BY <1>1, <2>4, <2>6, WholeLinear
  <2> QED BY <2>3, <2>5, <2>6, <2>7, CleanFacts
<1> QED BY <1>2, <1>3, <1>4

(* The same for dh/dt: one place near the point.                           *)
NearestExact(p, val) ==
    IF ~OnGround(p) THEN val = {NaN}
    ELSE \/ val = {NaN} /\ Around4(p, Reach + 1) \cap (cfg.voids \cup Steep) # {}
         \/ \E v \in {Datum(k) : k \in Around4(p, Reach)} : val = {v}

(* A place next to one that is near a point.                               *)
LEMMA NearNear ==
    ASSUME NEW p \in Int \X Int, NEW k \in Around4(p, 1), NEW l \in Cells, Near1(k, l)
    PROVE  l \in Around4(p, 3) /\ l \in Around4(p, 4)
<1>1. k \in Cells /\ Close(p[1], k[1], 1) /\ Close(p[2], k[2], 1)
  BY DEF Around4
<1>2. /\ k[1] \in Int /\ k[2] \in Int /\ l[1] \in Int /\ l[2] \in Int
      /\ p[1] \in Int /\ p[2] \in Int
  BY <1>1, CellParts, RowFacts
<1>3. \A v, a, b \in Int : 2 * a - v \in -1..1 /\ b - a \in -1..1 =>
        2 * b - v \in -3..3 /\ 2 * b - v \in -4..4
  OBVIOUS
<1>4. /\ Close(p[1], l[1], 3) /\ Close(p[1], l[1], 4)
      /\ Close(p[2], l[2], 3) /\ Close(p[2], l[2], 4)
  BY <1>1, <1>2, <1>3 DEF Close, Near1
<1> QED BY <1>4 DEF Around4

LEMMA DhdtAnswers ==
    ASSUME CInv, Loaded, InMemory, Sound, cfg.class = "dhdt", NEW q \in Queries, NEW p \in q
    PROVE  LET val == Nearest(obj.y, XAxis, Flip(obj.z, NR), p)
           IN  NearestExact(p, val) /\ Clean(val)
<1> DEFINE z == Flip(obj.z, NR)
           val == Nearest(obj.y, XAxis, z, p)
<1>1. /\ cfg \in Setups /\ obj.status = "ok" /\ p \in Int \X Int
      /\ cfg.type \in {"tif", "nc"} /\ cfg.voids \subseteq Cells
  BY GridsAssumption, SetupFacts, SetupVoids DEF CInv, Types, Sound
<1>2. Coords(XAxis) = Evens(0, NC - 1)
  BY WholeAxes
<1> SUFFICES NearestExact(p, val) /\ Clean(val)
  OBVIOUS
<1>3. CASE cfg.type = "nc"
  <2> DEFINE g == ByBottom(obj.z)
  <2>1. obj.y = Down /\ obj.z = BottomFirst /\ cfg.voids = {} /\ Reach = 1
    BY <1>1, <1>3, SetupVoids DEF Loaded, Reach
  <2>2. \A n \in Rows, m \in Cols : z[At(Down, 2 * n)][At(XAxis, 2 * m)] = g[<<n, m>>]
    <3> TAKE n \in Rows, m \in Cols
    <3>1. At(Down, 2 * n) = NR - 1 - n /\ At(XAxis, 2 * m) = m
      BY WholeAxes
    <3>2. NR - 1 - n \in Rows /\ NR - 1 - (NR - 1 - n) = n
      BY RowFacts
    <3>3. z[NR - 1 - n] = obj.z[n]
      BY <3>2, FlipFacts
    <3>4. <<n, m>> \in Cells /\ <<n, m>>[1] = n /\ <<n, m>>[2] = m
      BY CellParts
    <3>5. g[<<n, m>>] = obj.z[n][m]
      BY <3>4 DEF ByBottom
    <3> QED BY <3>1, <3>3, <3>5
  <2>3. Reads(g)
    BY <2>1, ArraysRead
  <2>4. Coords(Down) = Evens(0, NR - 1)
    BY WholeAxes
  <2> HIDE DEF g, z
  <2>5. NearestOf(g, p, val)
    BY <1>1, <1>2, <2>1, <2>2, <2>4, NearestFacts
  <2> HIDE DEF val
  <2>6. CASE ~OnGround(p)
    BY <2>5, <2>6, CellParts DEF NearestOf, NearestExact, Clean
  <2>7. CASE OnGround(p)
    <3>1. PICK k \in Around4(p, 1) : val = {g[k]}
      BY <2>5, <2>7 DEF NearestOf
    <3>2. k \in Cells
      BY DEF Around4
    <3>3. g[k] = Datum(k) /\ Datum(k) = k
      BY <2>1, <2>3, <3>2, DatumFacts DEF Reads
    <3>4. NearestExact(p, val)
      BY <2>1, <2>7, <3>1, <3>3 DEF NearestExact
    <3> QED BY <3>1, <3>2, <3>3, <3>4, CellParts DEF Clean
  <2> QED BY <2>6, <2>7
<1>4. CASE cfg.type = "tif"
  <2> DEFINE g == ByTop(obj.z)
  <2>1. obj.y = Up /\ Smoothed(obj.z) /\ Reach = 3
    BY <1>1, <1>4 DEF Loaded, Reach
  <2>2. \A n \in Rows, m \in Cols : z[At(Up, 2 * n)][At(XAxis, 2 * m)] = g[<<n, m>>]
    <3> TAKE n \in Rows, m \in Cols
    <3>1. At(Up, 2 * n) = n /\ At(XAxis, 2 * m) = m
      BY WholeAxes
    <3>2. z[n] = obj.z[NR - 1 - n]
      BY FlipFacts
    <3>3. <<n, m>> \in Cells /\ <<n, m>>[1] = n /\ <<n, m>>[2] = m
      BY CellParts
    <3>4. g[<<n, m>>] = obj.z[NR - 1 - n][m]
      BY <3>3 DEF ByTop
    <3> QED BY <3>1, <3>2, <3>4
  <2>3. Coords(Up) = Evens(0, NR - 1)
    BY WholeAxes
  <2>4. \A k \in Cells : \E l \in Cells : Near1(k, l) /\ g[k] = ByTop(Unfiltered)[l]
    BY <2>1 DEF Smoothed
  <2> HIDE DEF g, z
  <2>5. NearestOf(g, p, val)
    BY <1>1, <1>2, <2>1, <2>2, <2>3, NearestFacts
  <2> HIDE DEF val
  <2>6. CASE ~OnGround(p)
    BY <2>5, <2>6, CellParts DEF NearestOf, NearestExact, Clean
  <2>7. CASE OnGround(p)
    <3>1. PICK k \in Around4(p, 1) : val = {g[k]}
      BY <2>5, <2>7 DEF NearestOf
    <3>2. k \in Cells
      BY DEF Around4
    <3>3. PICK l \in Cells : Near1(k, l) /\ g[k] = ByTop(Unfiltered)[l]
      BY <2>4, <3>2
    <3>4. l \in Around4(p, 3) /\ l \in Around4(p, 4)
      BY <1>1, <3>3, NearNear
    <3>5. g[k] = Datum(l) \/ (g[k] = NaN /\ l \in cfg.voids \cup Steep)
      BY <3>3, UnfilteredFacts
    <3>6. NearestExact(p, val)
      <4>1. CASE g[k] = Datum(l)
        BY <2>1, <2>7, <3>1, <3>4, <4>1 DEF NearestExact
      <4>2. CASE g[k] = NaN /\ l \in cfg.voids \cup Steep
        <5>1. Reach + 1 = 4
          BY <2>1
        <5> QED BY <2>7, <3>1, <3>4, <4>2, <5>1 DEF NearestExact
      <4> QED BY <3>5, <4>1, <4>2
    <3>7. g[k] # Fill
      BY <3>5, CellParts
    <3>8. g[k] = Void => FirstOnly
      <4>1. NR - 1 - l[1] \in Rows /\ l[2] \in Cols
        BY CellParts, RowFacts
      <4>2. ByTop(Unfiltered)[l] = Unfiltered[NR - 1 - l[1]][l[2]]
        BY DEF ByTop
      <4> QED BY <1>1, <3>3, <4>1, <4>2, UnfilteredVoid DEF FirstOnly
    <3> QED BY <3>1, <3>6, <3>7, <3>8 DEF Clean
  <2> QED BY <2>6, <2>7
<1> QED BY <1>1, <1>3, <1>4
-----------------------------------------------------------------------------
(* The answers of masks.                                                   *)

(* np.around() stays within half a cell.                                   *)
LEMMA AroundFacts ==
    ASSUME NEW v \in Int
    PROVE  /\ Around(v) \in Int /\ Close(v, Around(v), 1)
           /\ v % 2 = 0 => 2 * Around(v) = v
           /\ \A N \in Nat : 0 <= v /\ v <= 2 * (N - 1) => Around(v) \in 0..N - 1
<1> DEFINE h == v \div 2
<1>1. h \in Int /\ ((v = 2 * h /\ v % 2 = 0) \/ (v = 2 * h + 1 /\ v % 2 = 1))
  OBVIOUS
<1>2. CASE v % 2 = 0
  <2>1. Around(v) = h /\ v = 2 * h
    BY <1>1, <1>2 DEF Around
  <2> HIDE DEF h
  <2> QED BY <1>1, <2>1 DEF Close
<1>3. CASE v % 2 # 0
  <2>1. v = 2 * h + 1
    BY <1>1, <1>3
  <2>2. (v - 1) \div 2 = h /\ (v + 1) \div 2 = h + 1
    BY <2>1
  <2>3. Around(v) = h \/ Around(v) = h + 1
    BY <1>3, <2>2 DEF Around
  <2> HIDE DEF h
  <2> QED BY <1>1, <1>3, <2>1, <2>3 DEF Close
<1> QED BY <1>2, <1>3

(* The cell of a mask that a point is in.                                  *)
LEMMA MaskCells ==
    ASSUME cfg \in Setups, Loaded, obj.status = "ok", cfg.class = "mask", NEW p \in Int \X Int
    PROVE  /\ InGrid(p) => /\ MaskCell(p) = <<Around(p[1]), Around(p[2])>>
                           /\ MaskCell(p) \in Around4(p, 1)
           /\ OnGround(p) => InGrid(p)
           /\ p[1] % 2 = 0 /\ p[2] % 2 = 0 =>
                Around4(p, 0) = IF InGrid(p) THEN {MaskCell(p)} ELSE {}
<1> DEFINE y == Around(p[1])
           x == Around(p[2])
           k == <<y, x>>
<1>1. p[1] \in Int /\ p[2] \in Int
  OBVIOUS
<1>2. /\ y \in Int /\ Close(p[1], y, 1) /\ (p[1] % 2 = 0 => 2 * y = p[1])
      /\ x \in Int /\ Close(p[2], x, 1) /\ (p[2] % 2 = 0 => 2 * x = p[2])
  BY <1>1, AroundFacts
<1>3. InGrid(p) <=> y \in Rows /\ x \in Cols
  BY DEF InGrid
<1>4. OnGround(p) => InGrid(p)
  <2> SUFFICES ASSUME OnGround(p) PROVE y \in Rows /\ x \in Cols
    BY <1>3
  <2>1. /\ NR \in Nat /\ 0 <= p[1] /\ p[1] <= 2 * (NR - 1)
        /\ NC \in Nat /\ 0 <= p[2] /\ p[2] <= 2 * (NC - 1)
    BY <1>1, RowFacts DEF OnGround
  <2> QED BY <1>1, <2>1, AroundFacts DEF Rows, Cols
<1>5. InGrid(p) => MaskCell(p) = k /\ k \in Cells
  <2> SUFFICES ASSUME InGrid(p) PROVE MaskCell(p) = k /\ k \in Cells
    OBVIOUS
  <2>1. y \in Rows /\ x \in Cols /\ MaskCell(p) = obj.z[y][x]
    BY <1>3 DEF MaskCell
  <2>2. obj.z = BottomFirst /\ cfg.voids = {}
    BY SetupVoids DEF Loaded
  <2> HIDE DEF y, x
  <2>3. BottomFirst[y][x] = Datum(k) /\ k \in Cells
    BY <2>1, RowsOfFiles, CellParts
  <2>4. Datum(k) = k
    <3> HIDE DEF k
    <3> QED BY <2>2, <2>3, DatumFacts
  <2> QED BY <2>1, <2>2, <2>3, <2>4
<1>6. k[1] = y /\ k[2] = x
  OBVIOUS
<1> HIDE DEF k, y, x
<1>7. InGrid(p) => k \in Around4(p, 1)
  BY <1>2, <1>5, <1>6 DEF Around4
<1>8. ASSUME p[1] % 2 = 0, p[2] % 2 = 0
      PROVE  Around4(p, 0) = IF InGrid(p) THEN {MaskCell(p)} ELSE {}
  <2>1. 2 * y = p[1] /\ 2 * x = p[2]
    BY <1>2, <1>8
  <2>2. \A c \in Cells : Close(p[1], c[1], 0) /\ Close(p[2], c[2], 0) <=> c[1] = y /\ c[2] = x
    <3> TAKE c \in Cells
    <3>1. c[1] \in Int /\ c[2] \in Int
      BY CellParts, RowFacts
    <3>2. Close(p[1], c[1], 0) <=> 2 * c[1] = p[1]
      BY <1>1, <3>1 DEF Close
    <3>3. Close(p[2], c[2], 0) <=> 2 * c[2] = p[2]
      BY <1>1, <3>1 DEF Close
    <3> QED BY <1>1, <1>2, <2>1, <3>1, <3>2, <3>3
  <2>3. \A c \in Cells : c[1] = y /\ c[2] = x <=> c = k /\ y \in Rows /\ x \in Cols
    BY <1>6, CellParts DEF k
  <2>4. \A c : c \in Around4(p, 0) <=> c \in Cells /\ c = k /\ InGrid(p)
    BY <1>3, <2>2, <2>3 DEF Around4
  <2> QED BY <1>5, <2>4
<1> QED BY <1>4, <1>5, <1>7, <1>8 DEF k, y, x

LEMMA MaskAnswers ==
    ASSUME CInv, Loaded, NEW q \in Queries, MaskValues(q)
    PROVE  MaskExact' /\ ans'.op = "mask"
<1> DEFINE val == [p \in q |-> IF p # NaNPoint /\ InGrid(p) THEN MaskCell(p) ELSE Unknown]
<1>1. ans' = [op |-> "mask", at |-> q, val |-> val] /\ obj.status = "ok" /\ cfg.class = "mask"
  BY DEF MaskValues
<1>2. cfg \in Setups /\ q \subseteq Int \X Int
  BY GridsAssumption DEF CInv, Types
<1>3. ASSUME NEW p \in q
      PROVE  /\ val[p] # Unknown => val[p] \in Around4(p, 1)
             /\ val[p] = Unknown => ~OnGround(p)
  <2>1. p \in Int \X Int
    BY <1>2
  <2>2. /\ InGrid(p) => MaskCell(p) \in Around4(p, 1)
        /\ OnGround(p) => InGrid(p)
    BY <1>1, <1>2, <2>1, MaskCells
  <2>3. Unknown \notin Around4(p, 1)
    BY CellParts DEF Around4
  <2>4. val[p] = IF p # NaNPoint /\ InGrid(p) THEN MaskCell(p) ELSE Unknown
    OBVIOUS
  <2> QED BY <2>2, <2>3, <2>4, CellParts
<1> HIDE DEF val
<1>4. ans'.at = q /\ ans'.val = val /\ ans'.op = "mask"
  BY <1>1
<1> QED BY <1>3, <1>4 DEF MaskExact

LEMMA InsideAnswers ==
    ASSUME CInv, Loaded, NEW q \in Queries, NEW basins \in Basins, PointsInside(q, basins)
    PROVE  InsideCounted' /\ ans'.op \in {"raised", "inside"}
<1> DEFINE M == Counted(q, basins)
           val == {m[1] : m \in M}
<1>1. obj.status = "ok" /\ cfg.class = "mask"
  BY DEF PointsInside
<1>2. cfg \in Setups /\ q \subseteq Int \X Int /\ IsFiniteSet(q) /\ basins \in Seq(Nat)
  BY GridsAssumption DEF CInv, Types
<1>3. CASE NaNPoint \in q
  <2>1. ans'.op = "raised"
    BY <1>3 DEF PointsInside, Raised
  <2> QED BY <2>1 DEF InsideCounted
<1>4. CASE NaNPoint \notin q
  <2>1. ans' = [op |-> "inside", at |-> q, basins |-> basins, val |-> val, n |-> Cardinality(M)]
    BY <1>4 DEF PointsInside
  <2> HIDE DEF M, val
  <2>2. /\ ans'.op = "inside" /\ ans'.at = q /\ ans'.basins = basins /\ ans'.val = val
        /\ ans'.n = Cardinality(M)
    BY <2>1
  <2> DEFINE Asked(p, k) == IF basins = <<>> THEN Surface[MaskCell(p)] > 0
                            ELSE k \in DOMAIN basins /\ basins[k] = Surface[MaskCell(p)]
  <2>3. /\ M \subseteq q \X (0..Len(basins))
        /\ \A p \in q, k \in 0..Len(basins) : <<p, k>> \in M <=> InGrid(p) /\ Asked(p, k)
        /\ \A m \in M : InGrid(m[1]) /\ Asked(m[1], m[2])
    BY DEF M, Counted
  <2>4. Len(basins) \in Nat /\ DOMAIN basins = 1..Len(basins) /\ (basins = <<>> => Len(basins) = 0)
    BY <1>2
  <2>5. ASSUME NEW p \in q
        PROVE  p \in val <=> \E k \in 0..Len(basins) : InGrid(p) /\ Asked(p, k)
    <3>1. ASSUME p \in val PROVE \E k \in 0..Len(basins) : InGrid(p) /\ Asked(p, k)
      <4>1. PICK m \in M : p = m[1]
        BY <3>1 DEF val
      <4>2. m[2] \in 0..Len(basins)
        BY <2>3
      <4> HIDE DEF Asked
      <4> QED BY <2>3, <4>1, <4>2
    <3>2. ASSUME NEW k \in 0..Len(basins), InGrid(p), Asked(p, k) PROVE p \in val
      <4>1. <<p, k>> \in M
        BY <2>3, <3>2
      <4>2. <<p, k>>[1] = p
        OBVIOUS
      <4> QED BY <4>1, <4>2 DEF val
    <3> HIDE DEF Asked
    <3> QED BY <3>1, <3>2
  <2>6. ASSUME NEW p \in q, p[1] % 2 = 0, p[2] % 2 = 0
        PROVE  p \in val <=>
                 \E c \in Around4(p, 0) :
                   IF basins = <<>> THEN Surface[c] > 0
                   ELSE Surface[c] \in {basins[k] : k \in DOMAIN basins}
    <3>1. p \in Int \X Int
      BY <1>2
    <3>2. Around4(p, 0) = IF InGrid(p) THEN {MaskCell(p)} ELSE {}
      BY <1>1, <1>2, <2>6, <3>1, MaskCells
    <3>3. (\E k \in 0..Len(basins) : Asked(p, k))
            <=> IF basins = <<>> THEN Surface[MaskCell(p)] > 0
                ELSE Surface[MaskCell(p)] \in {basins[k] : k \in DOMAIN basins}
      <4>1. CASE basins = <<>>
        <5>1. 0 \in 0..Len(basins)
          BY <2>4
        <5> QED BY <4>1, <5>1
      <4>2. CASE basins # <<>>
        <5>1. DOMAIN basins \subseteq 0..Len(basins)
          BY <2>4
        <5> QED BY <4>2, <5>1
      <4> QED BY <4>1, <4>2
    <3> HIDE DEF Asked
    <3>4. p \in val <=> InGrid(p) /\ \E k \in 0..Len(basins) : Asked(p, k)
      BY <2>5
    <3> QED BY <3>2, <3>3, <3>4
  <2>7. ASSUME \A k, l \in DOMAIN basins : basins[k] = basins[l] => k = l
        PROVE  Cardinality(M) = Cardinality(val)
    <3>1. IsFiniteSet(M)
      <4>1. IsFiniteSet(0..Len(basins))
        BY <2>4, FS_Interval
      <4>2. IsFiniteSet(q \X (0..Len(basins)))
        BY <1>2, <4>1, FS_Product
      <4> QED BY <2>3, <4>2, FS_Subset
    <3> DEFINE f == [m \in M |-> m[1]]
    <3>2. val = {f[m] : m \in M} /\ f = [m \in M |-> f[m]]
      BY DEF val
    <3>3. ASSUME NEW s \in M, NEW t \in M, f[s] = f[t] PROVE s = t
      <4>1. s[1] = t[1] /\ s = <<s[1], s[2]>> /\ t = <<t[1], t[2]>>
        BY <2>3, <3>3
      <4>2. s[2] \in 0..Len(basins) /\ t[2] \in 0..Len(basins)
        BY <2>3
      <4>3. s[2] = t[2]
        <5>1. CASE basins = <<>>
          BY <2>4, <4>2, <5>1
        <5>2. CASE basins # <<>>
          BY <2>3, <2>7, <4>1, <5>2
        <5> QED BY <5>1, <5>2
      <4> QED BY <4>1, <4>3
    <3> HIDE DEF f
    <3> QED BY <3>1, <3>2, <3>3, FiniteImage
  <2>8. \/ Cardinality(M) = Cardinality(val)
        \/ \E k, l \in DOMAIN basins : k # l /\ basins[k] = basins[l]
    BY <2>7
  <2> QED BY <2>2, <2>6, <2>8 DEF InsideCounted
<1> QED BY <1>3, <1>4
-----------------------------------------------------------------------------
(* The invariant of the answers.                                           *)

Answers == {"none", "raised", "interp", "segment", "mask", "inside"}

VInv == /\ SInv /\ Loaded /\ ans.op \in Answers
        /\ InterpExact /\ VoidsRemoved /\ MaskExact /\ InsideCounted

LEMMA ClassOfInterp ==
    ASSUME NEW q \in Queries,
           InterpDem(q) \/ InterpSlopes(q) \/ InterpRoughness(q) \/ InterpDhdt(q)
    PROVE  /\ cfg' = cfg /\ obj' = obj /\ cfg.class \in Gridded \cup {"dhdt"}
           /\ ans'.op \in {"interp", "raised"}
           /\ obj.status = "ok" =>
                /\ ans'.op = "interp" /\ ans'.at = q
                /\ cfg.class \in Gridded => ans'.val = Interp(q)
                /\ cfg.class = "dhdt" =>
                     ans'.val = [p \in q |-> Nearest(obj.y, XAxis, Flip(obj.z, NR), p)]
<1>1. ASSUME InterpDem(q) \/ InterpSlopes(q) \/ InterpRoughness(q)
      PROVE  /\ cfg' = cfg /\ obj' = obj /\ cfg.class \in Gridded
             /\ ans' = IF obj.status = "ok" \/ (ZarrType /\ q = {NaNPoint})
                       THEN [op |-> "interp", at |-> q, val |-> Interp(q)]
                       ELSE Raised
  BY <1>1 DEF InterpDem, InterpSlopes, InterpRoughness, Ask, Gridded
<1>2. ASSUME InterpDhdt(q)
      PROVE  /\ cfg' = cfg /\ obj' = obj /\ cfg.class = "dhdt"
             /\ ans' = IF obj.status = "ok" \/ (ZarrType /\ q = {NaNPoint})
                       THEN [op |-> "interp", at |-> q,
                             val |-> [p \in q |-> Nearest(obj.y, XAxis, Flip(obj.z, NR), p)]]
                       ELSE Raised
  BY <1>2 DEF InterpDhdt, Ask
<1>3. "dhdt" \notin Gridded
  BY DEF Gridded
<1>4. CASE InterpDem(q) \/ InterpSlopes(q) \/ InterpRoughness(q)
  BY <1>1, <1>3, <1>4 DEF Raised
<1>5. CASE InterpDhdt(q)
  BY <1>2, <1>3, <1>5 DEF Raised
<1> QED BY <1>4, <1>5

(* What InterpExact says of the value of a point.                          *)
ExactAt(p, val) ==
    LET around == {Datum(c) : c \in Around4(p, Reach)}
    IN IF ~OnGround(p) THEN val = {NaN}
       ELSE /\ \/ /\ val = {NaN}
                  /\ Around4(p, Reach + 1) \cap (cfg.voids \cup Steep) # {}
               \/ cfg.class = "dhdt" /\ \E v \in around : val = {v}
               \/ cfg.class # "dhdt" /\ val = around
            /\ \A c \in val \cap Cells : OnGroundNear(p, c, Reach + 1)

LEMMA SameExact ==
    ASSUME cfg' = cfg
    PROVE  /\ Reach' = Reach /\ Steep' = Steep /\ \A c : Datum(c)' = Datum(c)
           /\ \A p, c, d : OnGroundNear(p, c, d)' = OnGroundNear(p, c, d)
BY SameGround DEF Reach, Steep, Beyond, RateOf, Datum

(* The places of an answer are close to the point on the ground, too.      *)
LEMMA ValuesNearby ==
    ASSUME NEW p \in Int \X Int, NEW d \in Nat, NEW val,
           \A e \in val : e = NaN \/ \E k \in Around4(p, d) : e = Datum(k)
    PROVE  \A c \in val \cap Cells : OnGroundNear(p, c, d + 1)
<1> TAKE c \in val \cap Cells
<1>1. PICK k \in Around4(p, d) : c = Datum(k)
  BY CellParts
<1>2. k \in Cells /\ Close(p[1], k[1], d) /\ Close(p[2], k[2], d)
  BY DEF Around4
<1>3. c = k
  BY <1>1, <1>2, CellParts
<1> QED BY <1>2, <1>3, CellsNearby

LEMMA InterpIsExact ==
    ASSUME VInv, NEW q \in Queries,
           InterpDem(q) \/ InterpSlopes(q) \/ InterpRoughness(q) \/ InterpDhdt(q)
    PROVE  InterpExact' /\ VoidsRemoved'
<1>1. /\ cfg' = cfg /\ obj' = obj /\ cfg.class \in Gridded \cup {"dhdt"}
      /\ ans'.op \in {"interp", "raised"}
  BY ClassOfInterp
<1> SUFFICES ASSUME Sound PROVE InterpExact' /\ VoidsRemoved'
  BY <1>1 DEF InterpExact, VoidsRemoved, Sound
<1>2. obj.status = "ok" /\ CInv /\ InMemory /\ Loaded
  BY DEF Sound, VInv, SInv
<1>3. ans'.op = "interp" /\ ans'.at = q
  BY <1>2, ClassOfInterp
<1> DEFINE val == ans'.val
<1>4. ASSUME NEW p \in q PROVE ExactAt(p, val[p]) /\ Clean(val[p])
  <2>0. p \in Int \X Int /\ Reach \in Nat
    BY GridsAssumption DEF Reach
  <2>1. CASE cfg.class \in Gridded
    <3>0. val[p] = Interp(q)[p]
      BY <1>2, <2>1, ClassOfInterp
    <3>1. cfg.class # "dhdt" /\ Reach = 1 /\ Reach + 1 = 2
      BY <2>1 DEF Gridded, Reach
    <3>2. LinearExact(p, val[p]) /\ Clean(val[p])
      BY <1>2, <2>1, <3>0, InterpAnswers
    <3> HIDE DEF val
    <3>3. CASE ~OnGround(p)
      BY <3>2, <3>3 DEF LinearExact, ExactAt
    <3>4. CASE OnGround(p)
      <4>1. \/ val[p] = {NaN} /\ Around4(p, 2) \cap cfg.voids # {}
            \/ val[p] = {Datum(k) : k \in Around4(p, 1)}
        BY <3>2, <3>4 DEF LinearExact
      <4>2. \A e \in val[p] : e = NaN \/ \E k \in Around4(p, 1) : e = Datum(k)
        BY <4>1
      <4>3. \A c \in val[p] \cap Cells : OnGroundNear(p, c, Reach + 1)
        <5>1. \A c \in val[p] \cap Cells : OnGroundNear(p, c, 1 + 1)
          BY <2>0, <4>2, ValuesNearby
        <5> QED BY <3>1, <5>1
      <4>4. CASE val[p] = {NaN} /\ Around4(p, 2) \cap cfg.voids # {}
        BY <3>1, <3>2, <3>4, <4>3, <4>4 DEF ExactAt
      <4>5. CASE val[p] = {Datum(k) : k \in Around4(p, 1)}
        BY <3>1, <3>2, <3>4, <4>3, <4>5 DEF ExactAt
      <4> QED BY <4>1, <4>4, <4>5, <3>2
    <3> QED BY <3>2, <3>3, <3>4
  <2>2. CASE cfg.class = "dhdt"
    <3>1. val[p] = Nearest(obj.y, XAxis, Flip(obj.z, NR), p)
      BY <1>2, <2>2, ClassOfInterp
    <3>2. NearestExact(p, val[p]) /\ Clean(val[p])
      BY <1>2, <2>2, <3>1, DhdtAnswers
    <3> HIDE DEF val
    <3>3. CASE ~OnGround(p)
      BY <3>2, <3>3 DEF NearestExact, ExactAt
    <3>4. CASE OnGround(p)
      <4>1. \A e \in val[p] : e = NaN \/ \E k \in Around4(p, Reach) : e = Datum(k)
        BY <3>2, <3>4 DEF NearestExact
      <4>2. \A c \in val[p] \cap Cells : OnGroundNear(p, c, Reach + 1)
        BY <2>0, <4>1, ValuesNearby
      <4> QED BY <2>2, <3>2, <3>4, <4>2 DEF NearestExact, ExactAt
    <3> QED BY <3>2, <3>3, <3>4
  <2> QED BY <1>1, <2>1, <2>2
<1>5. InterpExact'
  <2>1. \A p \in q : ExactAt(p, ans'.val[p])
    BY <1>4
  <2> QED BY <1>1, <1>3, <2>1, SameExact DEF InterpExact, ExactAt
<1>6. VoidsRemoved'
  <2> DEFINE used == UNION {val[p] : p \in q}
  <2>1. \A e \in used : e # Fill /\ (e = Void => FirstOnly)
    BY <1>4 DEF Clean
  <2>2. Fill \notin used /\ (Void \in used => FirstOnly)
    BY <2>1
  <2>3. used = UNION {ans'.val[p] : p \in ans'.at}
    BY <1>3
  <2> HIDE DEF used
  <2> QED BY <1>1, <1>3, <2>2, <2>3 DEF VoidsRemoved, FirstOnly
<1> QED BY <1>5, <1>6

LEMMA SegmentIsClean ==
    ASSUME VInv, NEW b \in Bounds, Segments(b)
    PROVE  VoidsRemoved' /\ ans'.op \in {"raised", "segment"}
<1>1. GetSegment(b) /\ cfg.class \in Gridded
  BY DEF Segments, DemSegment, SlopesSegment, RoughnessSegment, Gridded
<1>2. cfg' = cfg /\ obj' = obj
  BY <1>1, Zenon DEF GetSegment
<1> DEFINE z == IF ZarrType THEN zarr.z ELSE obj.z
           Item(i) == <<IF z[i[1]][i[2]] = NaN THEN NaNPoint
                        ELSE <<obj.y[i[1]], XAxis[i[2]]>>, z[i[1]][i[2]]>>
           I == SegmentRows(b) \X SegmentCols(b)
           val == {Item(i) : i \in I}
<1>3. ans' = IF obj.status # "ok" THEN Raised ELSE [op |-> "segment", at |-> b, val |-> val]
  BY <1>1 DEF GetSegment
<1> HIDE DEF val
<1>4. ans'.op \in {"raised", "segment"}
  BY <1>3 DEF Raised
<1>5. ASSUME Sound PROVE VoidsRemoved'
  <2>1. obj.status = "ok" /\ CInv /\ InMemory /\ Loaded /\ cfg \in Setups
    BY <1>5 DEF Sound, VInv, SInv, CInv, Types
  <2>2. ans'.op = "segment" /\ ans'.val = val
    BY <1>3, <2>1
  <2>3. b[1] \in Int /\ b[2] \in Int /\ b[3] \in Int /\ b[4] \in Int /\ b[1] <= b[2]
    BY GridsAssumption
  <2>4. ASSUME NEW e \in val PROVE e[2] # Fill /\ (e[2] = Void => FirstOnly)
    <3>1. PICK i \in I : e = Item(i)
      BY DEF val
    <3>2. PICK r \in SegmentRows(b), c \in SegmentCols(b) : i = <<r, c>>
      BY <3>1
    <3>3. e[2] = z[r][c]
      BY <3>1, <3>2
    <3>4. cfg.type # "nc"
      <4> SUFFICES ASSUME cfg.type = "nc" PROVE FALSE
        OBVIOUS
      <4>1. obj.y = Up
        BY <1>1, <2>1 DEF InMemory
      <4>2. SegmentRows(b) = {}
        BY <2>3, <4>1, UpRows DEF SegmentRows
      <4> QED BY <4>2
    <3>5. obj.y = Down
      BY <1>1, <2>1, <3>4 DEF InMemory
    <3>6. r \in Rows /\ c \in Cols
      <4>1. /\ ArgMin(Down, b[2]) \in Rows /\ ArgMin(Down, b[1]) \in Rows
            /\ ArgMin(XAxis, b[3]) \in Cols /\ ArgMin(XAxis, b[4]) \in Cols
        BY <2>3, NearestIndex, AxisFacts
      <4>2. /\ r \in ArgMin(Down, b[2])..ArgMin(Down, b[1]) - 1
            /\ c \in ArgMin(XAxis, b[3])..ArgMin(XAxis, b[4]) - 1
        BY <3>2, <3>5 DEF SegmentRows, SegmentCols
      <4> QED BY <4>1, <4>2, RowFacts DEF Rows, Cols
    <3>7. z \in {TopFirst, NaNIn(TopFirst)}
      BY <1>1, <2>1, <1>5, <3>4 DEF InMemory, CInv, Open, Full
    <3>8. z[r][c] # Fill
      <4> DEFINE k == <<NR - 1 - r, c>>
      <4>1. k \in Cells
        BY <3>6, CellParts, RowFacts
      <4>2. TopFirst[r][c] = Datum(k) /\ NaNIn(TopFirst)[r][c] \in {Datum(k), NaN}
        BY <3>6, RowsOfFiles
      <4>3. z[r][c] \in {Datum(k), NaN}
        <5> HIDE DEF k, z
        <5> QED BY <3>7, <4>2
      <4> HIDE DEF k, z
      <4> QED BY <4>1, <4>3, CellParts
    <3>9. z[r][c] = Void => FirstOnly
      <4>1. CASE ZarrType
        <5>1. z = NaNIn(TopFirst)
          BY <1>5, <2>1, <4>1 DEF CInv, Open, Full
        <5> QED BY <3>6, <5>1, NoVoidLeft
      <4>2. CASE ~ZarrType
        BY <1>1, <2>1, <3>6, <4>2, VoidInMemory
      <4> QED BY <4>1, <4>2
    <3> QED BY <3>3, <3>8, <3>9
  <2> DEFINE used == {e[2] : e \in val}
  <2>5. Fill \notin used /\ (Void \in used => FirstOnly)
    BY <2>4
  <2>6. used = {e[2] : e \in ans'.val}
    BY <2>2
  <2> HIDE DEF used
  <2> QED BY <1>2, <2>2, <2>5, <2>6 DEF VoidsRemoved, FirstOnly
<1>6. CASE ~Sound
  <2>1. ~Sound'
    BY <1>2, <1>6 DEF Sound
  <2> QED BY <1>4, <2>1 DEF VoidsRemoved
<1> QED BY <1>4, <1>5, <1>6

LEMMA InitVInv == Init => VInv
<1> SUFFICES ASSUME Init PROVE VInv
  OBVIOUS
<1>1. obj.status = "new" /\ ans.op = "none"
  BY DEF Init, Unloaded, NoAnswer
<1> QED BY <1>1, InitSInv
        DEF VInv, Loaded, Answers, InterpExact, VoidsRemoved, MaskExact, InsideCounted

LEMMA NextVInv == VInv /\ [Next]_vars => VInv'
<1> SUFFICES ASSUME VInv, [Next]_vars PROVE VInv'
  OBVIOUS
<1>1. SInv /\ SInv' /\ CInv /\ Types /\ Loaded
  BY NextSInv DEF VInv, SInv, CInv
<1>2. ASSUME cfg' = cfg, obj'.status = obj.status, obj'.y = obj.y, obj'.z = obj.z
      PROVE  Loaded'
  BY <1>1, <1>2, SameArrays DEF Loaded, Smoothed, ByTop
<1>3. ASSUME ans'.op \in {"none", "raised"}
      PROVE  InterpExact' /\ VoidsRemoved' /\ MaskExact' /\ InsideCounted' /\ ans'.op \in Answers
  BY <1>3 DEF InterpExact, VoidsRemoved, MaskExact, InsideCounted, Answers
<1>4. CASE UNCHANGED vars
  <2>1. cfg' = cfg /\ obj' = obj /\ ans' = ans
    BY <1>4 DEF vars
  <2>2. InterpExact'
    BY <2>1, SameExact DEF VInv, InterpExact, Sound
  <2>3. VoidsRemoved' /\ MaskExact' /\ InsideCounted' /\ ans'.op \in Answers
    BY <2>1 DEF VInv, VoidsRemoved, MaskExact, InsideCounted, Sound
  <2> QED BY <1>1, <1>2, <2>1, <2>2, <2>3 DEF VInv
<1>5. CASE \/ ConvStart \/ RemoveSome \/ RemoveRest \/ ExtentRejected \/ OpenArrays
           \/ WriteWindow \/ SaveMetadata \/ Kill
  <2>1. cfg' = cfg /\ ans' = NoAnswer /\ (obj' = obj \/ obj' = Touched)
    BY <1>5 DEF ConvStart, RemoveSome, RemoveRest, ExtentRejected, OpenArrays, WriteWindow,
                SaveMetadata, Kill
  <2>2. obj'.status = obj.status /\ obj'.y = obj.y /\ obj'.z = obj.z
    BY <1>1, <2>1 DEF Types, Touched, ObjFields
  <2> QED BY <1>1, <1>2, <1>3, <2>1, <2>2 DEF VInv, NoAnswer
<1>6. CASE Loads
  <2>1. ans' = ans /\ obj.status = "new"
    BY <1>1, <1>6, LoadIs, LoadFacts
  <2>2. ans'.op = "none"
    BY <1>1, <2>1 DEF Types
  <2> QED BY <1>1, <1>3, <1>6, <2>2, LoadLoaded DEF VInv
<1>7. CASE CleanUps
  <2>1. obj'.status = "closed" /\ ans' = NoAnswer
    BY <1>1, <1>7, CleanUpFacts
  <2>2. Loaded'
    BY <2>1 DEF Loaded
  <2> QED BY <1>1, <1>3, <2>1, <2>2 DEF VInv, NoAnswer
<1>8. CASE Points
  <2>1. cfg' = cfg /\ obj' = obj
    BY <1>8, QuestionFacts
  <2>2. ASSUME NEW q \in Queries,
               InterpDem(q) \/ InterpSlopes(q) \/ InterpRoughness(q) \/ InterpDhdt(q)
        PROVE  VInv'
    <3>1. InterpExact' /\ VoidsRemoved'
      BY <2>2, InterpIsExact
    <3>2. ans'.op \in {"interp", "raised"}
      BY <2>2, ClassOfInterp
    <3>3. MaskExact' /\ InsideCounted' /\ ans'.op \in Answers
      BY <3>2 DEF MaskExact, InsideCounted, Answers
    <3> QED BY <1>1, <1>2, <2>1, <3>1, <3>3 DEF VInv
  <2>3. ASSUME NEW q \in Queries, MaskValues(q) PROVE VInv'
    <3>1. MaskExact' /\ ans'.op = "mask"
      BY <1>1, <2>3, MaskAnswers
    <3>2. InterpExact' /\ VoidsRemoved' /\ InsideCounted' /\ ans'.op \in Answers
      BY <3>1 DEF InterpExact, VoidsRemoved, InsideCounted, Answers
    <3> QED BY <1>1, <1>2, <2>1, <3>1, <3>2 DEF VInv
  <2>4. ASSUME NEW q \in Queries, NEW basins \in Basins, PointsInside(q, basins) PROVE VInv'
    <3>1. InsideCounted' /\ ans'.op \in {"raised", "inside"}
      BY <1>1, <2>4, InsideAnswers
    <3>2. InterpExact' /\ VoidsRemoved' /\ MaskExact' /\ ans'.op \in Answers
      BY <3>1 DEF InterpExact, VoidsRemoved, MaskExact, Answers
    <3> QED BY <1>1, <1>2, <2>1, <3>1, <3>2 DEF VInv
  <2> QED BY <1>8, <2>2, <2>3, <2>4, Zenon DEF Points
<1>9. CASE \E b \in Bounds : Segments(b)
  <2>1. cfg' = cfg /\ obj' = obj
    BY <1>9, QuestionFacts
  <2>2. VoidsRemoved' /\ ans'.op \in {"raised", "segment"}
    BY <1>9, SegmentIsClean
  <2>3. InterpExact' /\ MaskExact' /\ InsideCounted' /\ ans'.op \in Answers
    BY <2>2 DEF InterpExact, MaskExact, InsideCounted, Answers
  <2> QED BY <1>1, <1>2, <2>1, <2>2, <2>3 DEF VInv
<1> QED BY <1>4, <1>5, <1>6, <1>7, <1>8, <1>9, NextCases

(* Whatever the format of the file, the order of its rows, the direction   *)
(* of the axes and the part of the store that is read, every answer of a   *)
(* grid that no conversion has torn or touched is made of the cells whose  *)
(* nodes are around its own point (for the filtered dh/dt, or next to      *)
(* those), and their centres are near it on the ground; a NaN has a reason *)
(* there; masks answer with the cell a point is in.  For a grid of any     *)
(* size, any voids, any dh/dt, any points asked for together and any basin *)
(* numbers (dems.py:126-166, 901-1020, dhdt.py:118-168, 249-277,           *)
(* masks.py:679-833).                                                      *)
THEOREM ValuesAreExact == Spec => []ValuesExact
<1>1. VInv => ValuesExact
  <2> SUFFICES ASSUME VInv PROVE ValuesExact
    OBVIOUS
  <2>1. Types
    BY DEF VInv, SInv, CInv
  <2>2. StoreOK(zarr) /\ StoreOK(flip)
    BY <2>1 DEF Types, Stores, Arrays, StoreOK
  <2>3. /\ conv.pc \in ConvPoints /\ conv.i \in Rows /\ conv.j \in Cols
        /\ conv.starts \in 0..MaxConversions
    BY <2>1 DEF Types, Convs
  <2>4. TypeOK
    BY <2>1, <2>2, <2>3 DEF Types, TypeOK, ConvPoints, Statuses, VInv, Answers
  <2> QED BY <2>4 DEF VInv, ValuesExact
<1> QED BY <1>1, InitVInv, NextVInv, PTL DEF Spec
============================================================================
