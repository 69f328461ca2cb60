------------------------- MODULE OutputFilesProofs -------------------------
(***************************************************************************)
(* Proofs about OutputFiles, for any number of processes, directories,     *)
(* times, leap seconds and dictionaries: races of the processes never lose *)
(* a product, the times in its name are exact to half a second, and        *)
(* exactly the dictionaries with consistent groups are saved.              *)
(*                                                                         *)
(* A product is kept because of what each process knows at its control     *)
(* point: that the parent of the directory it makes next is there, that a  *)
(* directory it could not make is there or was refused, and what the file  *)
(* of its name holds.  DInv says so.  A breakpoint file is decided by its  *)
(* dimensions: BInv says that they are the sizes met so far, each in the   *)
(* group where it was met first.                                           *)
(***************************************************************************)
EXTENDS OutputFiles, WellFoundedInduction, SequenceTheorems, TLAPS

Points == {"isdir", "up", "mkdir", "sleep", "open", "write", "break", "saved", "unsaved",
           "failed"}

(* Another L1b file has the same product name.                             *)
Shared(f) == \E g \in Files \ {f} : ProductName(g) = ProductName(f)

DirTypes ==
    /\ pc \in [Files -> Points] /\ refused \in [Files -> BOOLEAN]
    /\ depth \in [Files -> Nat] /\ \A f \in Files : depth[f] \in 1..Len(Dir(f))
    /\ product \in [ProductNames -> SUBSET Files]
    /\ writing = {f \in Files : pc[f] = "write"}

Tree ==
    \A q \in dirs : /\ q \in Seq(STRING)
                    /\ q \in Made \/ \E f \in Files : IsPrefix(q, Dir(f))
                    /\ Len(q) > 1 => Front(q) \in dirs

(* What a process knows of its directory.                                  *)
Knows(f) ==
    /\ pc[f] = "mkdir" => depth[f] = 1 \/ Path(f, depth[f] - 1) \in dirs
    /\ pc[f] = "sleep" => refused[f] \/ Dir(f) \in dirs
    /\ pc[f] = "open" => Dir(f) \in dirs
    /\ pc[f] = "failed" => refused[f] \/ Shared(f)

(* What the file of its name holds, when no other process has that name.   *)
Holds(f) ==
    \/ Shared(f)
    \/ /\ pc[f] = "write" => product[ProductName(f)] = {}
       /\ pc[f] \in {"break", "saved", "unsaved"} => product[ProductName(f)] = {f}

DInv == DirTypes /\ Tree /\ \A f \in Files : Knows(f) /\ Holds(f)
-----------------------------------------------------------------------------
(* Breakpoint files.                                                       *)

DimSet == [size : Nat, group : Seq(STRING)]
IsArray(e) == e.kind = "array"

(* The sizes of the arrays among the first n entries, and those of ds.     *)
SizesOf(d, n) == UNION {Range(d[k].shape) : k \in {j \in 1..n : IsArray(d[j])}}
SizesIn(ds) == {ds[i].size : i \in DOMAIN ds}

(* Each dimension is in the group where its size occurs first.             *)
GroupsRight(d, ds) ==
    \A i \in DOMAIN ds : /\ ds[i].size \in SizesOf(d, Len(d))
                         /\ ds[i].group = d[FirstWith(d, ds[i].size)].group

(* Entry k can be saved.                                                   *)
SavableAt(d, k) ==
    /\ d[k].kind # "other"
    /\ d[k].kind = "array" =>
         \A z \in Range(d[k].shape) : IsPrefix(d[FirstWith(d, z)].group, d[k].group)

BreakTypes ==
    /\ pc \in [Files -> Points]
    /\ entry \in [Files -> Nat] /\ \A f \in Files : entry[f] \in 0..Len(Dict(f))
    /\ dims \in [Files -> Seq(DimSet)]

Saves(f) ==
    /\ pc[f] # "unsaved" => SizesIn(dims[f]) = SizesOf(Dict(f), entry[f])
    /\ GroupsRight(Dict(f), dims[f])
    /\ \A k \in 1..entry[f] : SavableAt(Dict(f), k)
    /\ pc[f] = "saved" => entry[f] = Len(Dict(f))
    /\ pc[f] = "unsaved" => \E k \in 1..Len(Dict(f)) : ~SavableAt(Dict(f), k)

BInv == BreakTypes /\ \A f \in Files : Saves(f)
-----------------------------------------------------------------------------
(* Numbers.                                                                *)

LEMMA SmallestExists ==
    ASSUME NEW S, S \subseteq Nat, S # {}
    PROVE  \E x \in S : \A y \in S : x <= y
<1>1. \E x \in S : \A y \in S : ~(<<y, x>> \in OpToRel(<, Nat))
  BY NatLessThanWellFounded, WFMin, Zenon
<1>2. \A x, y \in Nat : ~(<<y, x>> \in OpToRel(<, Nat)) => x <= y
  BY DEF OpToRel
<1> QED BY <1>1, <1>2

LEMMA MinFacts ==
    ASSUME NEW S, S \subseteq Nat, S # {}
    PROVE  Min(S) \in S /\ \A y \in S : Min(S) <= y
BY SmallestExists DEF Min

LEMMA MaxFacts ==
    ASSUME NEW n \in Nat, NEW S, S \subseteq 0..n, S # {}
    PROVE  Max(S) \in S /\ \A y \in S : Max(S) >= y
<1> DEFINE T == {n - x : x \in S}
<1>1. T \subseteq Nat /\ T # {}
  <2>1. \A x \in S : n - x \in Nat
    OBVIOUS
  <2> QED BY <2>1
<1>2. PICK t \in T : \A y \in T : t <= y
  BY <1>1, SmallestExists
<1>3. PICK x \in S : t = n - x
  BY <1>2
<1>4. \A y \in S : n - x <= n - y
  BY <1>2, <1>3
<1>5. \A y \in S : x >= y
  BY <1>3, <1>4
<1> QED BY <1>3, <1>5 DEF Max

(* A time is its days, hours, minutes, seconds and milliseconds.           *)
LEMMA ClockParts ==
    ASSUME NEW t \in Int
    PROVE  LET d == t \div Day
               h == (t % Day) \div Hour
               m == (t % Hour) \div Minute
               s == (t % Minute) \div Second
               ms == t % Second
               day == h * Hour + m * Minute + s * Second + ms
           IN  /\ d \in Int /\ h \in 0..23 /\ m \in 0..59 /\ s \in 0..59 /\ ms \in 0..999
               /\ t % Day = day /\ t = d * Day + day
<1> DEFINE d == t \div Day
           h == (t % Day) \div Hour
           m == (t % Hour) \div Minute
           s == (t % Minute) \div Second
           ms == t % Second
<1>1. d \in Int /\ h \in 0..23
  BY SMT DEF Day, Hour, Minute, Second
<1>2. m \in 0..59
  BY SMT DEF Day, Hour, Minute, Second
<1>3. s \in 0..59 /\ ms \in 0..999
  BY SMT DEF Day, Hour, Minute, Second
<1>4. t = Day * d + (t % Day)
  BY SMT DEF Day, Hour, Minute, Second
<1>5. (t % Day) = Hour * h + (t % Hour)
  BY SMT DEF Day, Hour, Minute, Second
<1>6. (t % Hour) = Minute * m + (t % Minute)
  BY SMT DEF Day, Hour, Minute, Second
<1>7. (t % Minute) = Second * s + ms
  BY SMT DEF Day, Hour, Minute, Second
<1>8. t % Day \in Int /\ t % Hour \in Int /\ t % Minute \in Int
  BY SMT DEF Day, Hour, Minute, Second
<1> DEFINE rd == t % Day
           rh == t % Hour
           rm == t % Minute
<1>9. /\ t = Day * d + rd /\ rd = Hour * h + rh /\ rh = Minute * m + rm
      /\ rm = Second * s + ms /\ rd \in Int /\ rh \in Int /\ rm \in Int
  BY <1>4, <1>5, <1>6, <1>7, <1>8, SMT
<1> HIDE DEF d, h, m, s, ms, rd, rh, rm
<1>10. LET day == h * Hour + m * Minute + s * Second + ms
       IN  rd = day /\ t = d * Day + day
  BY <1>1, <1>2, <1>3, <1>9, SMT DEF Day, Hour, Minute, Second
<1> QED BY <1>1, <1>2, <1>3, <1>10 DEF d, h, m, s, ms, rd

(* The clock in a product's name.                                          *)
LEMMA ClockFacts ==
    ASSUME NEW t \in Int
    PROVE  LET c == Clock(t)
               named == c.day * Day + c.h * Hour + c.m * Minute + c.s * Second
           IN  /\ 2 * (named - t) < Second /\ 2 * (t - named) <= Second
               /\ c.h <= 24 /\ c.m < 60 /\ c.s < 60
               /\ c.h = 24 => c.m = 0 /\ c.s = 0 /\ 2 * (t % Day) > 2 * Day - Second
<1> DEFINE d == t \div Day
           h == (t % Day) \div Hour
           m == (t % Hour) \div Minute
           s == (t % Minute) \div Second
           ms == t % Second
<1>1. /\ d \in Int /\ h \in 0..23 /\ m \in 0..59 /\ s \in 0..59 /\ ms \in 0..999
      /\ t % Day = h * Hour + m * Minute + s * Second + ms
      /\ t = d * Day + (h * Hour + m * Minute + s * Second + ms)
  BY ClockParts
<1>2. Clock(t) =
        LET up == IF ms > Second \div 2 THEN 1 ELSE 0
            s1 == s + up
            m1 == m + (IF s1 = 60 THEN 1 ELSE 0)
            h1 == h + (IF m1 = 60 THEN 1 ELSE 0)
        IN  [day |-> d, h |-> h1, m |-> IF m1 = 60 THEN 0 ELSE m1,
             s |-> IF s1 = 60 THEN 0 ELSE s1]
  BY DEF Clock
<1> HIDE DEF d, h, m, s, ms
<1> DEFINE day == t % Day
<1>3. day = h * Hour + m * Minute + s * Second + ms
  BY <1>1
<1> HIDE DEF day
<1> SUFFICES LET c == Clock(t)
                 named == c.day * Day + c.h * Hour + c.m * Minute + c.s * Second
             IN  /\ 2 * (named - t) < Second /\ 2 * (t - named) <= Second
                 /\ c.h <= 24 /\ c.m < 60 /\ c.s < 60
                 /\ c.h = 24 => c.m = 0 /\ c.s = 0 /\ 2 * day > 2 * Day - Second
  BY DEF day
<1>4. CASE ms <= 500
  BY <1>1, <1>2, <1>3, <1>4, SMT DEF Day, Hour, Minute, Second
<1>5. CASE ms > 500 /\ s < 59
  BY <1>1, <1>2, <1>3, <1>5, SMT DEF Day, Hour, Minute, Second
<1>6. CASE ms > 500 /\ s = 59 /\ m < 59
  BY <1>1, <1>2, <1>3, <1>6, SMT DEF Day, Hour, Minute, Second
<1>7. CASE ms > 500 /\ s = 59 /\ m = 59
  BY <1>1, <1>2, <1>3, <1>7, SMT DEF Day, Hour, Minute, Second
<1> QED BY <1>1, <1>4, <1>5, <1>6, <1>7

(* Two times with one name are within a second of each other.              *)
LEMMA ClockTells ==
    ASSUME NEW t \in Int, NEW u \in Int, Clock(t) = Clock(u)
    PROVE  Near(t, u)
<1> DEFINE Named(c) == c.day * Day + c.h * Hour + c.m * Minute + c.s * Second
<1>1. 2 * (Named(Clock(t)) - t) < Second /\ 2 * (t - Named(Clock(t))) <= Second
  BY ClockFacts
<1>2. 2 * (Named(Clock(u)) - u) < Second /\ 2 * (u - Named(Clock(u))) <= Second
  BY ClockFacts
<1>3. Named(Clock(t)) \in Int /\ Named(Clock(t)) = Named(Clock(u))
  BY SMT DEF Clock, Day, Hour, Minute, Second
<1> HIDE DEF Named
<1> QED BY <1>1, <1>2, <1>3 DEF Near, Second

LEMMA LeapTypes ==
    /\ DOMAIN Leaps = 1..Len(Leaps) /\ Len(Leaps) \in Nat
    /\ \A i \in DOMAIN Leaps : Leaps[i].at \in Nat /\ Leaps[i].offset \in Nat
<1> DEFINE S == [at : Nat, offset : Nat]
<1>1. Leaps \in Seq(S)
  BY LeapsAssumption
<1> HIDE DEF S
<1>2. DOMAIN Leaps = 1..Len(Leaps) /\ Len(Leaps) \in Nat
      /\ \A i \in DOMAIN Leaps : Leaps[i] \in S
  BY <1>1
<1> QED BY <1>2 DEF S

(* An offset is a number, the one of the last leap.                        *)
LEMMA OffsetFacts ==
    ASSUME NEW I, I \subseteq DOMAIN Leaps
    PROVE  /\ OffsetOf(I) \in Nat
           /\ I # {} => /\ Max(I) \in I /\ \A i \in I : i <= Max(I)
                        /\ OffsetOf(I) = Leaps[Max(I)].offset
<1>1. /\ DOMAIN Leaps = 1..Len(Leaps) /\ Len(Leaps) \in Nat
      /\ \A i \in DOMAIN Leaps : Leaps[i].offset \in Nat
  BY LeapTypes
<1>2. I \subseteq 0..Len(Leaps)
  BY <1>1
<1>3. I # {} => Max(I) \in I /\ \A i \in I : Max(I) >= i
  BY <1>1, <1>2, MaxFacts
<1>4. I # {} => \A i \in I : i <= Max(I)
  BY <1>1, <1>3
<1> QED BY <1>1, <1>3, <1>4 DEF OffsetOf
(* tai2utc() differs from UTC by the last leap, and only while it is due.  *)
LEMMA UtcFacts ==
    ASSUME NEW t \in Nat
    PROVE  \/ Tai2Utc(t) = TrueUtc(t)
           \/ \E i \in DOMAIN Leaps :
                /\ Tai2Utc(t) = TrueUtc(t) - (Leaps[i].offset - OffsetOf(1..i - 1))
                /\ Leaps[i].at <= t /\ t < Leaps[i].at + Leaps[i].offset
<1> DEFINE I == {i \in DOMAIN Leaps : Leaps[i].at <= t}
           J == {i \in DOMAIN Leaps : Leaps[i].at + Leaps[i].offset <= t}
           n == Max(I)
<1>1. /\ DOMAIN Leaps = 1..Len(Leaps) /\ Len(Leaps) \in Nat
      /\ \A i \in DOMAIN Leaps : Leaps[i].at \in Nat /\ Leaps[i].offset \in Nat
  BY LeapTypes
<1>2. J \subseteq I /\ I \subseteq DOMAIN Leaps
  BY <1>1
<1>3. Tai2Utc(t) = t - OffsetOf(I) /\ TrueUtc(t) = t - OffsetOf(J)
  BY DEF Tai2Utc, TrueUtc
<1>4. CASE I = {}
  <2>1. I = J
    BY <1>2, <1>4
  <2> QED BY <1>3, <2>1
<1>5. CASE I # {}
  <2>1. n \in I /\ (\A i \in I : i <= n) /\ OffsetOf(I) = Leaps[n].offset
    BY <1>2, <1>5, OffsetFacts
  <2>2. CASE n \in J
    <3>1. Max(J) \in J /\ (\A i \in J : i <= Max(J)) /\ OffsetOf(J) = Leaps[Max(J)].offset
      BY <1>2, <2>2, OffsetFacts
    <3>2. n = Max(J)
      <4>1. n <= Max(J) /\ Max(J) <= n
        BY <1>2, <2>1, <2>2, <3>1
      <4>2. n \in Nat /\ Max(J) \in Nat
        BY <1>1, <1>2, <2>1, <3>1
      <4> HIDE DEF n, J
      <4> QED BY <4>1, <4>2
    <3> QED BY <1>3, <2>1, <3>1, <3>2
  <2>3. CASE n \notin J
    <3>1. n \in 1..Len(Leaps) /\ Leaps[n].at <= t /\ ~(Leaps[n].at + Leaps[n].offset <= t)
      BY <1>1, <2>1, <2>3
    <3>2. J \subseteq 1..n - 1
      <4> SUFFICES ASSUME NEW i \in J PROVE i \in 1..n - 1
        OBVIOUS
      <4>1. i <= n /\ i # n /\ i \in 1..Len(Leaps)
        BY <1>1, <1>2, <2>1, <2>3
      <4> HIDE DEF n, J
      <4> QED BY <3>1, <4>1
    <3>3. 1..n - 1 \subseteq J
      <4> SUFFICES ASSUME NEW i \in 1..n - 1 PROVE i \in J
        OBVIOUS
      <4>1. i \in 1..Len(Leaps) /\ i < n
        <5> HIDE DEF n
        <5> QED BY <1>1, <3>1
      <4>2. Leaps[i].at + Leaps[i].offset <= Leaps[n].at
        BY <1>1, <3>1, <4>1, LeapsAssumption
      <4>3. /\ Leaps[i].at \in Nat /\ Leaps[i].offset \in Nat /\ Leaps[n].at \in Nat
        BY <1>1, <3>1, <4>1
      <4>4. Leaps[i].at + Leaps[i].offset <= t
        BY <3>1, <4>2, <4>3
      <4> QED BY <1>1, <4>1, <4>4
    <3>4. J = 1..n - 1
      BY <3>2, <3>3
    <3>5. OffsetOf(J) \in Nat /\ Leaps[n].offset \in Nat /\ Leaps[n].at \in Nat
      BY <1>1, <1>2, <3>1, OffsetFacts
    <3>6. Tai2Utc(t) = TrueUtc(t) - (Leaps[n].offset - OffsetOf(J))
      <4> HIDE DEF n, I, J
      <4> QED BY <1>3, <2>1, <3>5
    <3>7. t < Leaps[n].at + Leaps[n].offset
      <4> HIDE DEF n
      <4> QED BY <3>1, <3>5
    <3>8. n \in DOMAIN Leaps
      BY <1>1, <3>1
    <3> HIDE DEF n, J
    <3> QED BY <3>1, <3>4, <3>6, <3>7, <3>8
  <2> QED BY <2>2, <2>3
<1> QED BY <1>4, <1>5

(* Product names are told apart by passes.                                 *)
LEMMA TimesAreInts ==
    ASSUME NEW f \in Files
    PROVE  Tai2Utc(L1b[f].start) \in Int /\ Tai2Utc(L1b[f].end) \in Int
<1>1. \A t \in Nat : OffsetOf({i \in DOMAIN Leaps : Leaps[i].at <= t}) \in Nat
  BY OffsetFacts
<1>2. \A t \in Nat : Tai2Utc(t) \in Int
  BY <1>1 DEF Tai2Utc
<1> QED BY <1>2, InputsAssumption

LEMMA SameNameSamePass ==
    ASSUME NEW f \in Files, NEW g \in Files, ProductName(f) = ProductName(g)
    PROVE  SamePass(f, g)
<1>1. /\ L1b[f].dir = L1b[g].dir /\ L1b[f].cycle = L1b[g].cycle /\ L1b[f].orbit = L1b[g].orbit
      /\ Clock(Tai2Utc(L1b[f].start)) = Clock(Tai2Utc(L1b[g].start))
      /\ Clock(Tai2Utc(L1b[f].end)) = Clock(Tai2Utc(L1b[g].end))
  BY Zenon DEF ProductName
<1>2. /\ Near(Tai2Utc(L1b[f].start), Tai2Utc(L1b[g].start))
      /\ Near(Tai2Utc(L1b[f].end), Tai2Utc(L1b[g].end))
  BY <1>1, TimesAreInts, ClockTells
<1> QED BY <1>1, <1>2 DEF SamePass
-----------------------------------------------------------------------------
(* Paths.                                                                  *)

LEMMA PathFacts ==
    ASSUME NEW f \in Files, NEW k \in 1..Len(Dir(f))
    PROVE  /\ Path(f, k) \in Seq(STRING) /\ Len(Path(f, k)) = k
           /\ IsPrefix(Path(f, k), Dir(f))
           /\ k > 1 => Front(Path(f, k)) = Path(f, k - 1)
           /\ Path(f, Len(Dir(f))) = Dir(f)
<1> DEFINE d == Dir(f)
           p == SubSeq(d, 1, k)
<1>1. d \in Seq(STRING) /\ Len(d) \in Nat /\ k \in Int /\ 1 <= k /\ k <= Len(d)
  BY InputsAssumption DEF Dir
<1>2. \A i \in 1..k : d[i] \in STRING
  BY <1>1
<1>3. p \in Seq(STRING) /\ Len(p) = k
  BY <1>1, <1>2, SubSeqProperties
<1>4. SubSeq(p, 1, Len(p)) = p
  BY <1>3, SubSeqFull
<1>5. k > 1 => SubSeq(p, 1, k - 1) = SubSeq(d, 1, k - 1)
  <2> SUFFICES ASSUME k > 1 PROVE SubSeq(p, 1, k - 1) = SubSeq(d, 1, k - 1)
    OBVIOUS
  <2>1. /\ 1 \in 1..Len(d) /\ k \in 1..Len(d) /\ 1 \in 1..k - 1 + 1
        /\ k - 1 \in 1..k - 1 + 1
    BY <1>1
  <2>2. SubSeq(p, 1, k - 1) = SubSeq(d, 1 + 1 - 1, 1 + (k - 1) - 1)
    BY <1>1, <2>1, SubSeqOfSubSeq
  <2>3. 1 + 1 - 1 = 1 /\ 1 + (k - 1) - 1 = k - 1
    BY <1>1
  <2> QED BY <2>2, <2>3
<1>6. SubSeq(d, 1, Len(d)) = d
  BY <1>1, SubSeqFull
<1>7. Path(f, k) = p /\ Path(f, k - 1) = SubSeq(d, 1, k - 1) /\ Path(f, Len(d)) = SubSeq(d, 1, Len(d))
  BY DEF Path
<1>8. IsPrefix(p, d)
  BY <1>1, <1>3, <1>4 DEF IsPrefix
<1>9. k > 1 => Front(p) = SubSeq(d, 1, k - 1)
  BY <1>3, <1>5 DEF Front
<1> HIDE DEF p
<1> QED BY <1>3, <1>6, <1>7, <1>8, <1>9
-----------------------------------------------------------------------------
(* Products.                                                               *)

LEMMA DInvInit == Init => DInv
<1> SUFFICES ASSUME Init PROVE DInv
  OBVIOUS
<1>1. \A f \in Files : Len(Dir(f)) \in Nat /\ Len(Dir(f)) >= 1
  BY InputsAssumption DEF Dir
<1>2. DirTypes
  BY <1>1 DEF Init, DirTypes, Points
<1>3. Tree
  BY MadeAssumption DEF Init, Tree
<1>4. \A f \in Files : Knows(f) /\ Holds(f)
  BY DEF Init, Knows, Holds
<1> QED BY <1>2, <1>3, <1>4 DEF DInv

(* A process that does not move knows what it knew.                        *)
LEMMA KnowsStays ==
    ASSUME NEW g \in Files, Knows(g), dirs \subseteq dirs',
           pc'[g] = pc[g], depth'[g] = depth[g], refused'[g] = refused[g]
    PROVE  Knows(g)'
BY DEF Knows

LEMMA HoldsStays ==
    ASSUME NEW g \in Files, Holds(g), pc'[g] = pc[g],
           Shared(g) \/ product'[ProductName(g)] = product[ProductName(g)]
    PROVE  Holds(g)'
BY DEF Holds

(* A process that is only going somewhere else.                            *)
LEMMA MovesAlone ==
    ASSUME DInv, NEW f \in Files, NEW p \in Points, Goto(f, p),
           p # "write", pc[f] # "write"
    PROVE  /\ pc' \in [Files -> Points] /\ pc'[f] = p
           /\ \A g \in Files \ {f} : pc'[g] = pc[g]
           /\ {g \in Files : pc'[g] = "write"} = {g \in Files : pc[g] = "write"}
BY DEF DInv, DirTypes, Goto

LEMMA DInvStep == DInv /\ [Next]_vars => DInv'
<1> SUFFICES ASSUME DInv, [Next]_vars PROVE DInv'
  OBVIOUS
<1> USE DEF DInv
<1>1. CASE UNCHANGED vars
  BY <1>1 DEF vars, DirTypes, Tree, Knows, Holds, Path
<1>2. ASSUME NEW f \in Files, FileStep(f) PROVE DInv'
  <2> DEFINE P == DirTypes' /\ Tree' /\ \A g \in Files : Knows(g)' /\ Holds(g)'
  <2> SUFFICES P
    OBVIOUS
  <2> HIDE DEF P
  <2>0. /\ depth[f] \in 1..Len(Dir(f)) /\ Len(Dir(f)) \in Nat /\ depth[f] \in Nat
        /\ Knows(f) /\ Holds(f) /\ \A g \in Files : Knows(g) /\ Holds(g)
    BY InputsAssumption DEF DirTypes, Dir
  <2>1. CASE IsDir(f)
    <3>1. PICK p \in {"open", "up"} : Goto(f, p) /\ (p = "open" => Dir(f) \in dirs)
      BY <2>1 DEF IsDir
    <3>2. /\ UNCHANGED <<depth, dirs, refused, product, writing>> /\ pc[f] = "isdir"
      BY <2>1 DEF IsDir, dirVars, productVars
    <3>3. /\ pc' \in [Files -> Points] /\ pc'[f] = p
          /\ \A g \in Files \ {f} : pc'[g] = pc[g]
          /\ {g \in Files : pc'[g] = "write"} = {g \in Files : pc[g] = "write"}
      BY <3>1, <3>2, MovesAlone DEF Points
    <3>4. DirTypes'
      BY <3>2, <3>3 DEF DirTypes
    <3>5. Tree'
      BY <3>2 DEF Tree
    <3>6. \A g \in Files \ {f} : Knows(g)' /\ Holds(g)'
      BY <2>0, <3>2, <3>3, KnowsStays, HoldsStays
    <3>7. Knows(f)' /\ Holds(f)'
      BY <2>0, <3>1, <3>2, <3>3 DEF Knows, Holds
    <3> QED BY <3>4, <3>5, <3>6, <3>7 DEF P
  <2>2. CASE MakedirsUp(f)
    <3>1. /\ UNCHANGED <<dirs, refused, product, writing>> /\ pc[f] = "up"
      BY <2>2 DEF MakedirsUp, productVars
    <3>2. CASE depth[f] = 1 \/ Path(f, depth[f] - 1) \in dirs
      <4>1. Goto(f, "mkdir") /\ UNCHANGED depth
        BY <2>2, <3>2 DEF MakedirsUp
      <4>2. /\ pc' \in [Files -> Points] /\ pc'[f] = "mkdir"
            /\ \A g \in Files \ {f} : pc'[g] = pc[g]
            /\ {g \in Files : pc'[g] = "write"} = {g \in Files : pc[g] = "write"}
        BY <3>1, <4>1, MovesAlone DEF Points
      <4>3. DirTypes'
        BY <3>1, <4>1, <4>2 DEF DirTypes
      <4>4. Tree'
        BY <3>1 DEF Tree
      <4>5. \A g \in Files \ {f} : Knows(g)' /\ Holds(g)'
        BY <2>0, <3>1, <4>1, <4>2, KnowsStays, HoldsStays
      <4>6. Knows(f)' /\ Holds(f)'
        BY <2>0, <3>1, <3>2, <4>1, <4>2 DEF Knows, Holds, Path
      <4> QED BY <4>3, <4>4, <4>5, <4>6 DEF P
    <3>3. CASE ~(depth[f] = 1 \/ Path(f, depth[f] - 1) \in dirs)
      <4>1. depth' = [depth EXCEPT ![f] = @ - 1] /\ UNCHANGED pc
        BY <2>2, <3>3 DEF MakedirsUp
      <4>2. depth[f] - 1 \in 1..Len(Dir(f))
        BY <2>0, <3>3
      <4>3. DirTypes'
        BY <3>1, <4>1, <4>2 DEF DirTypes
      <4>4. Tree'
        BY <3>1 DEF Tree
      <4>5. \A g \in Files \ {f} : depth'[g] = depth[g]
        BY <4>1 DEF DirTypes
      <4>6. \A g \in Files \ {f} : Knows(g)' /\ Holds(g)'
        BY <2>0, <3>1, <4>1, <4>5, KnowsStays, HoldsStays
      <4>7. Knows(f)' /\ Holds(f)'
        BY <2>0, <3>1, <4>1 DEF Knows, Holds
      <4> QED BY <4>3, <4>4, <4>6, <4>7 DEF P
    <3> QED BY <3>2, <3>3
  <2>3. CASE MakedirsDown(f)
    <3>1. /\ UNCHANGED <<refused, product, writing>> /\ pc[f] = "mkdir"
          /\ dirs' = dirs \cup {Path(f, depth[f])}
      BY <2>3 DEF MakedirsDown, productVars
    <3>2. dirs \subseteq dirs' /\ Path(f, depth[f]) \in dirs'
      BY <3>1
    <3>3. Tree'
      <4>1. depth[f] = 1 \/ Path(f, depth[f] - 1) \in dirs
        BY <2>0, <3>1 DEF Knows
      <4>2. /\ Path(f, depth[f]) \in Seq(STRING) /\ Len(Path(f, depth[f])) = depth[f]
            /\ IsPrefix(Path(f, depth[f]), Dir(f))
            /\ depth[f] > 1 => Front(Path(f, depth[f])) = Path(f, depth[f] - 1)
        BY <2>0, PathFacts
      <4>3. depth[f] > 1 => Front(Path(f, depth[f])) \in dirs
        BY <2>0, <4>1, <4>2
      <4> QED BY <3>1, <4>2, <4>3 DEF Tree
    <3>4. CASE depth[f] = Len(Dir(f))
      <4>1. PICK p \in {"sleep", "open"} : Goto(f, p) /\ UNCHANGED depth
        BY <2>3, <3>4 DEF MakedirsDown
      <4>2. /\ pc' \in [Files -> Points] /\ pc'[f] = p
            /\ \A g \in Files \ {f} : pc'[g] = pc[g]
            /\ {g \in Files : pc'[g] = "write"} = {g \in Files : pc[g] = "write"}
        BY <3>1, <4>1, MovesAlone DEF Points
      <4>3. DirTypes'
        BY <3>1, <4>1, <4>2 DEF DirTypes
      <4>4. \A g \in Files \ {f} : Knows(g)' /\ Holds(g)'
        BY <2>0, <3>1, <3>2, <4>1, <4>2, KnowsStays, HoldsStays
      <4>5. Dir(f) \in dirs'
        BY <2>0, <3>2, <3>4, PathFacts
      <4>6. Knows(f)' /\ Holds(f)'
        BY <2>0, <3>1, <4>1, <4>2, <4>5 DEF Knows, Holds
      <4> QED BY <3>3, <4>3, <4>4, <4>6 DEF P
    <3>5. CASE depth[f] # Len(Dir(f))
      <4>1. depth' = [depth EXCEPT ![f] = @ + 1] /\ UNCHANGED pc
        BY <2>3, <3>5 DEF MakedirsDown
      <4>2. depth[f] + 1 \in 1..Len(Dir(f)) /\ depth'[f] = depth[f] + 1 /\ depth'[f] - 1 = depth[f]
        BY <2>0, <3>5, <4>1 DEF DirTypes
      <4>3. DirTypes'
        BY <3>1, <4>1, <4>2 DEF DirTypes
      <4>4. \A g \in Files \ {f} : depth'[g] = depth[g]
        BY <4>1 DEF DirTypes
      <4>5. \A g \in Files \ {f} : Knows(g)' /\ Holds(g)'
        BY <2>0, <3>1, <3>2, <4>1, <4>4, KnowsStays, HoldsStays
      <4>6. Knows(f)' /\ Holds(f)'
        BY <2>0, <3>1, <3>2, <4>1, <4>2 DEF Knows, Holds
      <4> QED BY <3>3, <4>3, <4>5, <4>6 DEF P
    <3> QED BY <3>4, <3>5
  <2>4. CASE MkdirRefused(f)
    <3>1. /\ UNCHANGED <<dirs, depth, product, writing>> /\ pc[f] = "mkdir"
          /\ refused' = [refused EXCEPT ![f] = TRUE] /\ Goto(f, "sleep")
      BY <2>4 DEF MkdirRefused, productVars
    <3>2. /\ pc' \in [Files -> Points] /\ pc'[f] = "sleep"
          /\ \A g \in Files \ {f} : pc'[g] = pc[g]
          /\ {g \in Files : pc'[g] = "write"} = {g \in Files : pc[g] = "write"}
      BY <3>1, MovesAlone DEF Points
    <3>3. refused'[f] = TRUE /\ \A g \in Files \ {f} : refused'[g] = refused[g]
      BY <3>1 DEF DirTypes
    <3>4. DirTypes'
      BY <3>1, <3>2 DEF DirTypes
    <3>5. Tree'
      BY <3>1 DEF Tree
    <3>6. \A g \in Files \ {f} : Knows(g)' /\ Holds(g)'
      BY <2>0, <3>1, <3>2, <3>3, KnowsStays, HoldsStays
    <3>7. Knows(f)' /\ Holds(f)'
      BY <2>0, <3>1, <3>2, <3>3 DEF Knows, Holds
    <3> QED BY <3>4, <3>5, <3>6, <3>7 DEF P
  <2>5. CASE LookAgain(f)
    <3>1. PICK p \in {"open", "failed"} : Goto(f, p) /\ (p = "open" <=> Dir(f) \in dirs)
      BY <2>5 DEF LookAgain
    <3>2. /\ UNCHANGED <<depth, dirs, refused, product, writing>> /\ pc[f] = "sleep"
      BY <2>5 DEF LookAgain, dirVars, productVars
    <3>3. /\ pc' \in [Files -> Points] /\ pc'[f] = p
          /\ \A g \in Files \ {f} : pc'[g] = pc[g]
          /\ {g \in Files : pc'[g] = "write"} = {g \in Files : pc[g] = "write"}
      BY <3>1, <3>2, MovesAlone DEF Points
    <3>4. DirTypes'
      BY <3>2, <3>3 DEF DirTypes
    <3>5. Tree'
      BY <3>2 DEF Tree
    <3>6. \A g \in Files \ {f} : Knows(g)' /\ Holds(g)'
      BY <2>0, <3>2, <3>3, KnowsStays, HoldsStays
    <3>7. Knows(f)' /\ Holds(f)'
      BY <2>0, <3>1, <3>2, <3>3 DEF Knows, Holds
    <3> QED BY <3>4, <3>5, <3>6, <3>7 DEF P
  <2>6. CASE OpenProduct(f)
    <3>1. /\ UNCHANGED <<depth, dirs, refused>> /\ pc[f] = "open" /\ Goto(f, "write")
          /\ product' = [product EXCEPT ![ProductName(f)] = {}]
          /\ writing' = writing \cup {f}
      BY <2>6 DEF OpenProduct, dirVars
    <3>2. /\ pc' \in [Files -> Points] /\ pc'[f] = "write"
          /\ \A g \in Files \ {f} : pc'[g] = pc[g]
      BY <3>1 DEF DirTypes, Goto, Points
    <3>3. /\ product'[ProductName(f)] = {} /\ product' \in [ProductNames -> SUBSET Files]
          /\ \A g \in Files \ {f} : Shared(g) \/ product'[ProductName(g)] = product[ProductName(g)]
      BY <3>1 DEF DirTypes, ProductNames, Shared
    <3>4. DirTypes'
      BY <3>1, <3>2, <3>3 DEF DirTypes
    <3>5. Tree'
      BY <3>1 DEF Tree
    <3>6. \A g \in Files \ {f} : Knows(g)' /\ Holds(g)'
      BY <2>0, <3>1, <3>2, <3>3, KnowsStays, HoldsStays
    <3>7. Knows(f)' /\ Holds(f)'
      BY <2>0, <3>1, <3>2, <3>3 DEF Knows, Holds
    <3> QED BY <3>4, <3>5, <3>6, <3>7 DEF P
  <2>7. CASE OpenRefused(f)
    <3>1. /\ UNCHANGED <<depth, dirs, product, writing>> /\ pc[f] = "open" /\ Goto(f, "failed")
          /\ refused' = [refused EXCEPT ![f] = \A g \in writing : ProductName(g) # ProductName(f)]
      BY <2>7 DEF OpenRefused, productVars
    <3>2. /\ pc' \in [Files -> Points] /\ pc'[f] = "failed"
          /\ \A g \in Files \ {f} : pc'[g] = pc[g]
          /\ {g \in Files : pc'[g] = "write"} = {g \in Files : pc[g] = "write"}
      BY <3>1, MovesAlone DEF Points
    <3>3. /\ refused' \in [Files -> BOOLEAN] /\ \A g \in Files \ {f} : refused'[g] = refused[g]
          /\ refused'[f] = (\A g \in writing : ProductName(g) # ProductName(f))
      BY <3>1, Zenon DEF DirTypes
    <3>4. f \notin writing /\ writing \subseteq Files
      BY <3>1 DEF DirTypes
    <3>5. refused'[f] \/ Shared(f)
      BY <3>3, <3>4, Zenon DEF Shared
    <3>6. DirTypes'
      BY <3>1, <3>2, <3>3 DEF DirTypes
    <3>7. Tree'
      BY <3>1 DEF Tree
    <3>8. \A g \in Files \ {f} : Knows(g)' /\ Holds(g)'
      BY <2>0, <3>1, <3>2, <3>3, KnowsStays, HoldsStays
    <3>9. Knows(f)' /\ Holds(f)'
      BY <2>0, <3>1, <3>2, <3>5 DEF Knows, Holds
    <3> QED BY <3>6, <3>7, <3>8, <3>9 DEF P
  <2>8. CASE WriteProduct(f)
    <3>1. /\ UNCHANGED <<depth, dirs, refused>> /\ pc[f] = "write" /\ Goto(f, "break")
          /\ product' = [product EXCEPT ![ProductName(f)] = @ \cup {f}]
          /\ writing' = writing \ {f}
      BY <2>8 DEF WriteProduct, dirVars
    <3>2. /\ pc' \in [Files -> Points] /\ pc'[f] = "break"
          /\ \A g \in Files \ {f} : pc'[g] = pc[g]
      BY <3>1 DEF DirTypes, Goto, Points
    <3>3. /\ product'[ProductName(f)] = product[ProductName(f)] \cup {f}
          /\ product' \in [ProductNames -> SUBSET Files]
          /\ \A g \in Files \ {f} : Shared(g) \/ product'[ProductName(g)] = product[ProductName(g)]
      BY <3>1 DEF DirTypes, ProductNames, Shared
    <3>4. DirTypes'
      BY <3>1, <3>2, <3>3 DEF DirTypes
    <3>5. Tree'
      BY <3>1 DEF Tree
    <3>6. \A g \in Files \ {f} : Knows(g)' /\ Holds(g)'
      BY <2>0, <3>1, <3>2, <3>3, KnowsStays, HoldsStays
    <3>7. Knows(f)' /\ Holds(f)'
      BY <2>0, <3>1, <3>2, <3>3 DEF Knows, Holds
    <3> QED BY <3>4, <3>5, <3>6, <3>7 DEF P
  <2>9. CASE WriteFails(f)
    <3>1. /\ UNCHANGED <<depth, dirs, product>> /\ pc[f] = "write" /\ Goto(f, "failed")
          /\ refused' = [refused EXCEPT ![f] = TRUE] /\ writing' = writing \ {f}
      BY <2>9 DEF WriteFails
    <3>2. /\ pc' \in [Files -> Points] /\ pc'[f] = "failed"
          /\ \A g \in Files \ {f} : pc'[g] = pc[g]
      BY <3>1 DEF DirTypes, Goto, Points
    <3>3. /\ refused' \in [Files -> BOOLEAN] /\ \A g \in Files \ {f} : refused'[g] = refused[g]
          /\ refused'[f]
      BY <3>1, Zenon DEF DirTypes
    <3>4. DirTypes'
      BY <3>1, <3>2, <3>3 DEF DirTypes
    <3>5. Tree'
      BY <3>1 DEF Tree
    <3>6. \A g \in Files \ {f} : Knows(g)' /\ Holds(g)'
      BY <2>0, <3>1, <3>2, <3>3, KnowsStays, HoldsStays
    <3>7. Knows(f)' /\ Holds(f)'
      BY <2>0, <3>1, <3>2, <3>3 DEF Knows, Holds
    <3> QED BY <3>4, <3>5, <3>6, <3>7 DEF P
  <2>10. CASE WriteEntry(f) \/ Finish(f)
    <3>1. /\ UNCHANGED <<depth, dirs, refused, product, writing>> /\ pc[f] = "break"
          /\ UNCHANGED pc \/ \E p \in {"saved", "unsaved"} : Goto(f, p)
      BY <2>10 DEF WriteEntry, Finish, dirVars, productVars
    <3>2. /\ pc' \in [Files -> Points] /\ pc'[f] \in {"break", "saved", "unsaved"}
          /\ \A g \in Files \ {f} : pc'[g] = pc[g]
          /\ {g \in Files : pc'[g] = "write"} = {g \in Files : pc[g] = "write"}
      <4>1. CASE UNCHANGED pc
        BY <3>1, <4>1 DEF DirTypes
      <4>2. ASSUME NEW p \in {"saved", "unsaved"}, Goto(f, p) PROVE <3>2!:
        BY <3>1, <4>2, MovesAlone DEF Points
      <4> QED BY <3>1, <4>1, <4>2
    <3>4. DirTypes'
      BY <3>1, <3>2 DEF DirTypes
    <3>5. Tree'
      BY <3>1 DEF Tree
    <3>6. \A g \in Files \ {f} : Knows(g)' /\ Holds(g)'
      BY <2>0, <3>1, <3>2, KnowsStays, HoldsStays
    <3>7. Knows(f)' /\ Holds(f)'
      BY <2>0, <3>1, <3>2 DEF Knows, Holds
    <3> QED BY <3>4, <3>5, <3>6, <3>7 DEF P
  <2> QED BY <1>2, <2>1, <2>2, <2>3, <2>4, <2>5, <2>6, <2>7, <2>8, <2>9, <2>10 DEF FileStep
<1> QED BY <1>1, <1>2 DEF Next
-----------------------------------------------------------------------------
(* Breakpoint files.                                                       *)

(* Any member of ds2 is one of ds, or new, with a size of Z, in group g.   *)
OnlyAdds(ds, ds2, g, Z) ==
    /\ ds2 \in Seq(DimSet) /\ SizesIn(ds2) = SizesIn(ds) \cup Z
    /\ \A i \in DOMAIN ds2 :
         \/ \E j \in DOMAIN ds : ds2[i] = ds[j]
         \/ ds2[i].size \in Z \ SizesIn(ds) /\ ds2[i].group = g

LEMMA WithDimFacts ==
    ASSUME NEW ds \in Seq(DimSet), NEW g \in Seq(STRING), NEW z \in Nat
    PROVE  OnlyAdds(ds, WithDim(ds, g, z), g, {z})
<1> DEFINE D == [size |-> z, group |-> g]
           P == {i \in DOMAIN ds : ds[i].size = z}
<1>1. D \in DimSet /\ D.size = z /\ D.group = g
  BY DEF DimSet
<1>2. DOMAIN ds = 1..Len(ds) /\ Len(ds) \in Nat
  OBVIOUS
<1>3. P # {} => Find(ds, z) # 0 /\ z \in SizesIn(ds)
  <2> SUFFICES ASSUME P # {} PROVE Find(ds, z) # 0 /\ z \in SizesIn(ds)
    OBVIOUS
  <2>1. P \subseteq Nat /\ 0 \notin P
    BY <1>2
  <2>2. Min(P) \in P
    BY <2>1, MinFacts
  <2>3. Find(ds, z) = Min(P)
    BY DEF Find
  <2> QED BY <2>1, <2>2, <2>3 DEF SizesIn
<1>4. P = {} => Find(ds, z) = 0 /\ z \notin SizesIn(ds)
  BY DEF Find, SizesIn
<1>5. CASE P # {}
  BY <1>3, <1>5 DEF WithDim, OnlyAdds
<1>6. CASE P = {}
  <2> DEFINE ds2 == Append(ds, D)
  <2>1. WithDim(ds, g, z) = ds2
    BY <1>4, <1>6 DEF WithDim
  <2> HIDE DEF D
  <2>2. /\ ds2 \in Seq(DimSet) /\ Len(ds2) = Len(ds) + 1
        /\ \A i \in 1..Len(ds) : ds2[i] = ds[i]
        /\ ds2[Len(ds) + 1] = D
    BY <1>1, AppendProperties
  <2> HIDE DEF ds2
  <2>3. DOMAIN ds2 = 1..Len(ds) + 1
    BY <1>2, <2>2
  <2>4. \A i \in DOMAIN ds2 : i \in DOMAIN ds \/ i = Len(ds) + 1
    BY <1>2, <2>3
  <2>5. DOMAIN ds \subseteq DOMAIN ds2 /\ Len(ds) + 1 \in DOMAIN ds2
    BY <1>2, <2>3
  <2>6. SizesIn(ds2) = SizesIn(ds) \cup {z}
    BY <1>1, <1>2, <2>2, <2>4, <2>5 DEF SizesIn
  <2>7. \A i \in DOMAIN ds2 : (\E j \in DOMAIN ds : ds2[i] = ds[j]) \/ ds2[i] = D
    BY <1>2, <2>2, <2>4
  <2> QED BY <1>1, <1>4, <1>6, <2>1, <2>2, <2>6, <2>7 DEF OnlyAdds
<1> QED BY <1>5, <1>6

LEMMA AddsTwice ==
    ASSUME NEW ds \in Seq(DimSet), NEW ds2, NEW ds3, NEW g, NEW Y, NEW Z,
           OnlyAdds(ds, ds2, g, Y), OnlyAdds(ds2, ds3, g, Z)
    PROVE  OnlyAdds(ds, ds3, g, Y \cup Z)
<1>1. ds3 \in Seq(DimSet) /\ SizesIn(ds3) = SizesIn(ds) \cup (Y \cup Z)
  BY DEF OnlyAdds
<1>2. ASSUME NEW i \in DOMAIN ds3
      PROVE  \/ \E j \in DOMAIN ds : ds3[i] = ds[j]
             \/ ds3[i].size \in (Y \cup Z) \ SizesIn(ds) /\ ds3[i].group = g
  <2>1. CASE \E j \in DOMAIN ds2 : ds3[i] = ds2[j]
    BY <2>1 DEF OnlyAdds
  <2>2. CASE ds3[i].size \in Z \ SizesIn(ds2) /\ ds3[i].group = g
    BY <2>2 DEF OnlyAdds
  <2> QED BY <2>1, <2>2 DEF OnlyAdds
<1> QED BY <1>1, <1>2 DEF OnlyAdds

LEMMA DictFacts ==
    ASSUME NEW f \in Files, NEW k \in 1..Len(Dict(f))
    PROVE  /\ Dict(f)[k].group \in Seq(STRING) /\ Dict(f)[k].shape \in Seq(Nat)
           /\ IsArray(Dict(f)[k]) => Len(Dict(f)[k].shape) \in 1..3
<1>1. Dict(f) \in Seq(Entries)
  BY InputsAssumption DEF Dict
<1>2. Dict(f)[k] \in Entries /\ k \in DOMAIN Dict(f)
  BY <1>1
<1> QED BY <1>2, InputsAssumption DEF Entries, IsArray, Dict

LEMMA SeqFacts ==
    ASSUME NEW z \in Seq(Nat)
    PROVE  DOMAIN z = 1..Len(z) /\ \A i \in 1..Len(z) : z[i] \in Nat
OBVIOUS

LEMMA WithDimsFacts ==
    ASSUME NEW f \in Files, NEW k \in 1..Len(Dict(f)), NEW ds \in Seq(DimSet)
    PROVE  LET e == Dict(f)[k]
           IN  OnlyAdds(ds, WithDims(ds, e), e.group,
                        IF IsArray(e) THEN Range(e.shape) ELSE {})
<1> DEFINE e == Dict(f)[k]
           z == e.shape
           one == WithDim(ds, e.group, z[1])
           two == WithDim(one, e.group, z[2])
           three == WithDim(two, e.group, z[3])
<1>1. e.group \in Seq(STRING) /\ z \in Seq(Nat) /\ (IsArray(e) => Len(z) \in 1..3)
  BY DictFacts
<1>2. CASE ~IsArray(e)
  <2>1. WithDims(ds, e) = ds
    BY <1>2 DEF WithDims, IsArray
  <2>2. OnlyAdds(ds, ds, e.group, {})
    BY DEF OnlyAdds
  <2> QED BY <1>2, <2>1, <2>2
<1>3. CASE IsArray(e) /\ Len(z) = 1
  <2>1. WithDims(ds, e) = one
    BY <1>3 DEF WithDims, IsArray
  <2>2. z[1] \in Nat /\ DOMAIN z = {1}
    BY <1>1, <1>3
  <2>3. Range(z) = {z[1]}
    BY <2>2 DEF Range
  <2>4. OnlyAdds(ds, one, e.group, {z[1]})
    BY <1>1, <2>2, WithDimFacts
  <2> QED BY <1>3, <2>1, <2>3, <2>4
<1>4. CASE IsArray(e) /\ Len(z) = 2
  <2>1. WithDims(ds, e) = two
    BY <1>4 DEF WithDims, IsArray
  <2>2. z[1] \in Nat /\ z[2] \in Nat /\ DOMAIN z = {1, 2}
    <3>1. DOMAIN z = 1..2 /\ \A i \in 1..2 : z[i] \in Nat
      BY <1>1, <1>4, SeqFacts
    <3> QED BY <3>1
  <2>3. Range(z) = {z[1]} \cup {z[2]}
    BY <2>2 DEF Range
  <2>4. OnlyAdds(ds, one, e.group, {z[1]})
    BY <1>1, <2>2, WithDimFacts
  <2>5. one \in Seq(DimSet)
    BY <2>4 DEF OnlyAdds
  <2>6. OnlyAdds(one, two, e.group, {z[2]})
    BY <1>1, <2>2, <2>5, WithDimFacts
  <2>7. OnlyAdds(ds, two, e.group, {z[1]} \cup {z[2]})
    BY <2>4, <2>6, AddsTwice
  <2> QED BY <1>4, <2>1, <2>3, <2>7
<1>5. CASE IsArray(e) /\ Len(z) = 3
  <2>1. WithDims(ds, e) = three
    BY <1>5 DEF WithDims, IsArray
  <2>2. z[1] \in Nat /\ z[2] \in Nat /\ z[3] \in Nat /\ DOMAIN z = {1, 2, 3}
    <3>1. DOMAIN z = 1..3 /\ \A i \in 1..3 : z[i] \in Nat
      BY <1>1, <1>5, SeqFacts
    <3> QED BY <3>1
  <2>3. Range(z) = ({z[1]} \cup {z[2]}) \cup {z[3]}
    BY <2>2 DEF Range
  <2>4. OnlyAdds(ds, one, e.group, {z[1]})
    BY <1>1, <2>2, WithDimFacts
  <2>5. one \in Seq(DimSet)
    BY <2>4 DEF OnlyAdds
  <2>6. OnlyAdds(one, two, e.group, {z[2]})
    BY <1>1, <2>2, <2>5, WithDimFacts
  <2>7. OnlyAdds(ds, two, e.group, {z[1]} \cup {z[2]})
    BY <2>4, <2>6, AddsTwice
  <2>8. two \in Seq(DimSet)
    BY <2>7 DEF OnlyAdds
  <2>9. OnlyAdds(two, three, e.group, {z[3]})
    BY <1>1, <2>2, <2>8, WithDimFacts
  <2>10. OnlyAdds(ds, three, e.group, ({z[1]} \cup {z[2]}) \cup {z[3]})
    BY <2>7, <2>9, AddsTwice
  <2> QED BY <1>5, <2>1, <2>3, <2>10
<1> QED BY <1>1, <1>2, <1>3, <1>4, <1>5

LEMMA SizesFacts ==
    ASSUME NEW d, NEW n \in Nat, NEW e, e = d[n + 1]
    PROVE  SizesOf(d, n + 1) = SizesOf(d, n) \cup (IF IsArray(e) THEN Range(e.shape) ELSE {})
<1>1. 1..n + 1 = (1..n) \cup {n + 1}
  OBVIOUS
<1> QED BY <1>1 DEF SizesOf

(* A size that is in entry k and in none before it occurs there first.     *)
LEMMA FirstIsHere ==
    ASSUME NEW f \in Files, NEW k \in 1..Len(Dict(f)), IsArray(Dict(f)[k]),
           NEW z \in Range(Dict(f)[k].shape), z \notin SizesOf(Dict(f), k - 1)
    PROVE  FirstWith(Dict(f), z) = k
<1> DEFINE d == Dict(f)
           F == {i \in DOMAIN d : d[i].kind = "array" /\ z \in Range(d[i].shape)}
<1>1. DOMAIN d = 1..Len(d) /\ Len(d) \in Nat
  BY InputsAssumption DEF Dict
<1>2. k \in F /\ F \subseteq Nat
  BY <1>1 DEF IsArray
<1>3. Min(F) \in F /\ Min(F) <= k
  BY <1>2, MinFacts
<1>4. \A i \in F : ~(i <= k - 1)
  BY <1>1 DEF SizesOf, IsArray
<1>5. k \in Nat /\ Min(F) \in Nat /\ ~(Min(F) <= k - 1)
  BY <1>1, <1>2, <1>3, <1>4
<1>6. Min(F) = k
  <2> HIDE DEF F
  <2> QED BY <1>3, <1>5
<1> QED BY <1>6 DEF FirstWith

(* The dimensions after entry k, from those before it.                     *)
LEMMA GroupsStayRight ==
    ASSUME NEW f \in Files, NEW k \in 1..Len(Dict(f)), NEW ds \in Seq(DimSet),
           SizesIn(ds) = SizesOf(Dict(f), k - 1), GroupsRight(Dict(f), ds)
    PROVE  LET ds2 == WithDims(ds, Dict(f)[k])
           IN  /\ ds2 \in Seq(DimSet) /\ SizesIn(ds2) = SizesOf(Dict(f), k)
               /\ GroupsRight(Dict(f), ds2)
<1> DEFINE d == Dict(f)
           e == d[k]
           Z == IF IsArray(e) THEN Range(e.shape) ELSE {}
           ds2 == WithDims(ds, e)
<1>1. OnlyAdds(ds, ds2, e.group, Z)
  BY WithDimsFacts
<1>2. Len(d) \in Nat /\ k - 1 \in Nat /\ (k - 1) + 1 = k
  BY InputsAssumption DEF Dict
<1>3. SizesOf(d, k) = SizesOf(d, k - 1) \cup Z
  BY <1>2, SizesFacts
<1>4. ds2 \in Seq(DimSet) /\ SizesIn(ds2) = SizesOf(d, k)
  BY <1>1, <1>3 DEF OnlyAdds
<1>5. GroupsRight(d, ds2)
  <2> SUFFICES ASSUME NEW i \in DOMAIN ds2
               PROVE  /\ ds2[i].size \in SizesOf(d, Len(d))
                      /\ ds2[i].group = d[FirstWith(d, ds2[i].size)].group
    BY DEF GroupsRight
  <2>1. CASE \E j \in DOMAIN ds : ds2[i] = ds[j]
    BY <2>1 DEF GroupsRight
  <2>2. CASE ds2[i].size \in Z \ SizesIn(ds) /\ ds2[i].group = e.group
    <3>1. IsArray(e) /\ ds2[i].size \in Range(e.shape) /\ ds2[i].size \notin SizesOf(d, k - 1)
      BY <2>2
    <3>2. FirstWith(d, ds2[i].size) = k
      BY <3>1, FirstIsHere
    <3>3. ds2[i].size \in SizesOf(d, Len(d))
      BY <1>2, <3>1 DEF SizesOf
    <3> QED BY <2>2, <3>2, <3>3
  <2> QED BY <1>1, <2>1, <2>2 DEF OnlyAdds
<1> QED BY <1>4, <1>5

(* createVariable() finds the dimensions of the arrays that can be saved.  *)
LEMMA VisibleIsSavable ==
    ASSUME NEW f \in Files, NEW k \in 1..Len(Dict(f)), NEW ds \in Seq(DimSet),
           IsArray(Dict(f)[k]),
           SizesIn(ds) = SizesOf(Dict(f), k), GroupsRight(Dict(f), ds)
    PROVE  Visible(ds, Dict(f)[k]) <=> SavableAt(Dict(f), k)
<1> DEFINE d == Dict(f)
           e == d[k]
<1>1. \A z \in Range(e.shape) : z \in SizesIn(ds)
  BY DEF SizesOf
<1>2. \A z \in Range(e.shape) :
        (\E i \in DOMAIN ds : ds[i].size = z /\ IsPrefix(ds[i].group, e.group))
          <=> IsPrefix(d[FirstWith(d, z)].group, e.group)
  <2> TAKE z \in Range(e.shape)
  <2>1. PICK i \in DOMAIN ds : ds[i].size = z
    BY <1>1 DEF SizesIn
  <2>2. \A j \in DOMAIN ds : ds[j].size = z => ds[j].group = d[FirstWith(d, z)].group
    BY DEF GroupsRight
  <2> QED BY <2>1, <2>2
<1>3. Visible(ds, e) <=>
        \A z \in Range(e.shape) :
          \E i \in DOMAIN ds : ds[i].size = z /\ IsPrefix(ds[i].group, e.group)
  <2> DEFINE V(z) == \E i \in DOMAIN ds : ds[i].size = z /\ IsPrefix(ds[i].group, e.group)
             s == e.shape
  <2>1. Visible(ds, e) <=> \A j \in DOMAIN s : V(s[j])
    BY DEF Visible
  <2> HIDE DEF V, s
  <2>2. (\A j \in DOMAIN s : V(s[j])) <=> \A z \in Range(s) : V(z)
    BY DEF Range
  <2> QED BY <2>1, <2>2 DEF V, s
<1>4. SavableAt(d, k) <=> \A z \in Range(e.shape) : IsPrefix(d[FirstWith(d, z)].group, e.group)
  BY DEF SavableAt, IsArray
<1> QED BY <1>2, <1>3, <1>4

LEMMA BInvInit == Init => BInv
<1> SUFFICES ASSUME Init PROVE BInv
  OBVIOUS
<1>1. BreakTypes
  <2>1. \A f \in Files : Len(Dict(f)) \in Nat
    BY InputsAssumption DEF Dict
  <2>2. <<>> \in Seq(DimSet)
    OBVIOUS
  <2> QED BY <2>1, <2>2 DEF Init, BreakTypes, Points
<1>2. ASSUME NEW f \in Files PROVE Saves(f)
  <2>1. pc[f] = "isdir" /\ entry[f] = 0 /\ dims[f] = <<>>
    BY DEF Init
  <2>2. SizesOf(Dict(f), 0) = {} /\ SizesIn(<<>>) = {} /\ GroupsRight(Dict(f), <<>>)
    BY DEF SizesOf, SizesIn, GroupsRight
  <2> QED BY <2>1, <2>2 DEF Saves
<1> QED BY <1>1, <1>2 DEF BInv

LEMMA SavesStays ==
    ASSUME NEW g \in Files, Saves(g), entry'[g] = entry[g], dims'[g] = dims[g],
           \/ pc'[g] = pc[g]
           \/ pc[g] # "unsaved" /\ pc'[g] \notin {"saved", "unsaved"}
    PROVE  Saves(g)'
BY DEF Saves

LEMMA BInvStep == BInv /\ [Next]_vars => BInv'
<1> SUFFICES ASSUME BInv, [Next]_vars PROVE BInv'
  OBVIOUS
<1> USE DEF BInv
<1>1. CASE UNCHANGED vars
  BY <1>1, SavesStays DEF vars, BreakTypes
<1>2. ASSUME NEW f \in Files, FileStep(f) PROVE BInv'
  <2>1. CASE \/ IsDir(f) \/ MakedirsUp(f) \/ MakedirsDown(f) \/ MkdirRefused(f)
             \/ LookAgain(f) \/ OpenProduct(f) \/ OpenRefused(f) \/ WriteProduct(f)
             \/ WriteFails(f)
    <3>1. UNCHANGED <<entry, dims>>
      BY <2>1 DEF IsDir, MakedirsUp, MakedirsDown, MkdirRefused, LookAgain, OpenProduct,
                  OpenRefused, WriteProduct, WriteFails, breakVars
    <3>2. /\ pc[f] # "unsaved"
          /\ UNCHANGED pc \/ \E p \in Points \ {"saved", "unsaved"} : Goto(f, p)
      BY <2>1 DEF IsDir, MakedirsUp, MakedirsDown, MkdirRefused, LookAgain, OpenProduct,
                  OpenRefused, WriteProduct, WriteFails, Points
    <3>3. /\ pc' \in [Files -> Points] /\ \A g \in Files \ {f} : pc'[g] = pc[g]
          /\ pc'[f] = pc[f] \/ pc'[f] \notin {"saved", "unsaved"}
      BY <3>2 DEF BreakTypes, Goto
    <3>4. BreakTypes'
      BY <3>1, <3>3 DEF BreakTypes
    <3>5. \A g \in Files : Saves(g)'
      BY <3>1, <3>2, <3>3, SavesStays
    <3> QED BY <3>4, <3>5
  <2>2. CASE WriteEntry(f)
    <3> DEFINE d == Dict(f)
               k == entry[f] + 1
               ds == WithDims(dims[f], d[k])
    <3>1. /\ pc[f] = "break" /\ Len(d) \in Nat /\ entry[f] \in Nat /\ k \in 1..Len(d)
          /\ k - 1 = entry[f] /\ dims' = [dims EXCEPT ![f] = ds] /\ dims[f] \in Seq(DimSet)
      <4>1. pc[f] = "break" /\ entry[f] < Len(d) /\ dims' = [dims EXCEPT ![f] = ds]
        BY <2>2 DEF WriteEntry
      <4>2. Len(d) \in Nat
        BY InputsAssumption DEF Dict
      <4>3. entry[f] \in Nat /\ dims[f] \in Seq(DimSet)
        BY DEF BreakTypes
      <4> HIDE DEF d, ds
      <4> QED BY <4>1, <4>2, <4>3
    <3>2. Saves(f) /\ SizesIn(dims[f]) = SizesOf(d, k - 1) /\ GroupsRight(d, dims[f])
      BY <3>1 DEF Saves
    <3>3. ds \in Seq(DimSet) /\ SizesIn(ds) = SizesOf(d, k) /\ GroupsRight(d, ds)
      BY <3>1, <3>2, GroupsStayRight
    <3>4. (d[k].kind = "other" \/ (d[k].kind = "array" /\ ~Visible(ds, d[k]))) <=> ~SavableAt(d, k)
      <4>1. CASE IsArray(d[k])
        BY <3>1, <3>3, <4>1, VisibleIsSavable DEF IsArray
      <4>2. CASE ~IsArray(d[k])
        BY <4>2 DEF IsArray, SavableAt
      <4> QED BY <4>1, <4>2
    <3>5. /\ dims'[f] = ds /\ dims' \in [Files -> Seq(DimSet)]
          /\ \A g \in Files \ {f} : dims'[g] = dims[g]
      BY <3>1, <3>3 DEF BreakTypes
    <3>6. CASE ~SavableAt(d, k)
      <4>1. Goto(f, "unsaved") /\ UNCHANGED entry
        BY <2>2, <3>4, <3>6 DEF WriteEntry
      <4>2. /\ pc' \in [Files -> Points] /\ pc'[f] = "unsaved"
            /\ \A g \in Files \ {f} : pc'[g] = pc[g]
        BY <4>1 DEF BreakTypes, Goto, Points
      <4>3. BreakTypes'
        BY <3>5, <4>1, <4>2 DEF BreakTypes
      <4>4. \A g \in Files \ {f} : Saves(g)'
        BY <3>5, <4>1, <4>2, SavesStays
      <4>5. Saves(f)'
        <5>1. \E j \in 1..Len(d) : ~SavableAt(d, j)
          BY <3>1, <3>6
        <5>2. \A j \in 1..entry[f] : SavableAt(d, j)
          BY <3>2 DEF Saves
        <5> HIDE DEF d, ds
        <5> QED BY <3>3, <3>5, <4>1, <4>2, <5>1, <5>2 DEF Saves, d
      <4> QED BY <4>3, <4>4, <4>5
    <3>7. CASE SavableAt(d, k)
      <4>1. entry' = [entry EXCEPT ![f] = @ + 1] /\ UNCHANGED pc
        BY <2>2, <3>4, <3>7 DEF WriteEntry
      <4>2. entry'[f] = k /\ entry' \in [Files -> Nat] /\ \A g \in Files \ {f} : entry'[g] = entry[g]
        BY <3>1, <4>1 DEF BreakTypes
      <4>3. BreakTypes'
        BY <3>1, <3>5, <4>1, <4>2 DEF BreakTypes
      <4>4. \A g \in Files \ {f} : Saves(g)'
        BY <3>5, <4>1, <4>2, SavesStays
      <4>5. Saves(f)'
        <5>1. \A j \in 1..entry[f] : SavableAt(d, j)
          BY <3>2 DEF Saves
        <5>2. \A j \in 1..k : j \in 1..entry[f] \/ j = k
          BY <3>1
        <5>3. \A j \in 1..k : SavableAt(d, j)
          BY <3>7, <5>1, <5>2
        <5> HIDE DEF d, ds, k
        <5> QED BY <3>1, <3>3, <3>5, <4>1, <4>2, <5>3 DEF Saves, d
      <4> QED BY <4>3, <4>4, <4>5
    <3> QED BY <3>6, <3>7
  <2>3. CASE Finish(f)
    <3>1. pc[f] = "break" /\ entry[f] = Len(Dict(f)) /\ Goto(f, "saved") /\ UNCHANGED <<entry, dims>>
      BY <2>3 DEF Finish, breakVars
    <3>2. /\ pc' \in [Files -> Points] /\ pc'[f] = "saved"
          /\ \A g \in Files \ {f} : pc'[g] = pc[g]
      BY <3>1 DEF BreakTypes, Goto, Points
    <3>3. BreakTypes'
      BY <3>1, <3>2 DEF BreakTypes
    <3>4. \A g \in Files \ {f} : Saves(g)'
      BY <3>1, <3>2, SavesStays
    <3>5. Saves(f)'
      BY <3>1, <3>2 DEF Saves
    <3> QED BY <3>3, <3>4, <3>5
  <2> QED BY <1>2, <2>1, <2>2, <2>3 DEF FileStep
<1> QED BY <1>1, <1>2 DEF Next
-----------------------------------------------------------------------------
(* Theorems.                                                               *)

LEMMA Invariants == Spec => [](DInv /\ BInv)
BY DInvInit, DInvStep, BInvInit, BInvStep, PTL DEF Spec

(* Races of the processes never lose a product: a process ends without its *)
(* product only when the file system refused it or another L1b file has    *)
(* the same product name, and two such files are one pass                  *)
(* (alg_product_output.py:203-275).                                        *)
THEOREM ProductsAreKept == Spec => []ProductsKept
<1>1. DInv /\ BInv => ProductsKept
  <2> SUFFICES ASSUME DInv, BInv PROVE ProductsKept
    OBVIOUS
  <2>1. TypeOK
    <3>1. \A f \in Files : depth[f] \in DOMAIN Dir(f)
      BY InputsAssumption DEF DInv, DirTypes, Dir
    <3>2. \A f \in Files : \A i \in DOMAIN dims[f] : dims[f][i].size \in Nat
      <4> SUFFICES ASSUME NEW f \in Files, NEW i \in DOMAIN dims[f]
                   PROVE  dims[f][i].size \in Nat
        OBVIOUS
      <4>1. dims[f] \in Seq(DimSet)
        BY DEF BInv, BreakTypes
      <4>2. dims[f][i] \in DimSet
        BY <4>1
      <4> QED BY <4>2 DEF DimSet
    <3> QED BY <3>1, <3>2 DEF TypeOK, DInv, BInv, DirTypes, BreakTypes, Tree, Points
  <2>2. OnlyRefusedFails
    BY DEF OnlyRefusedFails, DInv, Knows, Tree, Shared
  <2>3. DistinctPassesKept
    <3> SUFFICES ASSUME NEW f \in Files, pc[f] \in {"break", "saved", "unsaved"}
                 PROVE  \/ product[ProductName(f)] = {f}
                        \/ \E g \in Files \ {f} : SamePass(f, g)
      BY DEF DistinctPassesKept
    <3>1. CASE Shared(f)
      BY <3>1, SameNameSamePass DEF Shared
    <3>2. CASE ~Shared(f)
      BY <3>2 DEF DInv, Holds
    <3> QED BY <3>1, <3>2
  <2> QED BY <2>1, <2>2, <2>3 DEF ProductsKept
<1> QED BY <1>1, Invariants, PTL

(* The times in a product's name are those of the L1b file to the nearest  *)
(* second, but for the leap second that is due and the hour 24 that the    *)
(* last half second of a day is given (alg_product_output.py:229-275,      *)
(* grain.py:60).                                                           *)
THEOREM TimesAreExact == Spec => []TimesExact
<1>1. DInv => TimesExact
  <2> SUFFICES ASSUME DInv PROVE TimesExact
    OBVIOUS
  <2>1. writing \subseteq Files
    BY DEF DInv, DirTypes
  <2>2. ClockRounds
    BY <2>1, TimesAreInts, ClockFacts DEF ClockRounds
  <2>3. UtcNearTruth
    BY <2>1, UtcFacts, InputsAssumption DEF UtcNearTruth
  <2> QED BY <2>2, <2>3 DEF TimesExact
<1> QED BY <1>1, Invariants, PTL

(* Exactly the dictionaries in which every size first occurs in the group  *)
(* of the array or above it, and without values of other types, have a     *)
(* complete breakpoint file (breakpoint_files.py:56).                      *)
THEOREM BreakpointsAreExact == Spec => []BreakpointExact
<1>1. BInv => BreakpointExact
  <2> SUFFICES ASSUME BInv, NEW f \in Files
               PROVE  LET d == Dict(f)
                          Savable == \A i \in DOMAIN d :
                            /\ d[i].kind # "other"
                            /\ d[i].kind = "array" => \A z \in Range(d[i].shape) :
                                 IsPrefix(d[FirstWith(d, z)].group, d[i].group)
                      IN  /\ pc[f] = "saved" => Savable
                          /\ pc[f] = "unsaved" => ~Savable
    BY DEF BreakpointExact
  <2>1. DOMAIN Dict(f) = 1..Len(Dict(f))
    BY InputsAssumption DEF Dict
  <2> QED BY <2>1 DEF BInv, Saves, SavableAt
<1> QED BY <1>1, Invariants, PTL
============================================================================
