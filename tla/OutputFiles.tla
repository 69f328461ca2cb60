---------------------------- MODULE OutputFiles ----------------------------
(***************************************************************************)
(* The files that concurrent processes of a chain run write: the product   *)
(* (alg_product_output.py) in a directory per zone, year and month, and    *)
(* the breakpoint file (breakpoint_files.py) with the shared_dict of the   *)
(* L1b file.  One process per L1b file; all of them share the file system. *)
(*                                                                         *)
(* Times are in milliseconds, where the code has microseconds.  External:  *)
(* os.makedirs(), which goes up to the first directory that exists and     *)
(* then down, one mkdir() at a time, and the NetCDF library, which either  *)
(* refuses to open a file that another process is writing or truncates it. *)
(***************************************************************************)
EXTENDS Integers, Sequences, SequencesExt, FiniteSetsExt

CONSTANTS
    Files,  \* the L1b files, each with its process
    L1b,    \* L1b[f]: [dir, start, end, cycle, orbit, dict]
    Leaps,  \* the leap seconds file: <<[at, offset], ...>>, at in UTC
    Made    \* the directories that exist at first

Second == 1000
Minute == 60 * Second
Hour   == 60 * Minute
Day    == 24 * Hour

(* An entry of shared_dict has the path of its group, a kind and the shape *)
(* of an array.                                                            *)
Entries == [group : Seq(STRING), kind : {"array", "value", "deep", "other"}, shape : Seq(Nat)]

ASSUME InputsAssumption ==
    \A f \in Files :
      /\ L1b[f].start \in Nat /\ L1b[f].end \in Nat
      /\ L1b[f].dir \in Seq(STRING) /\ L1b[f].dir # <<>>
      /\ L1b[f].dict \in Seq(Entries)
      /\ \A i \in DOMAIN L1b[f].dict :
           L1b[f].dict[i].kind = "array" => Len(L1b[f].dict[i].shape) \in 1..3

(* The leap seconds are in order, and none is due before the one before it *)
(* has passed.                                                             *)
ASSUME LeapsAssumption ==
    /\ Leaps \in Seq([at : Nat, offset : Nat])
    /\ \A i, j \in DOMAIN Leaps : i < j => Leaps[i].at + Leaps[i].offset <= Leaps[j].at

(* No directory is without its parent.                                     *)
ASSUME MadeAssumption ==
    \A q \in Made : q \in Seq(STRING) /\ (Len(q) > 1 => Front(q) \in Made)

-----------------------------------------------------------------------------
(* Names.                                                                  *)

(* The offsets in the file are totals.  Grain takes their differences and  *)
(* adds up those of the leaps in I, the first ones of the file: that is    *)
(* the total of the last of them.                                          *)
OffsetOf(I) == IF I = {} THEN 0 ELSE Leaps[Max(I)].offset

(* Grain.tai2utc(): TAI is compared with the UTC times of the leaps.       *)
Tai2Utc(t) == t - OffsetOf({i \in DOMAIN Leaps : Leaps[i].at <= t})

(* Mutant for TimesExact: sixty seconds are not carried.                   *)
ClockNoCarry(t) ==
    [day |-> t \div Day, h |-> (t % Day) \div Hour, m |-> (t % Hour) \div Minute,
     s |-> (t % Minute) \div Second + (IF t % Second > Second \div 2 THEN 1 ELSE 0)]

(* <yyyymmdd>T<hhmmss>: more than half a second is rounded up, and carried *)
(* to minutes and hours; the date stays.                                   *)
Clock(t) ==
    LET up == IF t % Second > Second \div 2 THEN 1 ELSE 0
        s == (t % Minute) \div Second + up
        m == (t % Hour) \div Minute + (IF s = 60 THEN 1 ELSE 0)
        h == (t % Day) \div Hour + (IF m = 60 THEN 1 ELSE 0)
    IN  [day |-> t \div Day, h |-> h,
         m |-> IF m = 60 THEN 0 ELSE m, s |-> IF s = 60 THEN 0 ELSE s]

(* product_filename.  The directory has the zone, the year and the month.  *)
ProductName(f) ==
    <<L1b[f].dir, Clock(Tai2Utc(L1b[f].start)), Clock(Tai2Utc(L1b[f].end)),
      L1b[f].cycle, L1b[f].orbit>>

ProductNames == {ProductName(f) : f \in Files}
-----------------------------------------------------------------------------
VARIABLES
    pc,       \* pc[f]: control point of the process of f
    depth,    \* depth[f]: length of the path makedirs() is at
    refused,  \* refused[f]: an operation of f failed, of the file system or in
              \* the writing of the product
    dirs,     \* the directories that exist, as paths
    product,  \* product[n]: the L1b files whose data file n holds
    writing,  \* the processes that have their product open
    entry,    \* entry[f]: number of entries of shared_dict written
    dims      \* dims[f]: dim_sizes, and the group each dimension is in

vars == <<pc, depth, refused, dirs, product, writing, entry, dims>>
productVars == <<product, writing>>
breakVars == <<entry, dims>>
dirVars == <<depth, dirs, refused>>

Dir(f) == L1b[f].dir
Path(f, k) == SubSeq(Dir(f), 1, k)
Goto(f, p) == pc' = [pc EXCEPT ![f] = p]

Init ==
    /\ pc = [f \in Files |-> "isdir"]
    /\ depth = [f \in Files |-> Len(Dir(f))]
    /\ refused = [f \in Files |-> FALSE]
    /\ dirs = Made
    /\ product = [n \in ProductNames |-> {}]
    /\ writing = {}
    /\ entry = [f \in Files |-> 0]
    /\ dims = [f \in Files |-> <<>>]
-----------------------------------------------------------------------------
(* The product directory.                                                  *)

IsDir(f) ==
    /\ pc[f] = "isdir"
    /\ Goto(f, IF Dir(f) \in dirs THEN "open" ELSE "up")
    /\ UNCHANGED <<dirVars, productVars, breakVars>>

(* makedirs(): does the parent exist?                                      *)
MakedirsUp(f) ==
    /\ pc[f] = "up"
    /\ IF depth[f] = 1 \/ Path(f, depth[f] - 1) \in dirs
         THEN Goto(f, "mkdir") /\ UNCHANGED depth
         ELSE depth' = [depth EXCEPT ![f] = @ - 1] /\ UNCHANGED pc
    /\ UNCHANGED <<dirs, refused, productVars, breakVars>>

(* mkdir() of the next directory.  That another process has made it is an  *)
(* error only for the last one.                                            *)
MakedirsDown(f) ==
    LET made == Path(f, depth[f]) \in dirs
    IN  /\ pc[f] = "mkdir"
        /\ dirs' = dirs \cup {Path(f, depth[f])}
        /\ IF depth[f] = Len(Dir(f))
             THEN Goto(f, IF made THEN "sleep" ELSE "open") /\ UNCHANGED depth
             ELSE depth' = [depth EXCEPT ![f] = @ + 1] /\ UNCHANGED pc
        /\ UNCHANGED <<refused, productVars, breakVars>>

(* mkdir() fails for another reason: no space, no permission.              *)
MkdirRefused(f) ==
    /\ pc[f] = "mkdir"
    /\ Path(f, depth[f]) \notin dirs
    /\ refused' = [refused EXCEPT ![f] = TRUE]
    /\ Goto(f, "sleep")
    /\ UNCHANGED <<dirs, depth, productVars, breakVars>>

(* Mutant for ProductsKept: no second look.                                *)
LookAgainNot(f) ==
    /\ pc[f] = "sleep"
    /\ Goto(f, "failed")
    /\ UNCHANGED <<dirVars, productVars, breakVars>>

(* time.sleep(2), and a second look.                                       *)
LookAgain(f) ==
    /\ pc[f] = "sleep"
    /\ Goto(f, IF Dir(f) \in dirs THEN "open" ELSE "failed")
    /\ UNCHANGED <<dirVars, productVars, breakVars>>
-----------------------------------------------------------------------------
(* The product.                                                            *)

(* Dataset(product_filename, "w") truncates the file.                      *)
OpenProduct(f) ==
    /\ pc[f] = "open" /\ Dir(f) \in dirs
    /\ product' = [product EXCEPT ![ProductName(f)] = {}]
    /\ writing' = writing \cup {f}
    /\ Goto(f, "write")
    /\ UNCHANGED <<dirVars, breakVars>>

(* OSError: the file system refuses, or another process has it open.       *)
OpenRefused(f) ==
    /\ pc[f] = "open"
    /\ refused' = [refused EXCEPT ![f] = \A g \in writing : ProductName(g) # ProductName(f)]
    /\ Goto(f, "failed")
    /\ UNCHANGED <<dirs, depth, productVars, breakVars>>

WriteProduct(f) ==
    /\ pc[f] = "write"
    /\ product' = [product EXCEPT ![ProductName(f)] = @ \cup {f}]
    /\ writing' = writing \ {f}
    /\ Goto(f, "break")
    /\ UNCHANGED <<dirVars, breakVars>>

(* An exception before close(), which process() does not catch: a disk     *)
(* that is full, a setting or key that is missing, no git.  What was       *)
(* written stays under the name of the product.                            *)
WriteFails(f) ==
    /\ pc[f] = "write"
    /\ refused' = [refused EXCEPT ![f] = TRUE]
    /\ writing' = writing \ {f}
    /\ Goto(f, "failed")
    /\ UNCHANGED <<dirs, depth, product, breakVars>>
-----------------------------------------------------------------------------
(* The breakpoint file.  shared_dict is the sequence of its entries in the *)
(* order of create_variables().  Kinds: "array" of one to three            *)
(* dimensions, "value" and "deep" (an attribute), and "other" (None, an    *)
(* object...).                                                             *)

Dict(f) == L1b[f].dict

(* Position in ds of the dimension of size z, or 0.                        *)
Find(ds, z) ==
    LET P == {i \in DOMAIN ds : ds[i].size = z}
    IN  IF P = {} THEN 0 ELSE Min(P)

(* Mutant for BreakpointExact: a dimension per group.                      *)
WithDimOwn(ds, g, z) ==
    IF \E i \in DOMAIN ds : ds[i].size = z /\ ds[i].group = g
      THEN ds ELSE Append(ds, [size |-> z, group |-> g])

(* dim_sizes is one list for all groups of the file.                       *)
WithDim(ds, g, z) ==
    IF Find(ds, z) # 0 THEN ds ELSE Append(ds, [size |-> z, group |-> g])

WithDims(ds, e) ==
    LET z == e.shape
        one == WithDim(ds, e.group, z[1])
        two == IF Len(z) > 1 THEN WithDim(one, e.group, z[2]) ELSE one
    IN  CASE e.kind # "array" -> ds
          [] e.kind = "array" /\ Len(z) <= 2 -> two
          [] OTHER -> WithDim(two, e.group, z[3])

(* createVariable() finds a dimension in the group of the variable or in   *)
(* one above it.                                                           *)
Visible(ds, e) ==
    \A k \in DOMAIN e.shape :
       \E i \in DOMAIN ds : ds[i].size = e.shape[k] /\ IsPrefix(ds[i].group, e.group)

(* The next entry: a variable or an attribute, or an exception: ValueError *)
(* for a value of another type, RuntimeError of the library for a          *)
(* dimension that is not visible.  The file stays as it is then.           *)
WriteEntry(f) ==
    LET e == Dict(f)[entry[f] + 1]
        ds == WithDims(dims[f], e)
    IN  /\ pc[f] = "break" /\ entry[f] < Len(Dict(f))
        /\ dims' = [dims EXCEPT ![f] = ds]
        /\ IF e.kind = "other" \/ (e.kind = "array" /\ ~Visible(ds, e))
             THEN Goto(f, "unsaved") /\ UNCHANGED entry
             ELSE entry' = [entry EXCEPT ![f] = @ + 1] /\ UNCHANGED pc
        /\ UNCHANGED <<dirVars, productVars>>

Finish(f) ==
    /\ pc[f] = "break" /\ entry[f] = Len(Dict(f))
    /\ Goto(f, "saved")
    /\ UNCHANGED <<dirVars, productVars, breakVars>>

FileStep(f) ==
    \/ IsDir(f) \/ MakedirsUp(f) \/ MakedirsDown(f) \/ MkdirRefused(f) \/ LookAgain(f)
    \/ OpenProduct(f) \/ OpenRefused(f) \/ WriteProduct(f) \/ WriteFails(f)
    \/ WriteEntry(f) \/ Finish(f)

Next == \E f \in Files : FileStep(f)

Spec == Init /\ [][Next]_vars
-----------------------------------------------------------------------------
(* Types of all variables.                                                 *)
TypeOK ==
    /\ pc \in [Files -> {"isdir", "up", "mkdir", "sleep", "open", "write", "break",
                         "saved", "unsaved", "failed"}]
    /\ \A f \in Files : depth[f] \in DOMAIN Dir(f)
    /\ refused \in [Files -> BOOLEAN]
    /\ \A q \in dirs : q \in Made \/ \E f \in Files : IsPrefix(q, Dir(f))
    /\ product \in [ProductNames -> SUBSET Files]
    /\ writing \subseteq Files
    /\ \A f \in Files : entry[f] \in 0..Len(Dict(f))
    /\ \A f \in Files : \A i \in DOMAIN dims[f] : dims[f][i].size \in Nat

(* Processes that make the same directories at the same time never fail    *)
(* for it: a process ends without a product only when an operation of its  *)
(* own failed, or another process is writing the same product              *)
(* (alg_product_output.py:203).  No directory is ever made without its     *)
(* parent.                                                                 *)
OnlyRefusedFails ==
    /\ \A f \in Files : pc[f] = "failed" =>
         \/ refused[f]
         \/ \E g \in Files \ {f} : ProductName(g) = ProductName(f)
    /\ \A f \in Files : pc[f] = "open" => Dir(f) \in dirs
    /\ \A q \in dirs : Len(q) > 1 => Front(q) \in dirs

(* Two L1b files of the same pass: zone, cycle and orbit are the same, and *)
(* start and end are within a second.                                      *)
Near(t, u) == t - u < Second /\ u - t < Second
SamePass(f, g) ==
    /\ L1b[f].dir = L1b[g].dir /\ L1b[f].cycle = L1b[g].cycle /\ L1b[f].orbit = L1b[g].orbit
    /\ Near(Tai2Utc(L1b[f].start), Tai2Utc(L1b[g].start))
    /\ Near(Tai2Utc(L1b[f].end), Tai2Utc(L1b[g].end))

(* The product of every file that was processed has the data of that file, *)
(* unless another file of the same pass is processed: rounding the times   *)
(* to seconds never gives two passes one name (alg_product_output.py:275). *)
DistinctPassesKept ==
    \A f \in Files : pc[f] \in {"break", "saved", "unsaved"} =>
      \/ product[ProductName(f)] = {f}
      \/ \E g \in Files \ {f} : SamePass(f, g)

(* Every process ends with its own product on disk, in spite of the other  *)
(* processes of its chunk.                                                 *)
ProductsKept == TypeOK /\ OnlyRefusedFails /\ DistinctPassesKept

(* The time in a name is the time to the nearest second, with minutes and  *)
(* seconds below sixty; an hour of 24 occurs, and only in the last half    *)
(* second of a day (alg_product_output.py:229).                            *)
ClockRounds ==
    \A f \in writing : \A t \in {Tai2Utc(L1b[f].start), Tai2Utc(L1b[f].end)} :
      LET c == Clock(t)
          named == c.day * Day + c.h * Hour + c.m * Minute + c.s * Second
      IN  /\ 2 * (named - t) < Second /\ 2 * (t - named) <= Second
          /\ c.h <= 24 /\ c.m < 60 /\ c.s < 60
          /\ c.h = 24 => c.m = 0 /\ c.s = 0 /\ 2 * (t % Day) > 2 * Day - Second

(* UTC as it is defined: a leap counts from the TAI time at which it is.   *)
TrueUtc(t) == t - OffsetOf({i \in DOMAIN Leaps : Leaps[i].at + Leaps[i].offset <= t})

(* tai2utc() is off by at most the leap that is due, early, and only in    *)
(* the offset's time after the leap's name (grain.py:60 asks "should these *)
(* be > or >=?").                                                          *)
UtcNearTruth ==
    \A f \in writing : \A t \in {L1b[f].start, L1b[f].end} :
      \/ Tai2Utc(t) = TrueUtc(t)
      \/ \E i \in DOMAIN Leaps :
           /\ Tai2Utc(t) = TrueUtc(t) - (Leaps[i].offset - OffsetOf(1..i - 1))
           /\ Leaps[i].at <= t /\ t < Leaps[i].at + Leaps[i].offset

(* The times of a product are those of its L1b file, but for the leap that *)
(* is due and the 24 hours that a name may show.                           *)
TimesExact == ClockRounds /\ UtcNearTruth

(* The first entry of the dictionary that has a dimension of size z.       *)
FirstWith(d, z) ==
    Min({i \in DOMAIN d : d[i].kind = "array" /\ z \in Range(d[i].shape)})

(* Which dictionaries have a breakpoint file: those without values of      *)
(* unknown types in which every size of an array first occurs in the group *)
(* of that array or above it.  A size that first occurs in one group       *)
(* cannot be used in a group beside it or above it                         *)
(* (breakpoint_files.py:56): such a dictionary, and one with None in it,   *)
(* has no breakpoint file, although clev2er/__init__.py:660-680 promises   *)
(* one after any algorithm.                                                *)
BreakpointExact ==
    \A f \in Files :
      LET d == Dict(f)
          Savable == \A i \in DOMAIN d :
            /\ d[i].kind # "other"
            /\ d[i].kind = "array" => \A z \in Range(d[i].shape) :
                                        IsPrefix(d[FirstWith(d, z)].group, d[i].group)
      IN  /\ pc[f] = "saved" => Savable
          /\ pc[f] = "unsaved" => ~Savable
============================================================================
