# Verification of the CryoTEMPO land ice chain

This directory holds TLA+ models of the CLEV2ER chain controller and of the
CryoTEMPO land ice chain that it runs, down to its grids, retrackers and
geolocation, the TLC configurations that check them on small instances, and
TLAPS proofs that most of the properties checked hold for instances of every
size. Paths such as `src/src/clev2er/tools/run_chain.py` are relative to
the directory that contains this one; `PROJECT.json` maps every definition to
the source lines that it models.

Contents: [1 the system](#1-the-system) · [2 modules](#2-modules-and-code) ·
[3 runs](#3-model-checking) · [4 proofs](#4-proofs) ·
[5 disagreements](#5-where-code-and-documentation-disagree) ·
[6 not modelled](#6-what-is-not-modelled) · [7 plan](#7-plan)

## 1 The system

`run_chain.py` takes a list of CryoSat-2 L1b files through a list of algorithms,
each of which reads and extends one dictionary per file, and ends with a NetCDF
product per file. It does so sequentially or with one spawned process per file.

| component | source | state | operations |
|---|---|---|---|
| start-up | `tools/run_chain.py` (`main`), `utils/config/load_config_settings.py`, `utils/xml/xml_funcs.py`, `algorithms/cryotempo/find_*.py` | command line, merged configuration, algorithm list, file list | parse, search and merge configuration files, apply switches and `--conf_opts`, load the list, run the finders, limit, call `run_chain()` |
| chain controller | `tools/run_chain.py` (`run_chain`, `run_chain_on_single_file`), `algorithms/base/base_alg.py` | algorithm objects, shared memory objects, chunk and file index, three counters, one result queue per process | import and initialise, start and join processes chunk by chunk, call files sequentially, count, write breakpoints, finalise, return |
| algorithms | `algorithms/cryotempo/alg_*.py` | `shared_dict` of one file, the product file | twenty-one `process()` functions |
| multi-processing log | `tools/run_chain.py` (logger process, sort and merge) | queue buffers, pipe, `.mp` file, main log | log, flush, write, stop, sort, rewrite, merge, remove |
| shared memory resources | `utils/masks`, `utils/dems`, `utils/slopes`, `utils/roughness`, as `run_chain()` uses them | named segments, who created and who attached to them, the names the resource tracker of each run knows | attach or create, fill, close, unlink |
| output files | `alg_product_output.py`, `utils/time/grain.py`, `utils/breakpoints` | directories, products and breakpoint files that the processes of a chunk share | convert and round times, make directories, name, write |
| waveforms | `utils/cs2/waveform_quality`, `utils/cs2/retrackers` | for each waveform the place of the search and the flags | quality tests, search for the leading edge, set the retracking point, count failures |
| grids and masks | `utils/dems`, `utils/slopes`, `utils/roughness`, `utils/dhdt_data`, `utils/masks` | files, Zarr stores, arrays in memory | find, load, interpolate, cut segments, look surface types up, convert GeoTIFF to Zarr |
| geolocation | `utils/cs2/geolocate` | for each record the candidate points, the POCA, the verdict | search in a DEM (Roemer, LEPTA), correct with a slope model, unwrap the phase |
| backscatter, uncertainty | `utils/cs2/backscatter`, `utils/uncertainty` | none (functions of arrays) | numerical |
| plots, preparation scripts | `utils/areas`, `utils/backgrounds`, `uncertainty_preprocessing` | none that the chain depends on | drawing, one-off preparation |

How they interact: `main()` calls `run_chain()` once. In sequential processing
the controller owns the algorithm objects, and each file is a function call. In
multi-processing every process initialises the algorithms again (`process_setup`
in `base_alg.py`), returns its result through its own `rval_queue` and its log
through one shared `log_queue`, and shares the product directories with the
other processes of its chunk. The controller joins the processes of a chunk in
list order, reads their queues, and starts the next chunk.

What is hard, and which properties answer it:

* *Interleaving and crashes.* Processes end in any order, with a result, with a
  caught exception or with none; the controller must neither wait for ever nor
  miscount (`ProcessesInHand`, `TallyExact`, `MpAccounted`, `Verdict`,
  `Termination`, and the abstract `ChainLedger`).
* *Error paths and finalisation.* Ctrl-C, also between two counters,
  `stop_on_error`, failures after the breakpoint, and a `finalize()` that raises when
  the result is already in the queue (`TallyExact`, `StopsOnError`,
  `SuccessIsComplete`, `ProcessedOnce`).
* *A protocol by dictionary.* Eighteen algorithms in a row rely on keys,
  options, masks and hemispheres that earlier ones chose (`KeysInOrder`), and on
  per-record decisions that must not be lost on the way, or applied twice
  (`TideOnce`, `RecordsSound`).
* *Many sources of one setting.* Two files, switches and options in a fixed
  order, and loops that edit the list they walk through (`FilesFit`,
  `ListExact`, `SelectedExactly`, `RequestSound`).
* *An asynchronous log.* Feeder threads, a bounded pipe, a logger nobody joins
  (`WrittenBeforeStop`, `LinesInOrder`, `Shutdown`).
* *Memory that outlives processes.* Segments are found by name, so runs on one
  host share them whether they want to or not, also with runs that were killed
  before they filled them (`SegmentsSound`, `CleanWhenAlone`,
  `RaisesOnlyInCompany`).
* *A shared file system and clocks.* Processes make the same directories and
  sometimes the same file; names are made of rounded times in two time scales
  (`ProductsKept`, `TimesExact`, `BreakpointExact`).
* *A search that must end.* The retrackers repeat a search over a waveform in
  which samples may be NaN, so that comparisons are false
  (`Termination`, `EdgeSound`, `Verdicts`).
* *Arrays turned round.* Rows ascend or descend by format, axes are turned in
  some classes and not in others and stretched to the outer edges of a raster,
  parts of a store are cut out for speed, and the
  store may be rewritten by a converter meanwhile (`ValuesExact`,
  `LoadedComplete`, `SegmentSound`, `LoadSucceeds`).
* *Rejections far from their consequences.* A record is rejected in one loop and
  its location put back in another, with NaN on the way
  (`HeightsEarned`, `PocaFits`, `FileSurvives`, `SlopeExact`).

`PROJECT.json` lists each of these hazards at the line where it bites.

## 2 Modules and code

### RunChain — the controller

`RunChain.tla` has the controller's control point `pc` (`load`, then `start` and
`join` for each chunk or `seq` and `call` for each file, `finalize`, `returned`,
or `dead` after an exception nobody catches), its counters under their names in
the code, and for each file the control point of its call: `idle`, `open` (the
`with Dataset`), `algs` (the loop over the algorithms, at `alg[f]`), `break` (the
breakpoint file), `stopping` (a result is queued and `finalize(stage=5)` is still to
run), `finish`, `exited`. `rvq[f]` is the file's `rval_queue`, and in
a sequential call the return value; it has two results (`Twice`) when
`finalize(stage=5)` raised after the first was queued, because the `except` clause
queues one too. `fate` and `cut` are history variables: what happened to a file
whether or not the controller hears of it, and whether Ctrl-C came between the
counters of one file.

| action | code |
|---|---|
| `ImportAlgorithm`, `ImportFails`, `SharedMemInitFails`, `LoadCrashes`, `LoadDone` | the import loop, with its two `return (False, 1, 0, 0, ...)` |
| `StartProcess`, `AllStarted`, `JoinProcess`, `ChunkDone`, `ControllerCrashes` | the loop over `np.array_split(range(n), ceil(n / max))`; `NumChunks`, `ChunkStart` and `ChunkFiles` are that arithmetic |
| `CallNextFile`, `TallyCall`, `AllCalled`, `Interrupt` | the sequential loop |
| `OpenFile`, `AlgorithmOk`, `AlgorithmStops`, `FinalizeStopped`, `AlgorithmRaises`, `WriteBreakpoint`, `FinishFile`, `FileCrashes` | `run_chain_on_single_file()` |
| `FinalizeAndReturn`, `FinalizeCrashes` | the `finalize(stage=2)` and `(stage=3)` loops and the return |

Whether a file opens, what an algorithm or its `finalize()` returns or raises, and
when somebody presses Ctrl-C are free choices. (The `finalize()` of the repository's
own algorithms acts only on objects in shared memory, which spawned processes do not
have; the controller takes any algorithm.) The step from the last instruction of a
process to the end of its `join()` is one action: results are small and the queue of
a process that ended is complete when `join()` has returned.

`ChainLedger.tla` is the abstract specification: files get an outcome once; a
report is issued once, after which nothing changes, and it agrees with the
outcomes: a file is counted once, one with two results twice, and Ctrl-C may cut
one file short. The instance `Ledger` in `RunChain` maps `fate` to the outcomes and `ret`
to the report.

### Startup — main() before run_chain()

A configuration is a function from paths `<<section, key>>` to values; a file
name is a baseline, a version and an extension. `FindChainConfig` and
`LoadAlgorithmList` are the two searches through the directories,
`ReadChainConfig` the merge, `CheckBaselineVersion` the comparison of `--baseline` and
`--version` with the keys `baseline` and `version` inside the file (which may differ
from its name, or be missing), `ApplyArguments` the switches, `ApplyOption` one
`--conf_opts` assignment with its conversion (`Convert`), `ScanFinder` and
`ScanAlgorithm` one iteration of the loops that remove disabled elements while
iterating, `RunFinder` one finder over the archive, `LimitAndCheckFiles` and
`CallRunChain` the rest. `Hits` are the files that a finder is asked for and
`ByMonth` the orders in which it may return them. What `glob` returns is a set, and
the code's `[-1]` any of its members. The specification is `MainSpec`, with the
actions of `MainNext`, because its theorems stand beside those of `RunChain`;
`Empty` is the empty string, a constant only because the prover cannot read `""`.
The program can leave through `exit` or `crash` (an exception such as a missing key).

### CryoTempo — the algorithms

One action per algorithm. An array of `shared_dict` is a function on the
records of the file, or the set of records where it is true or finite. What a
mask, a test on a waveform, a retracker or a geolocation finds in a record is a
free choice; what the code does with it, and in which order it tests the
configuration, the mode and the hemisphere, is kept. `shared_dict` is a function
on the keys stored so far, which `Updated` extends. The lists of baselines B and
D are defined in the module (`B001`, `D001`); a third, `LeptaList`, has the two
algorithms that neither uses. An
exception is an outcome, because which exception it is decides whether the
controller catches it; so is an error that `process()` returns because a key it
tests for is not there (`Looking`, where `Reading` raises a `KeyError`). The sum of
corrections of a record says how often each correction is in it. `ProductOutput`
can fail at any of the steps between `Dataset(..., "w")` and `close()`: a key or a
setting is missing, `git` is not installed, or the disk is full
(`WriteFailures`); the product is then partial. Variables that are read from the
L1b file outside of a `try` are assumed to be there.

### MpLogging — the log of a multi-processing run

Each process has a buffer that its feeder thread moves into the one bounded
pipe; a process ends only when its buffer is empty. The logger writes what it
takes from the pipe at its own offset of the temporary file; the history
`handled` counts what it has taken of each file. The controller joins,
queues the end marker, and then sorts, rewrites, merges and removes the
temporary file, concurrently with the logger. A line written behind the end of a
file that was truncated meanwhile leaves a hole. Python's stable sort is
`SortedByKey`: each line goes to the place that its rank gives it, the number of
lines with a smaller file number or with the same one and read before it.

### SharedResources — named shared memory

Each run on the host attaches to the segments its algorithms load, or creates them:
`Attach`, `Create`, sizing, `Fill` are steps of their own, because the code and
Python's `SharedMemory` leave gaps between them, in which another run can attach to
a segment without a size, which fails, or to one of zeros (`content`). `obj[r][o]`
is what a grid object holds (`shared_mem_child` is the code's flag), `tracker[r]`
what Python's resource tracker of the run will unlink when the run is over.
`MaskCleanUp` and `DemCleanUp` are the two versions of `clean_up()`: one raises, the
other logs. `Kill` ends a run anywhere, with or without its tracker. `Process`
stands for the files being processed, which touches no segment: only the
controller's instances get `_init_shared_mem`, and the processes of the chain load
private copies.

### OutputFiles — products and breakpoint files

One process per L1b file on one file system: `os.path.isdir()` and the steps of
`os.makedirs()`, the second look after two seconds, opening, writing (which may fail
half-way, `WriteFails`), and then the entries of `shared_dict` one after the other
into the breakpoint file, with the list of dimensions that all its groups share
(`WithDims`, for arrays of one, two and three dimensions as in the code). `Tai2Utc`
and `Clock` are the conversion of the times in a product's name, checked against
`TrueUtc` and against the nearest second. The leap seconds file lists total offsets;
grain's sum of the differences up to a date is the total of the last leap before it
(`OffsetOf`).

### Retracker — waveforms

`Check` is the test of the thresholds and of `include_measurements_array`,
`UnfitFile` what a file of zeros or of another size ends in: `sys.exit()` in the
quality tests, `ValueError` in the retrackers. `LrmQc` and `SarinQc` are those tests
for one waveform. `Begin`, `NoEdge`, `EdgeStart`, `NoPeak`, `AtEnd` and `PeakFound`
are the iterations of the search that both retrackers have in common, `TcogPoint`,
`McPoint` and `NoPoint` what they do with the edge, and `LoopSkipped` and `NoIndex`
what becomes of a threshold of zero, with which the search is never entered.
Arithmetic is exact, on integers; only the coefficients of the Savitzky-Golay filter
are a parameter. NaN is in no comparison.

### Grids — DEMs, slopes, roughness, dh/dt and masks

The value of a cell is its own place, so an answer shows which cells it was made of,
and the properties can compare that with the cells around the point. Two scales are
kept apart. The axes are those that the code makes, by `linspace()` between the
outer edges of the raster; coordinates are in halves of the distance of their nodes,
so node n is at 2n. Where the cell itself is on that scale is `Centre`: it and its
node differ by up to half a cell, nothing in the middle and most at the edges.
NetCDF files are given with their first and last node, and their nodes are at their
cells. `AbsFilter` and `MedianFilter` are the two filters that the GeoTIFF grids of
dh/dt go through; `Rates` gives each place a number, since both compare values. The
catalogue of names with the flags that `load()` sets for each is taken from the
code; `"none"` stands for a filled version that does not exist. `ConvStart` to
`SaveMetadata` are the converter `geotiff_to_zarr.py`, window by window, which may
be killed and started again, also while a grid is open. `Chunk` is the part of a
store that `chunked_interpolation()` reads.

### Geolocate — from nadir to POCA

The four methods, record by record. A point of a DEM is known by what the searches
ask of it: in the beam, height plausible, dh/dt known, range, distance.
`RoemerCoarse`, `RoemerFine`, `RoemerCheck`, `RoemerSlide`; `LeptaCandidates`,
`LeptaWindow`, `LeptaPlace`; `LrmElevation` with the choice of the model and the
weights of its six neighbours (`Interpolated`), exactly; `SinRead` with the bins
from which `phase_fit_sample()` takes the phase (`PhaseBins`, for each
`window_method`, and `SinUnset` for none) in a waveform of `Bins` samples, whose
coherence is at most `FullCoherence`; `SinUnwrap`. `Heights` is the last loop of the
two searches, which puts nadir back where a record was rejected.

### How the modules fit together

`RequestSound` of `Startup` is what `RunChain` assumes of its arguments. The free
choice of `AlgorithmOk`, `AlgorithmStops`, `AlgorithmRaises` and `FileCrashes` in
`RunChain` covers every outcome of `CryoTempo`. `MpLogging` details what
`RunChain` leaves out between `StartProcess` and `JoinProcess`: a process that
logs, and must flush before it ends. `SharedResources` details what `RunChain`
calls `shmLive`, and adds the other runs. What `CryoTempo` leaves to chance (which
waveforms pass, where a retracking point or a POCA is found, what a grid says)
is what `Retracker`, `Geolocate` and `Grids` compute, and `OutputFiles` is the
last algorithm and `WriteBreakpoint` seen from all processes of a chunk. The
modules share no variables, so they are checked separately.

## 3 Model checking

`tlc -config <cfg> <module>` with the configurations below, and with those of
section 5, which state what documentation says and the code does not do.

| run | module, cfg | question | bounds | distinct states |
|---|---|---|---|---|
| `startup` | `MCStartup`, `Startup.cfg` | which files are used, where each setting comes from, which algorithms and L1b files `run_chain()` gets | every command line with one way to name inputs and one more option, two for `--file` and `--year`; 46 installations, each differing from an ordinary one in one respect | 1,078,342 |
| `chain` | `MCRunChain`, `RunChain.cfg` | is the controller right in every interleaving and with every failure, does it always end, and does it keep the ledger | 3 files, 2 algorithms, 2 processes | 253,802 |
| `algorithms` | `MCCryoTempo`, `CryoTempo.cfg` | does each algorithm find what it reads, and do the records keep their corrections, locations and heights | 2 records, 6 latitudes, 4 modes, 5 surfaces, at most one option, 3 lists | 3,930,095 |
| `logging` | `MCMpLogging`, `MpLogging.cfg` | is a message ever lost or reordered before the logger stops | 2 processes, 3 messages each, a pipe of 2 | 19,589 |
| `shared_memory` | `MCSharedResources`, `SharedResources.cfg` | who holds a segment that is not filled, what is left in memory and who fails when runs share names and are killed | 2 runs (symmetric), 3 algorithms with 4 objects on 3 names | 173,943 |
| `output_files` | `MCOutputFiles`, `OutputFiles.cfg` | does every process end with its own product, with the right time in its name | 4 files: two of one month, one in the last half second of a day, one a second version of the first; 2 leap seconds | 375,037 |
| `retrack` | `MCRetracker`, `Retracker.cfg` | does the search end, on an edge, with one verdict, whatever the arguments | 2 records, 8 bins oversampled twice, every waveform of two pulses | 109,891 |
| `grids` | `MCGrids`, `Grids.cfg` | is each value made of the right cells, is what loads complete | 3 x 4 nodes, voids in the first cells, dh/dt with one value beyond the filter's bound, points on, between and outside nodes, 2 conversions, every name of the catalogue | 408,075 |
| `geolocate` | `MCGeolocate`, `Geolocate.cfg` | which records get a height, from which point, and where is it reported | 2 records, 19 combinations of method and options, sets of up to 2 DEM points of 9 kinds | 106,939 |

Why these bounds suffice to meet the interesting cases. Three files on two
processes is the smallest instance with two chunks and with chunks of
different size, so that the rounding of `ceil` and `array_split` matters; two
algorithms put the breakpoint before, at and after the one that fails. Two
records are needed for anything that could mix records up, and six latitudes
lie on both sides of each bound that the code tests. A pipe shorter than the
messages makes the feeders block. Four entries of an algorithm list
contain every pattern of consecutive disabled ones up to length four. Two runs
are enough for a race of attach and create and for a leftover of a killed run;
the third algorithm gives one name to two objects, one of them cleaned up twice.
Two pulses of different height make the search reject an edge and go on.
Three rows and four columns distinguish rows from columns, first from last and
inner from outer; two records show whether one leaves something behind for the
next. The safety properties do not rest on the bounds at all: they are proved
(section 4).

**Fairness.** `RunChain` assumes weak fairness of the controller and of every
file's call: the operating system schedules each process, and every algorithm
returns (none waits for another process). No fairness is assumed of Ctrl-C or of
a crash of a process or of the controller, so `Termination` holds whether they
happen or not. The controller's own failures (`ImportFails` and the like) are
alternatives of the action that the controller must take, never obligations.
`MpLogging` assumes the same of the feeders, the logger, the end of each process
and the controller, and nothing of further messages or of an exception;
`Shutdown` is its liveness property. `Retracker` assumes weak fairness of its one
sequential function: a call that is not interrupted goes on, and `Termination`
says that its loops end. The other modules are checked for safety only.

**Deadlock** is checked in `RunChain` and `Startup`, which stutter explicitly
where the program has ended. In the other modules the file, the function or the
runs simply end, and the check is switched off; `Shutdown` covers the case of
everyone waiting for everyone.

**Properties.** A listed invariant is often a conjunction of named parts, each
with its own comment in the module: `FilesFit`, `RequestSound` (`Startup`);
`ProcessesInHand` (`RunChain`); `KeysInOrder`, `RecordsSound` (`CryoTempo`);
`LinesInOrder` (`MpLogging`); `SegmentsSound` (`SharedResources`);
`ProductsKept`, `TimesExact` (`OutputFiles`); `Verdicts` (`Retracker`);
`ValuesExact` (`Grids`); `HeightsEarned`, `PocaFits` (`Geolocate`). The type
invariant of each module is one of these parts.

Each property has a mutant in `PROJECT.json`: a change to one definition such as
a programmer could make (rounding down, a `join` with a timeout, a forgotten
reset), with which TLC reports that property violated.

## 4 Proofs

`tlapm <module>` checks each of the eight proof modules in one to a few minutes.
All of the safety properties that the runs check, invariants and action
properties, are proved for instances of any size; only liveness is left to TLC.
The theorems about `Startup` are in `RunChainProofs`: the two modules are the two
functions of `run_chain.py`, `main()` and the `run_chain()` that it calls.

| module | theorem | property | for every |
|---|---|---|---|
| `RunChainProofs` | `TypeCorrect`, `ProcessLimit`, `NothingLeftRunning`, `ProcessesStayInHand` | the three parts of `ProcessesInHand`, and it | number of files, algorithms and processes; interleaving, crash, Ctrl-C |
| | `EachFileOnce` | `ProcessedOnce` | |
| | `CountersExact`, `VerdictHonest` | `TallyExact`, `Verdict` | |
| | `SuccessMeansComplete` | `SuccessIsComplete` | |
| | `NothingAfterAnError` | `StopsOnError` | |
| | `ProcessesAccountedFor` | `MpAccounted` | |
| | `ImplementsLedger` | `KeepsLedger`: `Spec => Ledger!Spec` | |
| | `FilesAreFit`, `ListIsExact`, `SelectionIsExact`, `RequestIsSound` | `FilesFit`, `ListExact`, `SelectedExactly`, `RequestSound` (of `MainSpec`) | command line and number of options, directory in any order, algorithm list, archive and pair of configuration files |
| `CryoTempoProofs` | `KeysAreInOrder`, `TideAddedOnce`, `RecordsAreSound` | `KeysInOrder`, `TideOnce`, `RecordsSound` | number of records, track, surface and setting, with each of the three lists |
| `MpLoggingProofs` | `NothingUnwritten`, `LinesStayInOrder` | `WrittenBeforeStop`, `LinesInOrder` | number of files and messages, capacity of the pipe |
| `SharedResourcesProofs` | `SegmentsAreSound`, `CleansUpWhenAlone`, `AloneNeverRaises` | `SegmentsSound`, `CleanWhenAlone`, `RaisesOnlyInCompany` | number of runs, names, algorithms and objects; killed anywhere |
| `OutputFilesProofs` | `ProductsAreKept`, `TimesAreExact`, `BreakpointsAreExact` | `ProductsKept`, `TimesExact`, `BreakpointExact` | files, directories, times, leap seconds and dictionaries |
| `RetrackerProofs` | `EdgesAreSound`, `VerdictsAreSound` | `EdgeSound`, `Verdicts` | waveforms, coherences, filter, thresholds, number of bins and records |
| `GridsProofs` | `LoadedGridsAreComplete`, `LoadsSucceed`, `SegmentsAreSound`, `ValuesAreExact` | `LoadedComplete`, `LoadSucceeds`, `SegmentSound`, `ValuesExact` | size of grid, windows and bounds, voids, dh/dt, points asked for together, basin numbers, name of the catalogue; converter killed anywhere but in a removal |
| `GeolocateProofs` | `HeightsAreEarned`, `PocaIsPossible`, `TheFileSurvives`, `SlopesAreExact` | `HeightsEarned`, `PocaFits`, `FileSurvives`, `SlopeExact` | number of records, DEM points, slope models, window of the phase |

### The controller

The bound on processes is a bound on the size of a chunk, so it
starts with arithmetic: `DivMod`, `NumChunksFacts` (there are enough chunks) and
`ChunkBounds` (chunks are consecutive intervals of at most `MaxProcs` files that
end at the last file) replace an induction over the chunks by the quotient and
the remainder. None of the properties is inductive by itself. The invariant is

    IInv == TypeOK /\ Control /\ AlgBound /\ Where

`Control` ties the file index to the chunk that the controller is at, `AlgBound`
keeps a call inside the imported algorithms, and `Where` says which files can be
in progress at each control point: without it a step from `join` to the next
chunk could leave processes of the old one behind. One lemma per group of
actions shows that a step keeps `IInv`. `Frontier` (the files behind the
controller's position are idle) adds what `EachFileOnce` needs: the two actions
that open a file open an idle one.

The counters need more: the controller reads a queue, not the outcome.

    Books == IInv /\ Frontier /\ QueuesAgree /\ CutLate /\ TallyExact /\ Returned

`QueuesAgree` says that an unread queue agrees with the file's fate and that a file
not yet looked at still has its result in its queue; `CutLate` that Ctrl-C between two
counters is the last that happens to them; so `OneMore` can show that a
counter rises exactly if the file belongs to the set that it counts; `SameTally`
covers the steps that change neither. `TalliedDone` is the reason why a step of a
process cannot change a fate that is already counted: files looked at are not in
progress.

    Outcome == Books /\ Stages /\ FirstError /\ Handed /\ Called /\ Report

adds what becomes of a single file. `Stages` follows a call through its control
points (how far the algorithms are, whether the breakpoint file exists, what the
process still holds), `FirstError` is `stop_on_error` while the loop is still
running, `Handed` (multi-processing) and `Called` (sequential) say which files have
been given to a call at each control point, and `Report` what the return value is
made of.
The refinement needs no more: its step
simulation is one case per group of actions, each a step of the ledger or a
stutter.

### The start-up

`main()` is sequential, so each invariant says what is known from a certain part on;
`Reached(parts)` stands for "in one of these parts, or has called `run_chain()`".
All rest on `TInv`, the types: that the loops which shorten their own lists keep
their index within them.

* `FInv` for `FilesFit`: the file that was taken is one of the candidates of the search
  (`CandidateFacts`: those are the best of the directory, whichever of them the
  listing puts last), and it agrees with the switches. That the file is there, and
  that it agrees, are established by different parts of `main()`.
* `LInv` for `ListExact`. While the loop walks through the list it shortens, there is
  a growing map from the places of what is left to the places in the file, and the
  element under the index is the one that the loop looks at next (`Walked`): behind
  it exactly the even ones of each run of disabled elements are left, before it
  all. `WalkRemoves` is the step over the element that moves up into the place of the
  removed one; `WalkEnds` turns the map into the list that `ListExact` counts out.
* `SInv` for `SelectedExactly`: what has been found is, without repetition, what the
  finders so far contribute (`PickedBy`), and none of them failed (`Usable`). No file
  comes twice since each finder is asked once and two finders differ in mode
  (`PickedApart`); a slice keeps both (`BeginningFacts`). The link between the
  arithmetic of `--year` and `--month` and the request is `PickedRequested` and its
  converse `RequestedPicked`: a finder that did not fail has a year.
* `CInv` for `RequestSound`: after n options a setting has the value of the last of them
  that names it, else its value after the switches (`ValueAfter`). An option that
  replaces the section `chain` as a whole removes its settings for good, for a later
  option that sets one of them raises (`Right`); this is why `run_chain()` finds
  the settings that it reads, or is not called.

Two facts that were only implicit in the bounds came to light here. A configuration
file numbered 000 counts as one without a version, so the list that is loaded with it
can have any; `ListFollowsConfig` says so, and the run has such a file. And the
configuration has `use_shared_memory` and `max_processes_for_multiprocessing` only if
the main configuration file does, which is part of `StartupAssumption`.

### The algorithms

`KInv` has one conjunct per algorithm, guarded by the position in the list (`pos > 8
=> ...`), that says which keys the algorithms so far have stored and how their
values are related: that a correction is in the sum of a record as often as its
surface and the mode say, which is once or not at all since the two lists of
locations are disjoint (`OnSurface`), that the retracked records are among the
included ones, that latitude and longitude come from the same place. `ListFacts`
gives the position of each algorithm in the three lists, and `Updated` is shown to
keep every key but the new ones, so an algorithm disturbs only the conjuncts about
what it stores.

### The log

`QInv` describes the messages between a process and the logger: the buffer has
the newest messages of its file in order (`Buffered`), the pipe exactly what was
sent and not yet handled (`Piped`), a process that was joined has an empty buffer
(`Joined`), and the end marker is the last in the pipe (`NoneLast`); hence
nothing is behind it. `LInv` adds the three copies of the lines: each is in order
per file and has only messages that were handled, also when the logger writes
into the file that was truncated. The sort needs `Rank` to be a bijection, which
is shown by counting.

### Shared memory

`SInv` follows a segment from its creation on: where a run is when it has made a
segment and not filled it (`Place`, `Unfilled`), that what it has not come to yet holds
nothing (`Fresh`), that an object holds a segment of its name (`Named`), and that its own
segments are filled before it goes on (`Own`). `SegmentsSound` follows: whoever holds
zeros holds those of another run that is filling them, or that died there.
`AInv` adds, for a
run that is alone, that each segment is held by the object that created it and
that its clean-up is still to come (`Owned`), and that a mask whose clean-up is to
come still has its segment (`Kept`), without which `Mask.clean_up()` could raise.

### Files

`DInv`: what a process knows of the directory at its control point (the parent is
there, the directory is there or was refused), that directories have their
parents, and what the file of its name holds. `BInv`: the dimensions made so far are
the sizes met so far, each in the group where it was met first. `TimesAreExact` is
arithmetic on seconds and days, and case distinctions over the last leap.

### Waveforms

`RInv` says what is known of the edge after each of the two steps that find it
(`Edge`), what the tests of the arguments have left possible (`Config`), and that
records to come have no verdict (`Pending`). The hard part is
not the steps but the functions. That the height of an edge is never NaN, so that
the loop cannot end on one, is `GradientFacts`: an interpolated NaN is never alone
between two samples that are none, because a step is less than half a bin.
`LargestExists` shows that a set of bins has a most coherent one, which needs the boxcar
to give fractions with positive denominators (`FastsmoothFacts`) and these to be
ordered transitively (`FractionsInOrder`).

### Grids

`CInv` says which cells of the two stores are written at each step of the
converter (`Progress`) and that an object that is sound has a store with
attributes (`Open`): the windows come before the attributes, so such a store is
full. Sound is what was not loaded from a store that an interrupted removal left,
and what no conversion has touched since: the code protects from neither. Its `SInv`
adds the axes in memory; that the centre of a cell is less than half the distance of
two nodes from its node is arithmetic (`CellsNearby`, `NodesNearby`). `LoadsSucceed` goes
through the catalogue.

`VInv`, for `ValuesExact`, adds which array each class has in memory once it is
loaded (`Loaded`). Read along its axis, in whichever direction that runs, such an
array has for each cell the datum of its place, or NaN at a void (`Reads`), and a
void value is left only where it is the first of the array and the only one
(`FirstOnly`). Of a filtered dh/dt it says that each value is that of one of the nine
cells around (`Smoothed`; `MedianFacts`: a median is one of the values), and of the others
that they are the file's own (`Unfiltered`). The rest follows the queries. The
interpolation takes the last node before a point and the first behind it; that these
exist and are neighbours is shown from the extremes of finite sets
(`FiniteHasExtremes`). For a Zarr grid only the part of the store around the points
asked for together is read, and `Covers` says that this part has the neighbours of
every one of them. The count of points inside is the number of pairs of a point and
a place in the list of basins (`Counted`); that it is the number of points, unless a
basin is given twice, is a statement about the image of a finite set (`FiniteImage`).

### Geolocation

A height is decided in the search, stored in the loop over all records, and
corrected for Doppler in a third place. `GInv` carries for each record what its
result must keep until then (`Stored`, `Untouched`), for the record in progress what
is known of the candidate point (`Searching`), and for the slope model that it is of
the record's hemisphere and the six neighbours lie in it (`InModel`).
`PhaseBinsNear` is the arithmetic of Python's slices. `SlopesAreExact` is an
identity between polynomials.

### Induction over data

The library's induction theorems take an operator as a parameter, which the
installed provers cannot instantiate. Where a proof needs induction it takes the
smallest counterexample instead: `SmallestExists` (from the well-foundedness of
the naturals) gives one for any set of numbers. In this way `RunningType` shows
that the recursive function of the sums of a boxcar exists and has numbers as
values, `LargestExists` and `MaxFacts` that a maximum does, and `FiniteHasExtremes`
that a finite set of numbers has both.

### Assumptions

All are evaluated by TLC on the instances of section 3.

* `SizesAssumption` (`RunChain`, `MpLogging`, `CryoTempo`): numbers of files, processes,
  algorithms, records are positive. `main()` refuses an empty list (`RequestComplete`), and a
  zero in the others is a division by zero or an empty list.
* `ConfigAssumption` (`CryoTempo`): the list is one of the three; settings are truth
  values.
* `AlgorithmsAssumption`, `CleanUpAssumption` (`SharedResources`): mask and DEM names
  differ; `finalize()` cleans up each grid that `init()` loads, a mask once. This is
  what the algorithms of the repository do; the instance of the run has them.
* `InputsAssumption`, `LeapsAssumption`, `MadeAssumption` (`OutputFiles`): an array has one
  to three dimensions, the leap seconds are in order and apart from each other, and
  a directory that exists has its parent.
* `ParametersAssumption`, `WidthAssumption`, `WaveformsAssumption` (`Retracker`): at least
  two bins and an oversampling of at least 2, an odd
  `coherence_smoothing_width` of at least 3 and at most half the waveform; the filter
  gives numbers; NaN is none.
* `StartupAssumption` (`Startup`): what `argparse` and the file formats give. `--baseline`,
  `--version` and `--max_files` are integers, an option has at least a key; the files
  of the two directories have names that the searches look at; the modules of a
  list are keys of a dictionary, so none comes twice; the main configuration has
  the two settings named above; the archive is finite and months are 1 to 12.
* `GridsAssumption` (`Grids`): at least two rows and columns; bounds in order; the points
  asked for together are finitely many, voids are cells, dh/dt are integers, surface
  types and basin numbers are natural numbers.
* `GeolocateAssumption`, `InputsAssumption`, `ModelsAssumption` (`Geolocate`): ranges are not
  negative, coherence is at most 1, the retracking point is in the waveform, a position
  is on the globe.

### Only model-checked

* Liveness (`Termination` of `RunChain` and `Retracker`, `Shutdown`): fairness and
  `ENABLED` are outside what the prover handles.
* That the recursive functions of the retracker compute what they are meant to, beyond
  what the lemmas above say of them.

## 5 Where code and documentation disagree

Each of these is a property that TLC refutes with the configuration named. The first
three are runs of `PROJECT.json`, with the documentation quoted there; the others state
promises of narrower scope in the same way.

| property, module | cfg | documented | what happens |
|---|---|---|---|
| `SuccessProcessedAll`, `MCRunChain` | `RunChain_SuccessProcessedAll.cfg` (run `claim_all_processed`) | `tools/tests/test_run_chain.py:81-83` | a process that ends on an exception other than `IOError`, `ValueError`, `KeyError` queues nothing: the file is missing from the counts and the run succeeds |
| `LogsMerged`, `MCMpLogging` | `MpLogging_LogsMerged.cfg` (run `claim_logs_merged`) | `clev2er/__init__.py:654-656` | the controller merges and removes the temporary log without waiting for the logger |
| `DisabledSkipped`, `MCStartup` | `Startup_DisabledSkipped.cfg` (run `claim_disabled_skipped`) | `cryotempo_D001.xml:7`, `clev2er/__init__.py:508` | of two consecutive disabled algorithms the second is run: the loop removes from the list it iterates over |
| `HighestVersion`, `MCStartup` | `Startup_HighestVersion.cfg` | `tools/run_chain.py:656,727`: "highest version"; also `load_config_settings.py:49,140,250` | the version used is that of the last file in an unordered directory listing |
| `FailedLoadCleans`, `MCRunChain` | `RunChain_FailedLoadCleans.cfg` | `tools/run_chain.py:438`: "If there is a failure we must clean up any shared memory already allocated" | the return after a failed import (`:403`) finalises no shared memory object |
| `TideAfloat`, `MCCryoTempo` | `CryoTempo_TideAfloat.cfg` | `alg_geo_corrections.py:24` | floating ice and ocean of the southern hemisphere in LRM get neither DAC nor tide (`:154-180`) |
| `CommitHashOptional`, `MCCryoTempo` | `CryoTempo_CommitHash.cfg` | `alg_product_output.py:54`: "git commit hash, or '' if failed" | without `git` on the path the call raises `FileNotFoundError`, which the handler (`:63`) does not list, and a partial product stays under the final name |
| `BreakpointAlways`, `MCOutputFiles` | `OutputFiles_BreakpointAlways.cfg` | `clev2er/__init__.py:660-680`: after any algorithm, nested levels as groups | the file fails for a size first met in a sibling group, and for values of other types such as `None` |
| `SegmentCropped`, `MCGrids` | `Grids_SegmentCropped.cfg` | `slopes.py:483`: "return a cropped segment" | the segment of a netCDF slope grid is empty, since its axis ascends and the slice expects it to descend; of the others the lowest row and the last column are never part |
| `BadSlopeRejected`, `MCGeolocate` | `Geolocate_BadSlope.cfg` | `geolocate_lrm.py:117`: "Slope cor error" | the error of `interp_slope()` is overwritten (`lrm_slope.py:541`), and the record gets a height as if the ground were flat |

Observed while modelling; the models have it as the code does, and no run is
about it:

* `run_chain.py:492`: `stop_on_error` is never read in multi-processing: the next
  chunk starts after an error. `StopsOnError` speaks of sequential processing.
* `alg_retrack.py:223`: a file without a usable waveform ends with a
  `ZeroDivisionError`, which the controller does not catch.
* `alg_surface_type.py:219`: a file whose only ice is Lake Vostok is skipped, since
  the test uses locations found before the recoding.
* `run_chain.py:1217`: a breakpoint that is set in the algorithm list is logged but
  not passed on.
* `fastsmooth.py:26`: half a width is rounded to the even integer, so the boxcar is
  one bin off for a width of 9 and centred for a width of 11.
* `dems.py:335` (and the same test in the other grid classes): a void value
  that is the only one and stands at `[0][0]` is not replaced by NaN; the exception
  in `VoidsRemoved`.
* `dems.py:146-149,338-340` (and the same in the other grid classes): the axes of a
  GeoTIFF have as many nodes as there are cells, but run between the outer edges of the
  raster, so a value is up to half a cell from where it belongs; `Nearby` is the bound.
* `geotiff_to_zarr.py:257`, `dems.py:944`: an interrupted removal leaves a store that
  loads and reads zeros, and a conversion changes the answers of grids that are open.
* `dems.py:830`: nobody looks at what `load()` returns, so an object whose file is missing
  raises at the first question.
* `cs2_tcog_retracker.py:193` and its sibling accept `le_dp_threshold = 0` (the other one
  any value), with which the loop that sets `le_index` is not entered: the next use is
  an `UnboundLocalError`. Every configuration sets 0.2 or 0.4.
* `waveform_qc_checks.py:44-55`: a file of zeros ends the whole process with `sys.exit()`,
  which no `except Exception` catches.
* `geolocate_sin.py:434`: the height of the unwrapped phase is not tested against
  `height_min` and `height_max`.
* `geolocate_roemer.py:547`: the sliding window and the dual search together raise;
  no configuration sets both.
* `masks.py:866`: `Mask.clean_up()` raises where `Dem.clean_up()` logs; the tracker of
  a run that ends removes the segments of a run that is still active.
* `alg_product_output.py:229`: the last half second of a day is `T240000` in the name,
  which is no time; `TimesExact` says that it is written then and only then.
* `alg_product_output.py:275`: two L1b files of one pass (two versions of it) have one
  product name, and the later one replaces the earlier one's product without a message;
  `ProductsKept` says that nothing else costs a product that was written.
* `alg_product_output.py:275-598`: any failure between `Dataset(..., "w")` and `close()`
  leaves a partial product under the final name.
* `grain.py:60`: in the seconds between the date of a leap in UTC and in TAI the new
  offset is applied too early.
* `run_chain.py:269`: a `finalize(stage=5)` that raises puts a second result into the
  queue of its file, which is then counted twice; one that raises at stage 6 turns a
  processed file into an error. `TallyExact` and `MpAccounted` count both.
* `run_chain.py:560`: Ctrl-C between two counters leaves a file that is processed and
  neither skipped nor an error, so a file that failed is missing from the verdict.
* `run_chain.py:303`: the name of a breakpoint file is never returned in
  multi-processing; the file is named `_bkp_<algorithm>.nc` where the documentation has
  `_bkp.nc`, and its directory is the setting `breakpoint_files:default_dir` where the
  documentation has `breakpoints:default_dir`.
* `run_chain.py:431`, `base_alg.py:45-56`: the processes of the chain do not get
  `_init_shared_mem`, so with `use_shared_memory` the segments are created but each
  process works on private copies, against `clev2er/__init__.py:32`.
* `cryotempo_B001.yml` and `cryotempo_C001.yml` have neither `reference_dem` nor
  `product_output`, so with these baselines `init()` of `alg_ref_dem` raises a `KeyError`.
* `alg_geolocate_sin.py:159`: `latitudes` is another name for `lat_poca_20_ku`, so
  replacing failed records by the nadir also changes what was stored as the POCA.
* `init()` returning False is ignored in sequential processing and honoured in
  multi-processing.
* Only `alg_geolocate_roemer` knows `ais_only`; a northern file is then processed
  without its DEM (the exception in `ReadsWhatExists`).
* `sin_only: false` in a configuration counts as set; `log_files` is used before it
  is tested for; a negative `--nprocs` is accepted.
* The sort of the temporary log gives lines without a file number, such as the
  continuation of a multi-line message, the number 0.
* A record without slope or roughness (NaN) gets the uncertainty of the last bin.

## 6 What is not modelled

* Geometry and filters in floating point: projections, distances, the Doppler
  correction, the coefficients of the Savitzky-Golay filter, backscatter, tides,
  uncertainty tables. Their outcome is a free choice or a parameter.
* Orbit directions, the two functions that fit a phase and that no configuration selects,
  `prepare_slope()`, masks given as limits in x and y, Gaussian smoothing and hill
  shading of DEMs: used by plots or not at all, or a function without state.
* The layout of NetCDF files, formatting of log lines, XML and YML syntax.
* Drawing of maps, and the scripts that prepare auxiliary files: no state of the
  chain depends on them.

## 7 Plan

The order was that of importance: first what decides whether a run's report can
be trusted, then the resources that several processes share, then the decisions
inside one waveform and one record. All modules of the plan are there:
`RunChain` and `ChainLedger`; `CryoTempo`; `MpLogging`; `Startup`;
`SharedResources`; `OutputFiles`; `Retracker`; `Grids`; `Geolocate`; an `MC` module
for each specification; and the proofs of all of them, those of `Startup` together
with those of `RunChain`. What is left of the code is numerical or draws maps
(section 6), and every safety property that a run checks is proved.

What could come next is the preparation of uncertainty tables and the areas of the
plots, which keep no state of the chain, and a composition of `RunChain` with
`SharedResources` in place of the argument of section 2.
