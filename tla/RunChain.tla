------------------------------ MODULE RunChain ------------------------------
(***************************************************************************)
(* The chain controller of src/src/clev2er/tools/run_chain.py: run_chain() *)
(* and the function run_chain_on_single_file() that it either calls (in    *)
(* sequential processing) or runs in one spawned process per L1b file (in  *)
(* multi-processing).                                                      *)
(*                                                                         *)
(* The controller's own state is pc, nload, chunk, cur and its three       *)
(* counters.  Each L1b file f has the state of the call that processes it: *)
(* child[f] and alg[f] (its control point), held[f] (the algorithm objects *)
(* that the spawned process has initialised and not finalised) and rvq[f]  *)
(* (its rval_queue: empty, or what a call has put in it).  fate and cut     *)
(* are history variables: what really happened to each file, whether or    *)
(* not the controller ever hears of it, and whether Ctrl-C came between    *)
(* the counters of one file.                                               *)
(***************************************************************************)
EXTENDS Integers, FiniteSets

CONSTANTS
  NFiles,       \* len(l1b_file_list)
  NAlgs,        \* len(algorithm_list)
  MaxProcs      \* config["chain"]["max_processes_for_multiprocessing"]

\* main() refuses an empty file list; the other two come from the
\* configuration files, where 0 would already be a division by zero.
ASSUME SizesAssumption ==
  /\ NFiles   \in Nat \ {0}
  /\ NAlgs    \in Nat \ {0}
  /\ MaxProcs \in Nat \ {0}

Files == 0 .. (NFiles - 1)
Algs  == 1 .. NAlgs

VARIABLES
  cfg,          \* config["chain"] and breakpoint_alg_name, fixed during a run
  pc,           \* control point of run_chain()
  nload,        \* number of algorithms imported so far
  live,         \* alg_object_list members initialised in the controller
  shmLive,      \* shared_mem_alg_object_list members not yet finalised
  chunk,        \* chunk_num
  cur,          \* index of the file being started, joined or processed
  child, alg, held, rvq,
  num_errors, num_files_processed, num_skipped,
  bpFiles,      \* files for which a breakpoint file was written
  bpName,       \* breakpoint_filename: NoFile, or the file it was written for
  ret,          \* the tuple returned by run_chain()
  fate,
  cut           \* one file was counted as processed, its result was not

callVars  == <<child, alg, held, rvq, bpFiles, fate>>
tallyVars == <<num_errors, num_files_processed, num_skipped, bpName, cut>>
loadVars  == <<nload, live, shmLive>>
vars == <<cfg, pc, chunk, cur, ret, callVars, tallyVars, loadVars>>

-----------------------------------------------------------------------------
(* Values *)

NoAlg  == 0     \* breakpoint_alg_name = ""
NoFile == -1    \* breakpoint_filename = ""

Configs == [mp : BOOLEAN, shm : BOOLEAN, stop : BOOLEAN, bp : 0 .. NAlgs]

\* The algorithms that are imported: the import loop breaks after the
\* breakpoint algorithm.
Loaded(c) == IF c.bp = NoAlg THEN NAlgs ELSE c.bp

\* What (success, error_str) amounts to: "SKIP_OK" in error_str or not.
Results == {"ok", "skip", "error"}

\* finalize(stage=5) raises after a skip or an error was queued: the except
\* clause queues an error as well.
Twice  == {"skip_error", "error_error"}
Queued == Results \cup Twice
Fates  == Queued \cup {"none", "lost"}

AndError(first) == IF first = "skip" THEN "skip_error" ELSE "error_error"

NotReturned == [ok |-> FALSE, errors |-> -1, processed |-> -1,
                skipped |-> -1, bp |-> NoFile]

-----------------------------------------------------------------------------
(* numpy.array_split(range(n_files), ceil(n_files / max_processes)):       *)
(* consecutive chunks, the first n % k of which have one element more.     *)

\* Mutant: rounds down instead of up.
NumChunksFloor == IF NFiles < MaxProcs THEN 1 ELSE NFiles \div MaxProcs

NumChunks == (NFiles + MaxProcs - 1) \div MaxProcs

\* Mutant: equal chunks, the remainder is left over.
ChunkStartEqual(c) == c * (NFiles \div NumChunks)

ChunkStart(c) ==
  LET q == NFiles \div NumChunks
      r == NFiles % NumChunks
  IN  c * q + (IF c < r THEN c ELSE r)

\* The files of chunk number c, in the order of their processes.
ChunkFiles(c) == ChunkStart(c) .. (ChunkStart(c + 1) - 1)

-----------------------------------------------------------------------------
Init ==
  /\ cfg \in Configs
  /\ pc = "load" /\ nload = 0 /\ live = {} /\ shmLive = {}
  /\ chunk = 0 /\ cur = 0
  /\ child = [f \in Files |-> "idle"]
  /\ alg   = [f \in Files |-> 1]
  /\ held  = [f \in Files |-> {}]
  /\ rvq   = [f \in Files |-> "empty"]
  /\ num_errors = 0 /\ num_files_processed = 0 /\ num_skipped = 0
  /\ bpFiles = {} /\ bpName = NoFile
  /\ ret = NotReturned
  /\ fate = [f \in Files |-> "none"] /\ cut = FALSE

-----------------------------------------------------------------------------
(* Importing and initialising the algorithms *)

\* "return (False, 1, 0, 0, breakpoint_filename)"
LoadFailed ==
  /\ pc' = "returned"
  /\ ret' = [ok |-> FALSE, errors |-> 1, processed |-> 0, skipped |-> 0,
             bp |-> bpName]

\* importlib.import_module() raises ImportError, or Algorithm(config, log)
\* raises one of the four listed exceptions.  The second can only happen in
\* sequential processing: in multi-processing BaseAlgorithm.__init__()
\* returns before it calls init().
ImportFails ==
  /\ pc = "load" /\ nload < Loaded(cfg)
  /\ LoadFailed
  /\ UNCHANGED <<cfg, chunk, cur, callVars, tallyVars, loadVars>>

\* The algorithm is imported and its instance created; with shared memory a
\* second instance is created, whose init() is run at once.
ImportAlgorithm ==
  /\ pc = "load" /\ nload < Loaded(cfg)
  /\ nload' = nload + 1
  /\ live'    = IF cfg.mp THEN live ELSE live \cup {nload + 1}
  /\ shmLive' = IF cfg.mp /\ cfg.shm THEN shmLive \cup {nload + 1} ELSE shmLive
  /\ UNCHANGED <<cfg, pc, chunk, cur, ret, callVars, tallyVars>>

\* The shared memory instance raises one of the four listed exceptions:
\* finalize(stage=4) is run on the instances created before it.  Where one of
\* these raises, the exception leaves run_chain().
SharedMemInitFails ==
  /\ pc = "load" /\ nload < Loaded(cfg)
  /\ cfg.mp /\ cfg.shm
  /\ \/ shmLive' = {} /\ LoadFailed
     \/ /\ \E a \in shmLive : shmLive' = {b \in shmLive : b >= a}
        /\ pc' = "dead" /\ UNCHANGED ret
  /\ UNCHANGED <<cfg, chunk, cur, nload, live, callVars, tallyVars>>

\* Any other exception while the algorithms are imported ends the program.
LoadCrashes ==
  /\ pc = "load" /\ nload < Loaded(cfg)
  /\ pc' = "dead"
  /\ UNCHANGED <<cfg, chunk, cur, ret, callVars, tallyVars, loadVars>>

LoadDone ==
  /\ pc = "load" /\ nload = Loaded(cfg)
  /\ pc' = IF cfg.mp THEN "start" ELSE "seq"
  /\ UNCHANGED <<cfg, chunk, cur, ret, callVars, tallyVars, loadVars>>

-----------------------------------------------------------------------------
(* run_chain_on_single_file() for file f *)

\* The call ends and its result becomes known to the caller: through
\* rval_queue in a spawned process, whose algorithm objects end with it, as
\* the return value in a sequential call.
Return(f, result) ==
  /\ child' = [child EXCEPT ![f] = "exited"]
  /\ held'  = [held EXCEPT ![f] = {}]
  /\ rvq'   = [rvq EXCEPT ![f] = result]
  /\ fate'  = [fate EXCEPT ![f] = result]

\* with Dataset(l1b_file) as nc: the file opens, or OSError is caught by
\* the except clause.
OpenFile(f) ==
  /\ child[f] = "open"
  /\ \/ /\ child' = [child EXCEPT ![f] = "algs"]
        /\ UNCHANGED <<rvq, fate, held>>
     \/ Return(f, "error")
  /\ UNCHANGED <<alg, bpFiles>>

\* In multi-processing process_setup() runs init() in this process.
Initialise(f) ==
  held' = IF cfg.mp THEN [held EXCEPT ![f] = @ \cup {alg[f]}] ELSE held

\* Mutant: does not break at the breakpoint algorithm.
AlgorithmOkNoBreak(f) ==
  /\ child[f] = "algs"
  /\ Initialise(f)
  /\ IF alg[f] = Loaded(cfg)
       THEN child' = [child EXCEPT ![f] = "finish"] /\ UNCHANGED alg
       ELSE alg' = [alg EXCEPT ![f] = @ + 1] /\ UNCHANGED child
  /\ UNCHANGED <<rvq, bpFiles, fate>>

\* process() returns (True, ""): the loop goes on to the next algorithm,
\* unless this is the breakpoint algorithm or the last one.
AlgorithmOk(f) ==
  /\ child[f] = "algs"
  /\ Initialise(f)
  /\ IF alg[f] = cfg.bp
       THEN /\ child' = [child EXCEPT ![f] = "break"]
            /\ UNCHANGED alg
       ELSE IF alg[f] = Loaded(cfg)
              THEN /\ child' = [child EXCEPT ![f] = "finish"]
                   /\ UNCHANGED alg
              ELSE /\ alg' = [alg EXCEPT ![f] = @ + 1]
                   /\ UNCHANGED child
  /\ UNCHANGED <<rvq, bpFiles, fate>>

\* init() or process() returns (False, error_str).  A sequential call returns
\* it; a spawned process queues it and goes on to finalize its algorithms.
AlgorithmStops(f) ==
  /\ child[f] = "algs"
  /\ \E result \in {"skip", "error"} :
       \/ ~cfg.mp /\ Return(f, result)
       \/ /\ cfg.mp
          /\ child' = [child EXCEPT ![f] = "stopping"]
          /\ rvq'   = [rvq EXCEPT ![f] = result]
          /\ Initialise(f) \/ UNCHANGED held
          /\ UNCHANGED fate
  /\ UNCHANGED <<alg, bpFiles>>

\* finalize(stage=5) on the initialised algorithms, still inside the try
\* block: IOError, ValueError or KeyError in one of them puts a second
\* result into the queue.
FinalizeStopped(f) ==
  /\ child[f] = "stopping"
  /\ \/ Return(f, rvq[f])
     \/ held[f] # {} /\ Return(f, AndError(rvq[f]))
  /\ UNCHANGED <<alg, bpFiles>>

\* init() or process() raises IOError, ValueError or KeyError.  The except
\* clause queues a failure; it finalises nothing.
AlgorithmRaises(f) ==
  /\ child[f] = "algs"
  /\ Return(f, "error")
  /\ UNCHANGED <<alg, bpFiles>>

\* write_breakpoint_file() succeeds, or raises ValueError for a value in
\* shared_dict that has no NetCDF form.
WriteBreakpoint(f) ==
  /\ child[f] = "break"
  /\ \/ /\ child'   = [child EXCEPT ![f] = "finish"]
        /\ bpFiles' = bpFiles \cup {f}
        /\ UNCHANGED <<rvq, fate, held>>
     \/ /\ Return(f, "error")
        /\ UNCHANGED bpFiles
  /\ UNCHANGED alg

\* All algorithms ran: finalize(stage=6) in a spawned process, then the
\* success is queued (or returned).  It is an error when a finalize() raises.
FinishFile(f) ==
  /\ child[f] = "finish"
  /\ \/ Return(f, "ok")
     \/ held[f] # {} /\ Return(f, "error")
  /\ UNCHANGED <<alg, bpFiles>>

CallStep(f) ==
  \/ OpenFile(f)     \/ AlgorithmOk(f)     \/ AlgorithmStops(f)
  \/ AlgorithmRaises(f) \/ WriteBreakpoint(f) \/ FinishFile(f)
  \/ FinalizeStopped(f)

\* One step of the process (or of the sequential call) that handles file f.
FileStep(f) ==
  /\ CallStep(f)
  /\ UNCHANGED <<cfg, pc, chunk, cur, ret, tallyVars, loadVars>>

\* An exception that the except clause does not list (AttributeError,
\* TypeError, RuntimeError...) or the death of the process.  A spawned
\* process ends without queueing anything, or after it has queued the result
\* that finalize(stage=5) follows; when it is killed, that result may still
\* be in its memory.  A sequential call takes the whole controller with it,
\* since run_chain() only catches KeyboardInterrupt.
FileCrashes(f) ==
  /\ child[f] \in {"open", "algs", "break", "finish", "stopping"}
  /\ child' = [child EXCEPT ![f] = "exited"]
  /\ held'  = [held EXCEPT ![f] = {}]
  /\ \/ /\ fate' = [fate EXCEPT ![f] = "lost"]
        /\ rvq'  = [rvq EXCEPT ![f] = "empty"]
     \/ /\ child[f] = "stopping"
        /\ fate' = [fate EXCEPT ![f] = rvq[f]]
        /\ UNCHANGED rvq
  /\ pc' = IF cfg.mp THEN pc ELSE "dead"
  /\ UNCHANGED <<cfg, chunk, cur, ret, alg, bpFiles, tallyVars, loadVars>>

-----------------------------------------------------------------------------
(* Multi-processing: chunks of processes *)

\* process.start() for the next process of the chunk.
StartProcess ==
  /\ pc = "start" /\ cur \in ChunkFiles(chunk)
  /\ child' = [child EXCEPT ![cur] = "open"]
  /\ cur' = cur + 1
  /\ UNCHANGED <<cfg, pc, chunk, ret, alg, held, rvq, bpFiles, fate, tallyVars,
                 loadVars>>

AllStarted ==
  /\ pc = "start" /\ cur \notin ChunkFiles(chunk)
  /\ pc' = "join" /\ cur' = ChunkStart(chunk)
  /\ UNCHANGED <<cfg, chunk, ret, callVars, tallyVars, loadVars>>

One(test) == IF test THEN 1 ELSE 0

\* Mutant: a skipped file is an error too.
CountSkipsAsErrors(result) ==
  /\ num_files_processed' = num_files_processed + One(result \in Queued)
                                                + One(result \in Twice)
  /\ num_errors'  = num_errors + One(result \in {"skip", "error"} \cup Twice)
                               + One(result = "error_error")
  /\ num_skipped' = num_skipped + One(result \in {"skip", "skip_error"})

\* The results of one queue in the counters; an empty queue adds nothing.
Count(result) ==
  /\ num_files_processed' = num_files_processed + One(result \in Queued)
                                                + One(result \in Twice)
  /\ num_errors'  = num_errors + One(result \in {"error"} \cup Twice)
                               + One(result = "error_error")
  /\ num_skipped' = num_skipped + One(result \in {"skip", "skip_error"})

\* Mutant: join() with a timeout, its result ignored.
JoinProcessTimeout ==
  /\ pc = "join" /\ cur \in ChunkFiles(chunk)
  /\ Count(rvq[cur])
  /\ rvq' = [rvq EXCEPT ![cur] = "empty"]
  /\ cur' = cur + 1
  /\ UNCHANGED <<cfg, pc, chunk, ret, child, alg, held, bpFiles, bpName, cut,
                 fate, loadVars>>

\* Mutant: rval_queue.get() without asking whether the queue is empty.
JoinProcessBlockingGet ==
  /\ pc = "join" /\ cur \in ChunkFiles(chunk)
  /\ child[cur] = "exited" /\ rvq[cur] # "empty"
  /\ Count(rvq[cur])
  /\ rvq' = [rvq EXCEPT ![cur] = "empty"]
  /\ cur' = cur + 1
  /\ UNCHANGED <<cfg, pc, chunk, ret, child, alg, held, bpFiles, bpName, cut,
                 fate, loadVars>>

\* process.join() on the next process of the chunk, then its rval_queue is
\* emptied into the counters.
JoinProcess ==
  /\ pc = "join" /\ cur \in ChunkFiles(chunk)
  /\ child[cur] = "exited"
  /\ Count(rvq[cur])
  /\ rvq' = [rvq EXCEPT ![cur] = "empty"]
  /\ cur' = cur + 1
  /\ UNCHANGED <<cfg, pc, chunk, ret, child, alg, held, bpFiles, bpName, cut,
                 fate, loadVars>>

\* The for loop over the chunks goes on, or ends with log_queue.put(None).
ChunkDone ==
  /\ pc = "join" /\ cur \notin ChunkFiles(chunk)
  /\ chunk' = chunk + 1
  /\ pc' = IF chunk + 1 < NumChunks THEN "start" ELSE "finalize"
  /\ UNCHANGED <<cfg, cur, ret, callVars, tallyVars, loadVars>>

\* An exception in the loop over the chunks (process.start() has no memory
\* left for another process, or Ctrl-C while joining) ends the program: no
\* except clause surrounds the loop.  The processes already started go on.
ControllerCrashes ==
  /\ pc \in {"start", "join"}
  /\ pc' = "dead"
  /\ UNCHANGED <<cfg, chunk, cur, ret, callVars, tallyVars, loadVars>>

-----------------------------------------------------------------------------
(* Sequential processing *)

CallNextFile ==
  /\ pc = "seq" /\ cur < NFiles
  /\ pc' = "call"
  /\ child' = [child EXCEPT ![cur] = "open"]
  /\ UNCHANGED <<cfg, chunk, cur, ret, alg, held, rvq, bpFiles, fate,
                 tallyVars, loadVars>>

AllCalled ==
  /\ pc = "seq" /\ cur = NFiles
  /\ pc' = "finalize"
  /\ UNCHANGED <<cfg, chunk, cur, ret, callVars, tallyVars, loadVars>>

\* Mutant: stop_on_error is not looked at.
TallyCallNeverStops ==
  /\ pc = "call" /\ child[cur] = "exited"
  /\ Count(rvq[cur])
  /\ pc' = "seq"
  /\ bpName' = IF cur \in bpFiles THEN cur ELSE NoFile
  /\ rvq' = [rvq EXCEPT ![cur] = "empty"]
  /\ cur' = cur + 1
  /\ UNCHANGED <<cfg, chunk, ret, child, alg, held, bpFiles, fate, cut, loadVars>>

\* Mutant: a file that ended in an error is tried again.
TallyCallRetries ==
  /\ pc = "call" /\ child[cur] = "exited"
  /\ IF rvq[cur] = "error" THEN UNCHANGED <<num_files_processed, num_errors,
                                            num_skipped, cur>>
     ELSE Count(rvq[cur]) /\ cur' = cur + 1
  /\ pc' = "seq"
  /\ bpName' = IF cur \in bpFiles THEN cur ELSE NoFile
  /\ rvq' = [rvq EXCEPT ![cur] = "empty"]
  /\ UNCHANGED <<cfg, chunk, ret, child, alg, held, bpFiles, fate, cut, loadVars>>

\* The call returned: count it and continue, or break on an error when
\* stop_on_error is set.
TallyCall ==
  /\ pc = "call" /\ child[cur] = "exited"
  /\ Count(rvq[cur])
  /\ pc' = IF rvq[cur] = "error" /\ cfg.stop THEN "finalize" ELSE "seq"
  /\ bpName' = IF cur \in bpFiles THEN cur ELSE NoFile
  /\ rvq' = [rvq EXCEPT ![cur] = "empty"]
  /\ cur' = cur + 1
  /\ UNCHANGED <<cfg, chunk, ret, child, alg, held, bpFiles, fate, cut, loadVars>>

\* KeyboardInterrupt anywhere in the loop leaves it.  The file in progress is
\* not counted, or its call has returned and it is counted as processed, but
\* not yet as skipped or as an error.
Interrupt ==
  /\ pc \in {"seq", "call"}
  /\ pc' = "finalize"
  /\ child' = [f \in Files |-> IF child[f] = "idle" THEN "idle" ELSE "exited"]
  /\ \/ UNCHANGED <<bpName, num_files_processed, cut>>
     \/ /\ pc = "call" /\ child[cur] = "exited"
        /\ bpName' = IF cur \in bpFiles THEN cur ELSE NoFile
        /\ cut' \in BOOLEAN
        /\ num_files_processed' = num_files_processed + One(cut')
  /\ UNCHANGED <<cfg, chunk, cur, ret, alg, held, rvq, bpFiles, fate,
                 num_errors, num_skipped, loadVars>>

-----------------------------------------------------------------------------
(* The end of run_chain() *)

\* Mutant: the errors do not reach the verdict.
FinalizeAndReturnTrue ==
  /\ pc = "finalize"
  /\ shmLive' = {} /\ live' = {}
  /\ pc' = "returned"
  /\ ret' = [ok |-> TRUE, errors |-> num_errors,
             processed |-> num_files_processed, skipped |-> num_skipped,
             bp |-> bpName]
  /\ UNCHANGED <<cfg, chunk, cur, nload, callVars, tallyVars>>

\* finalize(stage=2) on the shared memory instances, finalize(stage=3) on
\* the algorithm objects initialised in this process, and the return value.
FinalizeAndReturn ==
  /\ pc = "finalize"
  /\ shmLive' = {} /\ live' = {}
  /\ pc' = "returned"
  /\ ret' = [ok |-> ~(num_errors > 0), errors |-> num_errors,
             processed |-> num_files_processed, skipped |-> num_skipped,
             bp |-> bpName]
  /\ UNCHANGED <<cfg, chunk, cur, nload, callVars, tallyVars>>

\* Mask.clean_up() turns a failure to close or unlink its shared memory into
\* an IOError, which nothing in run_chain() catches: the instances from that
\* one on stay unfinalised.
FinalizeCrashes ==
  /\ pc = "finalize" /\ shmLive # {}
  /\ \E a \in shmLive : shmLive' = {b \in shmLive : b >= a}
  /\ pc' = "dead"
  /\ UNCHANGED <<cfg, chunk, cur, ret, nload, live, callVars, tallyVars>>

Terminating == pc \in {"returned", "dead"} /\ UNCHANGED vars

Controller ==
  \/ ImportFails \/ ImportAlgorithm \/ SharedMemInitFails \/ LoadCrashes
  \/ LoadDone
  \/ StartProcess \/ AllStarted \/ JoinProcess \/ ChunkDone
  \/ CallNextFile \/ AllCalled \/ TallyCall
  \/ FinalizeAndReturn \/ FinalizeCrashes

Next ==
  \/ Controller
  \/ Interrupt \/ ControllerCrashes
  \/ \E f \in Files : FileStep(f) \/ FileCrashes(f)
  \/ Terminating

\* The operating system schedules every process, algorithms return, and a
\* started process is eventually joined.  Nobody has to press Ctrl-C, and no
\* process has to crash.
Fairness ==
  /\ WF_vars(Controller)
  /\ \A f \in Files : WF_vars(FileStep(f))

Spec == Init /\ [][Next]_vars /\ Fairness

-----------------------------------------------------------------------------
(* Properties *)

Active == {"open", "algs", "break", "finish", "stopping"}
PCs == {"load", "start", "join", "seq", "call", "finalize", "returned", "dead"}

TypeOK ==
  /\ cfg \in Configs
  /\ pc \in PCs
  /\ nload \in 0 .. Loaded(cfg)
  /\ live \subseteq Algs /\ shmLive \subseteq Algs
  /\ chunk \in 0 .. NumChunks
  /\ cur \in 0 .. NFiles
  /\ child \in [Files -> Active \cup {"idle", "exited"}]
  /\ alg \in [Files -> Algs]
  /\ held \in [Files -> SUBSET Algs]
  /\ rvq \in [Files -> Queued \cup {"empty"}]
  /\ fate \in [Files -> Fates] /\ cut \in BOOLEAN
  /\ num_errors \in Nat /\ num_files_processed \in Nat /\ num_skipped \in Nat
  /\ bpFiles \subseteq Files /\ bpName \in Files \cup {NoFile}
  /\ ret \in [ok : BOOLEAN, errors : Nat \cup {-1}, processed : Nat \cup {-1},
              skipped : Nat \cup {-1}, bp : Files \cup {NoFile}]

Running == {f \in Files : child[f] \in Active}

\* array_split() over ceil(n_files / max_processes) chunks never puts more
\* than max_processes_for_multiprocessing files in a chunk, and a chunk is
\* started only when every process of the chunk before it has ended.
ProcessBound ==
  /\ Cardinality(Running) <= MaxProcs
  /\ ~cfg.mp => Cardinality(Running) <= 1

\* Nothing is still running when run_chain() finalises and returns.
NoOrphans == pc \in {"finalize", "returned"} => Running = {}

\* The controller keeps its processes in hand: it starts no more than it may,
\* joins every one, and its indices stay within the file list and the chunks.
ProcessesInHand == TypeOK /\ ProcessBound /\ NoOrphans

\* The files whose result the controller has looked at.
Tallied == IF pc = "start" THEN 0 .. (ChunkStart(chunk) - 1) ELSE 0 .. (cur - 1)

WithFate(S) == {f \in Tallied : fate[f] \in S}

\* The three counters agree at every moment with what really happened to the
\* files looked at so far.  A file is counted once, except that one whose
\* finalize(stage=5) raised after its result was queued is counted twice, and
\* the file that Ctrl-C hit may be counted as processed and nothing else.
TallyExact ==
  pc # "dead" =>
    /\ num_errors  = Cardinality(WithFate({"error"} \cup Twice))
                      + Cardinality(WithFate({"error_error"}))
    /\ num_skipped = Cardinality(WithFate({"skip", "skip_error"}))
    /\ num_files_processed = Cardinality(WithFate(Queued))
                              + Cardinality(WithFate(Twice)) + One(cut)

CompletedLoad == pc = "returned" /\ nload = Loaded(cfg)

\* In multi-processing, when run_chain() returns every file has had its
\* process.  The files missing from num_files_processed are exactly those
\* whose process died without queueing a result, and those counted twice are
\* exactly those whose finalize(stage=5) raised.
MpAccounted ==
  CompletedLoad /\ cfg.mp =>
    /\ \A f \in Files : child[f] = "exited" /\ fate[f] # "none"
    /\ ret.processed = NFiles - Cardinality({f \in Files : fate[f] = "lost"})
                              + Cardinality({f \in Files : fate[f] \in Twice})

\* run_chain() returns success exactly when no file ended in an error, except
\* for the file that was in progress when Ctrl-C was pressed.
Verdict ==
  CompletedLoad =>
    (ret.ok <=> \A f \in 0 .. (cur - 1) : fate[f] \notin {"error"} \cup Twice)

\* In sequential processing with stop_on_error no file is opened after one
\* that ended in an error, and at most one error is ever reported.
StopsOnError ==
  ~cfg.mp /\ cfg.stop =>
    \A f \in Files : fate[f] = "error" => \A g \in Files : g > f => child[g] = "idle"

\* A file is a success only if every algorithm up to the breakpoint ran on it
\* and the breakpoint file, if one was asked for, was written.
SuccessIsComplete ==
  \A f \in Files :
    fate[f] = "ok" => /\ alg[f] = Loaded(cfg)
                      /\ f \in bpFiles <=> cfg.bp # NoAlg

\* A file is processed once: no step restarts its call or changes its outcome.
ProcessedOnce ==
  [][\A f \in Files :
       /\ child[f] # "idle"   => child'[f] # "idle"
       /\ child[f] = "exited" => child'[f] = "exited" /\ fate'[f] = fate[f]]_vars

\* run_chain() returns, or an exception ends the program: neither the joins
\* nor the queue reads wait for something that does not come.
Termination == <>(pc \in {"returned", "dead"})

Ledger == INSTANCE ChainLedger WITH
  Files   <- Files,
  outcome <- fate,
  report  <- [ok |-> ret.ok, errors |-> ret.errors,
              processed |-> ret.processed, skipped |-> ret.skipped]

\* Whatever the interleaving of processes, crashes and Ctrl-C, run_chain()
\* keeps the ledger of ChainLedger: files are settled once, the report agrees
\* with what happened to them, and nothing happens after it.
KeepsLedger == Ledger!Spec
=============================================================================
