--------------------------- MODULE RunChainProofs ---------------------------
(***************************************************************************)
(* Proofs about the two functions of run_chain.py.                         *)
(*                                                                         *)
(* run_chain(), module RunChain, for every number of files, algorithms and *)
(* processes: the processes, the files they are given, the counters and    *)
(* the verdict, which agree with what really happened to the files, what   *)
(* becomes of each file and of what was initialised for it, and the        *)
(* refinement of ChainLedger.                                              *)
(*                                                                         *)
(* main(), module Startup, for every command line and every installation:  *)
(* the two files it settles on, the algorithms that are left in the list,  *)
(* the L1b files that it selects, and the settings that it hands over.     *)
(***************************************************************************)
EXTENDS RunChain, Startup, FiniteSetTheorems, SequenceTheorems, WellFoundedInduction, TLAPS

-----------------------------------------------------------------------------
(* Arithmetic of numpy.array_split *)

\* Division with remainder.
LEMMA DivMod ==
  ASSUME NEW n \in Nat, NEW k \in Nat \ {0}
  PROVE  /\ n \div k \in Nat /\ n % k \in Nat
         /\ n = k * (n \div k) + (n % k)
         /\ n % k < k
  OBVIOUS

\* ceil(n_files / max_processes) is positive, and that many chunks of
\* max_processes files have room for all the files.
LEMMA NumChunksFacts ==
  /\ NumChunks \in Nat \ {0}
  /\ NFiles <= NumChunks * MaxProcs
<1> DEFINE n == NFiles + MaxProcs - 1
<1>1. NFiles \in Nat \ {0} /\ MaxProcs \in Nat \ {0}
  BY SizesAssumption
<1>2. n \in Nat /\ n >= MaxProcs
  BY <1>1
<1>3. NumChunks = n \div MaxProcs
  BY DEF NumChunks
<1> HIDE DEF n
<1>4. /\ n \div MaxProcs \in Nat /\ n % MaxProcs \in Nat
      /\ n = MaxProcs * (n \div MaxProcs) + (n % MaxProcs)
      /\ n % MaxProcs < MaxProcs
  BY <1>1, <1>2, DivMod
<1>5. NumChunks # 0
  BY <1>1, <1>2, <1>3, <1>4
<1>6. NFiles = n - MaxProcs + 1
  BY <1>1 DEF n
<1>7. NFiles <= MaxProcs * NumChunks
  BY <1>1, <1>2, <1>3, <1>4, <1>6
<1>8. MaxProcs * NumChunks = NumChunks * MaxProcs
  BY <1>1, <1>3, <1>4
<1> QED
  BY <1>3, <1>4, <1>5, <1>7, <1>8

\* Consecutive chunks: they start at 0, end at n_files, do not overlap, and
\* none is longer than max_processes_for_multiprocessing.
LEMMA ChunkBounds ==
  /\ ChunkStart(0) = 0 /\ ChunkStart(NumChunks) = NFiles
  /\ \A c \in 0 .. (NumChunks - 1) :
       /\ ChunkStart(c) \in Nat /\ ChunkStart(c + 1) \in Nat
       /\ ChunkStart(c) <= ChunkStart(c + 1)
       /\ ChunkStart(c + 1) <= NFiles
       /\ ChunkStart(c + 1) - ChunkStart(c) <= MaxProcs
<1> DEFINE k == NumChunks
           q == NFiles \div k
           r == NFiles % k
<1>1. NFiles \in Nat \ {0} /\ MaxProcs \in Nat \ {0}
  BY SizesAssumption
<1>2. k \in Nat \ {0} /\ NFiles <= k * MaxProcs
  BY NumChunksFacts
<1>3. /\ q \in Nat /\ r \in Nat /\ NFiles = k * q + r /\ r < k
  BY <1>1, <1>2, DivMod
<1>4. \A c : ChunkStart(c) = c * q + (IF c < r THEN c ELSE r)
  BY DEF ChunkStart
<1> HIDE DEF k, q, r
<1>5. q <= MaxProcs /\ (r > 0 => q + 1 <= MaxProcs)
  <2>1. q <= MaxProcs
    <3> SUFFICES ASSUME q >= MaxProcs + 1 PROVE FALSE
      BY <1>1, <1>3
    <3>1. k * q >= k * (MaxProcs + 1)
      BY <1>1, <1>2, <1>3
    <3>2. k * (MaxProcs + 1) = k * MaxProcs + k
      BY <1>1, <1>2
    <3> QED
      BY <3>1, <3>2, <1>1, <1>2, <1>3
  <2>2. ASSUME r > 0, q = MaxProcs PROVE FALSE
    BY <2>2, <1>1, <1>2, <1>3
  <2> QED
    BY <2>1, <2>2, <1>1, <1>3
<1>6. ChunkStart(0) = 0
  BY <1>3, <1>4
<1>7. ChunkStart(k) = NFiles
  BY <1>2, <1>3, <1>4
<1>8. ASSUME NEW c \in 0 .. (k - 1)
      PROVE  /\ ChunkStart(c) \in Nat /\ ChunkStart(c + 1) \in Nat
             /\ ChunkStart(c) <= ChunkStart(c + 1)
             /\ ChunkStart(c + 1) <= NFiles
             /\ ChunkStart(c + 1) - ChunkStart(c) <= MaxProcs
  <2>1. c \in Nat /\ c + 1 <= k /\ c * q \in Nat
    BY <1>2, <1>3
  <2>2. (c + 1) * q = c * q + q /\ (c + 1) * q <= k * q
    BY <2>1, <1>2, <1>3
  <2>3. ChunkStart(c) = c * q + (IF c < r THEN c ELSE r)
    BY <1>4
  <2>4. ChunkStart(c + 1) = (c + 1) * q + (IF c + 1 < r THEN c + 1 ELSE r)
    BY <1>4
  <2>5. k * q \in Nat
    BY <1>2, <1>3
  <2> QED
    BY <2>1, <2>2, <2>3, <2>4, <2>5, <1>1, <1>3, <1>5
<1> QED
  BY <1>6, <1>7, <1>8 DEF k

-----------------------------------------------------------------------------
(* The inductive invariant *)

\* Where the controller can be, and which files it can be at.
Control ==
  /\ pc \in {"start", "join"} =>
       /\ cfg.mp /\ chunk < NumChunks
       /\ cur \in ChunkStart(chunk) .. ChunkStart(chunk + 1)
  /\ pc \in {"seq", "call"} => ~cfg.mp
  /\ pc = "call" => cur < NFiles
  /\ pc = "load" => chunk = 0 /\ cur = 0

\* No call has gone past the last algorithm imported, and one that finalises
\* after an algorithm stopped it has queued its result.
AlgBound ==
  \A f \in Files : /\ alg[f] <= Loaded(cfg)
                   /\ child[f] = "stopping" => rvq[f] \in {"skip", "error"}

\* Which files can be in progress.
Where ==
  /\ pc \in {"load", "seq", "finalize", "returned"} => Running = {}
  /\ pc = "start" => Running \subseteq ChunkStart(chunk) .. (cur - 1)
  /\ pc = "join"  => Running \subseteq cur .. (ChunkStart(chunk + 1) - 1)
  /\ pc = "call"  => Running \subseteq {cur}
  /\ pc = "dead"  => \/ Running = {}
                     \/ /\ cfg.mp /\ chunk < NumChunks
                        /\ Running \subseteq ChunkFiles(chunk)

IInv == TypeOK /\ Control /\ AlgBound /\ Where

LEMMA LoadedType ==
  ASSUME NEW c \in Configs
  PROVE  Loaded(c) \in Algs
  BY SizesAssumption DEF Configs, Loaded, Algs, NoAlg

LEMMA InitIInv == Init => IInv
<1> SUFFICES ASSUME Init PROVE IInv
  OBVIOUS
<1>1. Loaded(cfg) \in Algs /\ 1 \in Algs /\ NumChunks \in Nat
  BY LoadedType, SizesAssumption, NumChunksFacts DEF Init, Algs
<1>0. cut \in BOOLEAN
  BY Zenon DEF Init
<1>2. TypeOK
  BY <1>0, <1>1, SizesAssumption
  DEF Init, TypeOK, PCs, Active, Fates, Queued, Twice, Results, NotReturned, NoFile, Algs
<1>3. Running = {}
  BY DEF Init, Running, Active
<1> QED
  BY <1>1, <1>2, <1>3 DEF Init, IInv, Control, AlgBound, Where, Algs

\* A step of the call for file f leaves the controller alone, and file f was
\* in progress.
LEMMA FileStepIInv ==
  ASSUME IInv, NEW f \in Files, FileStep(f)
  PROVE  IInv'
<1> USE DEF IInv
<1>1. /\ Loaded(cfg) \in Algs /\ Algs \subseteq Nat /\ Loaded(cfg) <= NAlgs
      /\ alg[f] \in Algs /\ alg[f] <= Loaded(cfg)
  BY LoadedType, SizesAssumption DEF TypeOK, AlgBound, Algs
<1>2. child[f] \in Active /\ Running' \subseteq Running
  BY DEF FileStep, CallStep, OpenFile, AlgorithmOk, AlgorithmStops,
         AlgorithmRaises, WriteBreakpoint, FinishFile, FinalizeStopped, Return,
         TypeOK, Running, Active
<1>3. UNCHANGED <<cfg, pc, chunk, cur, ret, tallyVars, loadVars>>
  BY DEF FileStep
<1>4. TypeOK' /\ AlgBound'
  <2> USE DEF TypeOK, AlgBound, Return, Active, Results, Queued, Twice, Fates
  <2> SUFFICES ASSUME CallStep(f) PROVE TypeOK' /\ AlgBound'
    BY DEF FileStep
  <2>1. CASE OpenFile(f)
    BY <2>1, <1>3 DEF OpenFile, tallyVars, loadVars
  <2>2. CASE AlgorithmOk(f)
    <3>1. held' \in [Files -> SUBSET Algs]
      BY <2>2, <1>1 DEF AlgorithmOk, Initialise
    <3>2. alg' \in [Files -> Algs] /\ \A g \in Files : alg'[g] <= Loaded(cfg)
      <4>1. alg[f] # Loaded(cfg) => alg[f] + 1 \in Algs /\ alg[f] + 1 <= Loaded(cfg)
        BY <1>1, SizesAssumption DEF Algs
      <4>2. \/ alg' = alg
            \/ alg' = [alg EXCEPT ![f] = alg[f] + 1] /\ alg[f] # Loaded(cfg)
        BY <2>2 DEF AlgorithmOk
      <4> QED
        BY <4>1, <4>2
    <3>3. child' \in [Files -> Active \cup {"idle", "exited"}]
      BY <2>2 DEF AlgorithmOk
    <3> QED
      BY <2>2, <3>1, <3>2, <3>3, <1>3 DEF AlgorithmOk, tallyVars, loadVars
  <2>3. CASE AlgorithmStops(f)
    BY <2>3, <1>1, <1>3 DEF AlgorithmStops, Initialise, tallyVars, loadVars
  <2>4. CASE AlgorithmRaises(f)
    BY <2>4, <1>1, <1>3 DEF AlgorithmRaises, tallyVars, loadVars
  <2>5. CASE WriteBreakpoint(f)
    BY <2>5, <1>3 DEF WriteBreakpoint, tallyVars, loadVars
  <2>6. CASE FinishFile(f)
    BY <2>6, <1>3 DEF FinishFile, tallyVars, loadVars
  <2>7. CASE FinalizeStopped(f)
    BY <2>7, <1>3 DEF FinalizeStopped, AndError, tallyVars, loadVars
  <2> QED
    BY <2>1, <2>2, <2>3, <2>4, <2>5, <2>6, <2>7 DEF CallStep
<1>5. Control' /\ Where'
  BY <1>2, <1>3 DEF Control, Where, ChunkFiles, ChunkStart, NumChunks
<1> QED
  BY <1>4, <1>5

\* The crash of a spawned process leaves the controller alone; in sequential
\* processing it ends the program.
LEMMA FileCrashesIInv ==
  ASSUME IInv, NEW f \in Files, FileCrashes(f)
  PROVE  IInv'
<1> USE DEF IInv
<1>1. child[f] \in Active /\ Running' \subseteq Running
  BY DEF FileCrashes, TypeOK, Running, Active
<1>2. TypeOK' /\ AlgBound'
  BY DEF FileCrashes, TypeOK, AlgBound, Active, Fates, Queued, Results, PCs, tallyVars,
         loadVars
<1>3. CASE cfg.mp
  BY <1>1, <1>2, <1>3 DEF FileCrashes, Control, Where, ChunkFiles, ChunkStart, NumChunks
<1>4. CASE ~cfg.mp
  <2>1. f \in Running
    BY <1>1 DEF Running
  <2>2. Running \subseteq {f}
    BY <2>1, <1>4 DEF Where, Control, TypeOK, PCs
  <2>3. Running' = {}
    BY <1>1, <2>2 DEF FileCrashes, TypeOK, Running, Active
  <2>4. pc' = "dead"
    BY <1>4 DEF FileCrashes
  <2> QED
    BY <1>2, <2>3, <2>4 DEF Control, Where
<1> QED
  BY <1>2, <1>3, <1>4

\* Loading: no file has been touched.
LEMMA LoadIInv ==
  ASSUME IInv,
         ImportFails \/ ImportAlgorithm \/ SharedMemInitFails \/ LoadCrashes \/ LoadDone
  PROVE  IInv'
<1> USE DEF IInv
<1>1. Loaded(cfg) \in Algs /\ Algs \subseteq Nat \ {0} /\ nload \in Nat
  BY LoadedType, SizesAssumption DEF TypeOK, Algs
<1>2. Running = {} /\ Running' = {} /\ UNCHANGED <<cfg, chunk, cur, alg>>
  BY DEF Where, Running, ImportFails, ImportAlgorithm, SharedMemInitFails,
         LoadCrashes, LoadDone, callVars
<1>3. TypeOK' /\ AlgBound'
  <2>1. CASE ImportAlgorithm
    <3>1. nload + 1 \in Algs /\ nload + 1 \in 0 .. Loaded(cfg)
      <4>1. nload < Loaded(cfg) /\ nload \in Nat /\ Loaded(cfg) \in 1 .. NAlgs
        BY <2>1, <1>1 DEF ImportAlgorithm, Algs
      <4> QED
        BY <4>1, SizesAssumption DEF Algs
    <3> QED
      BY <2>1, <3>1 DEF ImportAlgorithm, TypeOK, AlgBound, callVars, tallyVars
  <2>2. CASE ImportFails \/ (SharedMemInitFails /\ LoadFailed)
    <3>1. ret' \in [ok : BOOLEAN, errors : Nat \cup {-1}, processed : Nat \cup {-1},
                    skipped : Nat \cup {-1}, bp : Files \cup {NoFile}]
      <4>1. ret' = [ok |-> FALSE, errors |-> 1, processed |-> 0, skipped |-> 0,
                    bp |-> bpName]
        BY <2>2 DEF ImportFails, LoadFailed
      <4>2. bpName \in Files \cup {NoFile}
        BY DEF TypeOK
      <4> QED
        BY <4>1, <4>2
    <3>2. /\ pc' = "returned" /\ nload' = nload /\ live' = live
          /\ shmLive' \subseteq shmLive
          /\ UNCHANGED <<cfg, chunk, cur, callVars, tallyVars>>
      BY <2>2 DEF ImportFails, SharedMemInitFails, LoadFailed, loadVars
    <3> QED
      BY <3>1, <3>2 DEF TypeOK, AlgBound, PCs, callVars, tallyVars
  <2>3. CASE LoadCrashes \/ LoadDone
    BY <2>3 DEF LoadCrashes, LoadDone, TypeOK, AlgBound, PCs, callVars,
                tallyVars, loadVars
  <2>4. CASE SharedMemInitFails /\ ~LoadFailed
    <3>1. pc' = "dead" /\ shmLive' \subseteq shmLive
      BY <2>4 DEF SharedMemInitFails
    <3> QED
      BY <2>4, <3>1 DEF SharedMemInitFails, TypeOK, AlgBound, PCs, callVars, tallyVars
  <2> QED
    BY <2>1, <2>2, <2>3, <2>4
<1>4. Control'
  <2>1. pc = "load" /\ chunk = 0 /\ cur = 0
    BY DEF Control, ImportFails, ImportAlgorithm, SharedMemInitFails,
           LoadCrashes, LoadDone
  <2>2. /\ 0 < NumChunks /\ ChunkStart(0) = 0
        /\ 0 \in ChunkStart(0) .. ChunkStart(0 + 1)
    BY NumChunksFacts, ChunkBounds
  <2>3. /\ pc' \in {"load", "returned", "dead", "start", "seq"}
        /\ pc' = "start" => cfg.mp
        /\ pc' = "seq" => ~cfg.mp
    BY DEF ImportFails, ImportAlgorithm, SharedMemInitFails, LoadFailed,
           LoadCrashes, LoadDone
  <2>4. (chunk = 0)' /\ (cur = 0)' /\ cfg' = cfg
    BY <1>2, <2>1
  <2>5. pc' = "start" => /\ cfg.mp /\ chunk < NumChunks
                         /\ cur \in ChunkStart(chunk) .. ChunkStart(chunk + 1)
    BY <2>1, <2>2, <2>3
  <2> QED
    BY <2>1, <2>3, <2>4, <2>5, <1>2 DEF Control, ChunkStart, NumChunks
<1>5. Where'
  BY <1>2 DEF Where
<1> QED
  BY <1>3, <1>4, <1>5

\* The loop over the chunks of processes.
LEMMA ChunkIInv ==
  ASSUME IInv,
         StartProcess \/ AllStarted \/ JoinProcess \/ ChunkDone \/ ControllerCrashes
  PROVE  IInv'
<1> USE DEF IInv
<1> DEFINE lo == ChunkStart(chunk)
           hi == ChunkStart(chunk + 1)
<1>1. /\ pc \in {"start", "join"} /\ cfg.mp
      /\ chunk \in 0 .. (NumChunks - 1) /\ NumChunks \in Nat
      /\ cur \in lo .. hi
  BY NumChunksFacts
  DEF StartProcess, AllStarted, JoinProcess, ChunkDone, ControllerCrashes,
      Control, TypeOK
<1>2. lo \in Nat /\ hi \in Nat /\ lo <= hi /\ hi <= NFiles /\ NFiles \in Nat
  BY <1>1, ChunkBounds, SizesAssumption
<1>3. ChunkFiles(chunk) = lo .. (hi - 1)
  BY DEF ChunkFiles
<1>4. cur \in Nat
  BY DEF TypeOK
<1>5. (NumChunks)' = NumChunks /\ \A c : (ChunkStart(c))' = ChunkStart(c)
  BY DEF NumChunks, ChunkStart
<1>6. CASE StartProcess
  <2>1. cur \in lo .. (hi - 1) /\ cur \in Files /\ cur' = cur + 1
    BY <1>2, <1>3, <1>6 DEF StartProcess, Files
  <2>2. UNCHANGED <<pc, chunk, cfg, alg>> /\ pc = "start"
    BY <1>6 DEF StartProcess
  <2>3. TypeOK' /\ AlgBound'
    BY <2>1, <1>2, <1>6
    DEF StartProcess, TypeOK, AlgBound, Active, tallyVars, loadVars, Files
  <2>4. Running' \subseteq Running \cup {cur}
    BY <1>6 DEF StartProcess, Running, TypeOK
  <2>5. Running' \subseteq lo .. cur
    BY <2>1, <2>2, <2>4, <1>2 DEF Where
  <2> HIDE DEF lo, hi
  <2>6. cur' \in lo .. hi /\ Running' \subseteq lo .. (cur' - 1)
    BY <2>1, <2>5, <1>2, <1>4
  <2> QED
    BY <1>1, <2>2, <2>3, <2>6 DEF Control, Where, lo, hi, ChunkStart, NumChunks
<1>7. CASE AllStarted
  <2>1. pc = "start" /\ cur = hi
    BY <1>1, <1>2, <1>3, <1>7 DEF AllStarted
  <2>2. UNCHANGED <<chunk, cfg, alg>> /\ pc' = "join" /\ cur' = lo
    BY <1>7 DEF AllStarted, callVars
  <2>3. TypeOK' /\ AlgBound'
    BY <1>2, <1>7
    DEF AllStarted, TypeOK, AlgBound, PCs, callVars, tallyVars, loadVars
  <2>4. Running' \subseteq lo .. (hi - 1)
    BY <2>1, <1>7 DEF AllStarted, Where, Running, callVars
  <2> QED
    BY <1>1, <1>2, <2>2, <2>3, <2>4 DEF Control, Where, ChunkStart, NumChunks
<1>8. CASE JoinProcess
  <2>1. cur \in lo .. (hi - 1) /\ cur \in Files /\ cur' = cur + 1
    BY <1>2, <1>3, <1>8 DEF JoinProcess, Files
  <2>2. UNCHANGED <<pc, chunk, cfg, alg>> /\ pc = "join"
    BY <1>8 DEF JoinProcess
  <2>3. /\ num_errors' \in Nat /\ num_files_processed' \in Nat
        /\ num_skipped' \in Nat
    BY <1>8 DEF JoinProcess, Count, One, TypeOK
  <2>4. TypeOK' /\ AlgBound'
    BY <2>1, <2>3, <1>2, <1>8, SMTT(30) DEF JoinProcess, TypeOK, AlgBound, loadVars, Files
  <2>5. Running' \subseteq cur .. (hi - 1) /\ cur \notin Running'
    BY <2>2, <1>8 DEF JoinProcess, Where, Running, Active
  <2> HIDE DEF lo, hi
  <2>6. cur' \in lo .. hi /\ Running' \subseteq cur' .. (hi - 1)
    BY <2>1, <2>5, <1>2, <1>4
  <2> QED
    BY <1>1, <2>2, <2>4, <2>6 DEF Control, Where, lo, hi, ChunkStart, NumChunks
<1>9. CASE ChunkDone
  <2>1. pc = "join" /\ cur = hi
    BY <1>1, <1>2, <1>3, <1>9 DEF ChunkDone
  <2>2. /\ UNCHANGED <<cur, cfg, alg, child>> /\ chunk' = chunk + 1
        /\ pc' = IF chunk + 1 < NumChunks THEN "start" ELSE "finalize"
    BY <1>9 DEF ChunkDone, callVars
  <2>3. TypeOK' /\ AlgBound'
    BY <1>1, <1>9
    DEF ChunkDone, TypeOK, AlgBound, PCs, callVars, tallyVars, loadVars
  <2>4. Running = {}
    BY <2>1, <1>2 DEF Where
  <2>5. Running' = {}
    BY <2>2, <2>4 DEF Running
  <2>6. Where'
    BY <2>2, <2>5 DEF Where
  <2>7. chunk + 1 < NumChunks =>
          cur \in ChunkStart(chunk + 1) .. ChunkStart((chunk + 1) + 1)
    <3> SUFFICES ASSUME chunk + 1 < NumChunks
                 PROVE  hi \in ChunkStart(chunk + 1) .. ChunkStart((chunk + 1) + 1)
      BY <2>1
    <3>1. chunk + 1 \in 0 .. (NumChunks - 1)
      BY <1>1
    <3> QED
      BY <3>1, ChunkBounds
  <2>8. Control'
    BY <1>1, <2>2, <2>7 DEF Control, ChunkStart, NumChunks
  <2> QED
    BY <2>3, <2>6, <2>8
<1>10. CASE ControllerCrashes
  <2>1. UNCHANGED <<chunk, cfg, alg, child, cur>> /\ pc' = "dead"
    BY <1>10 DEF ControllerCrashes, callVars
  <2>2. TypeOK' /\ AlgBound'
    BY <1>10
    DEF ControllerCrashes, TypeOK, AlgBound, PCs, callVars, tallyVars, loadVars
  <2>3. Running' = Running /\ Running \subseteq lo .. (hi - 1)
    BY <1>1, <1>2, <2>1 DEF Where, Running
  <2> QED
    BY <1>1, <1>3, <2>1, <2>2, <2>3
    DEF Control, Where, ChunkFiles, ChunkStart, NumChunks
<1> QED
  BY <1>6, <1>7, <1>8, <1>9, <1>10

\* The sequential loop and the end of run_chain().
LEMMA SequentialIInv ==
  ASSUME IInv,
         \/ CallNextFile \/ AllCalled \/ TallyCall \/ Interrupt
         \/ FinalizeAndReturn \/ FinalizeCrashes
  PROVE  IInv'
<1> USE DEF IInv
<1>0. NFiles \in Nat /\ cur \in Nat
  BY SizesAssumption DEF TypeOK
<1>1. CASE CallNextFile
  <2>1. cur \in Files
    BY <1>0, <1>1 DEF CallNextFile, Files
  <2>2. TypeOK' /\ AlgBound'
    BY <1>1, <2>1
    DEF CallNextFile, TypeOK, AlgBound, Active, PCs, tallyVars, loadVars
  <2>3. Running' \subseteq {cur}
    BY <1>1, <2>1 DEF CallNextFile, Where, Running, TypeOK
  <2> QED
    BY <1>1, <2>2, <2>3 DEF CallNextFile, Control, Where
<1>2. CASE AllCalled
  <2>1. Running' = {} /\ pc' = "finalize"
    BY <1>2 DEF AllCalled, Where, Running, callVars
  <2> QED
    BY <1>2, <2>1
    DEF AllCalled, TypeOK, AlgBound, Control, Where, PCs, callVars, tallyVars, loadVars
<1>3. CASE TallyCall
  <2>1. cur < NFiles /\ cur + 1 \in 0 .. NFiles /\ cur \in Files /\ ~cfg.mp
    BY <1>0, <1>3 DEF TallyCall, Control, Files
  <2>2. /\ num_errors' \in Nat /\ num_files_processed' \in Nat
        /\ num_skipped' \in Nat
    BY <1>3 DEF TallyCall, Count, One, TypeOK
  <2>3. pc' \in {"finalize", "seq"} /\ UNCHANGED <<cfg, chunk, alg, child>>
    BY <1>3 DEF TallyCall
  <2>4. TypeOK' /\ AlgBound'
    BY <1>3, <2>1, <2>2, <2>3 DEF TallyCall, TypeOK, AlgBound, PCs, loadVars, Queued
  <2>5. Running' = {}
    BY <1>3 DEF TallyCall, Where, Running, Active
  <2> QED
    BY <2>1, <2>3, <2>4, <2>5 DEF Control, Where
<1>4. CASE Interrupt
  <2>1. Running' = {} /\ pc' = "finalize"
    BY <1>4 DEF Interrupt, Running, Active
  <2>2. bpName' \in Files \cup {NoFile} /\ cut' \in BOOLEAN /\ num_files_processed' \in Nat
    <3>1. pc = "call" => cur \in Files
      BY <1>0 DEF Control, Files
    <3> QED
      BY <1>4, <3>1 DEF Interrupt, TypeOK, One
  <2>3. TypeOK' /\ AlgBound'
    BY <1>4, <2>2 DEF Interrupt, TypeOK, AlgBound, PCs, loadVars
  <2> QED
    BY <2>1, <2>3 DEF Control, Where
<1>5. CASE FinalizeAndReturn
  <2>1. Running' = {} /\ pc' = "returned"
    BY <1>5 DEF FinalizeAndReturn, Where, Running, callVars
  <2>2. ret' \in [ok : BOOLEAN, errors : Nat \cup {-1}, processed : Nat \cup {-1},
                  skipped : Nat \cup {-1}, bp : Files \cup {NoFile}]
    BY <1>5 DEF FinalizeAndReturn, TypeOK
  <2>3. TypeOK' /\ AlgBound'
    BY <1>5, <2>2
    DEF FinalizeAndReturn, TypeOK, AlgBound, PCs, callVars, tallyVars
  <2> QED
    BY <2>1, <2>3 DEF Control, Where
<1>6. CASE FinalizeCrashes
  <2>1. Running' = {} /\ pc' = "dead"
    BY <1>6 DEF FinalizeCrashes, Where, Running, callVars
  <2>2. TypeOK' /\ AlgBound'
    BY <1>6 DEF FinalizeCrashes, TypeOK, AlgBound, PCs, callVars, tallyVars
  <2> QED
    BY <2>1, <2>2 DEF Control, Where
<1> QED
  BY <1>1, <1>2, <1>3, <1>4, <1>5, <1>6

LEMMA NextIInv == IInv /\ [Next]_vars => IInv'
<1> SUFFICES ASSUME IInv, [Next]_vars PROVE IInv'
  OBVIOUS
<1>1. CASE UNCHANGED vars
  BY <1>1
  DEF IInv, TypeOK, Control, AlgBound, Where, Running, ChunkFiles, ChunkStart,
      NumChunks, vars, callVars, tallyVars, loadVars
<1>2. CASE Controller
  BY <1>2, LoadIInv, ChunkIInv, SequentialIInv DEF Controller
<1>3. CASE Interrupt \/ ControllerCrashes
  BY <1>3, SequentialIInv, ChunkIInv
<1>4. ASSUME NEW f \in Files, FileStep(f) \/ FileCrashes(f) PROVE IInv'
  BY <1>4, FileStepIInv, FileCrashesIInv
<1> QED
  BY <1>1, <1>2, <1>3, <1>4 DEF Next, Terminating

\* IInv holds throughout every run of the chain.
LEMMA IInvariant == Spec => []IInv
  BY InitIInv, NextIInv, PTL DEF Spec

-----------------------------------------------------------------------------
(* Theorems *)

\* Every variable keeps its type, for any number of files, algorithms and
\* processes; in particular run_chain() never indexes past the file list.
THEOREM TypeCorrect == Spec => []TypeOK
<1>1. IInv => TypeOK
  BY DEF IInv
<1> QED
  BY <1>1, IInvariant, PTL

\* A set of files inside one chunk has at most max_processes members.
LEMMA ChunkCardinality ==
  ASSUME NEW c \in 0 .. (NumChunks - 1), NEW S, S \subseteq ChunkFiles(c)
  PROVE  IsFiniteSet(S) /\ Cardinality(S) <= MaxProcs
<1> DEFINE lo == ChunkStart(c)
           hi == ChunkStart(c + 1) - 1
<1>1. lo \in Int /\ hi \in Int /\ hi - lo + 1 <= MaxProcs /\ MaxProcs \in Nat \ {0}
  BY ChunkBounds, SizesAssumption
<1>2. /\ IsFiniteSet(lo .. hi)
      /\ Cardinality(lo .. hi) = IF lo > hi THEN 0 ELSE hi - lo + 1
  BY <1>1, FS_Interval
<1>3. Cardinality(lo .. hi) <= MaxProcs
  BY <1>1, <1>2
<1>4. S \subseteq lo .. hi
  BY DEF ChunkFiles
<1> HIDE DEF lo, hi
<1>5. IsFiniteSet(S) /\ Cardinality(S) <= Cardinality(lo .. hi)
  BY <1>2, <1>4, FS_Subset
<1>6. Cardinality(S) \in Nat /\ Cardinality(lo .. hi) \in Nat
  BY <1>2, <1>5, FS_CardinalityType
<1> QED
  BY <1>1, <1>3, <1>5, <1>6

\* At no moment do more than max_processes_for_multiprocessing processes
\* handle files, and in sequential processing at most one call is open.
THEOREM ProcessLimit == Spec => []ProcessBound
<1>1. IInv => ProcessBound
  <2> SUFFICES ASSUME IInv PROVE ProcessBound
    OBVIOUS
  <2>0. MaxProcs \in Nat \ {0} /\ NumChunks \in Nat
    BY SizesAssumption, NumChunksFacts
  <2>1. CASE Running = {}
    BY <2>0, <2>1, FS_EmptySet DEF ProcessBound
  <2>2. CASE pc = "call"
    <3>1. IsFiniteSet({cur}) /\ Cardinality({cur}) = 1
      BY FS_Singleton
    <3>2. Running \subseteq {cur}
      BY <2>2 DEF IInv, Where
    <3>3. IsFiniteSet(Running) /\ Cardinality(Running) <= Cardinality({cur})
      BY <3>1, <3>2, FS_Subset
    <3>4. Cardinality(Running) \in Nat
      BY <3>3, FS_CardinalityType
    <3> QED
      BY <2>0, <3>1, <3>3, <3>4 DEF ProcessBound
  <2>3. CASE Running # {} /\ pc # "call"
    <3>1. cfg.mp /\ chunk \in 0 .. (NumChunks - 1) /\ Running \subseteq ChunkFiles(chunk)
      <4>1. /\ pc \in {"start", "join"} =>
                 cur \in ChunkStart(chunk) .. ChunkStart(chunk + 1)
            /\ chunk \in 0 .. NumChunks
        BY DEF IInv, Control, TypeOK
      <4>2. cfg.mp /\ chunk < NumChunks
        BY <2>3 DEF IInv, Where, Control, TypeOK, PCs
      <4>3. chunk \in 0 .. (NumChunks - 1)
        BY <4>1, <4>2, <2>0
      <4>4. ChunkStart(chunk) \in Nat /\ ChunkStart(chunk + 1) \in Nat
        BY <4>3, ChunkBounds
      <4>5. Running \subseteq ChunkFiles(chunk)
        BY <2>3, <4>1, <4>4 DEF IInv, Where, TypeOK, PCs, ChunkFiles
      <4> QED
        BY <4>2, <4>3, <4>5
    <3> QED
      BY <3>1, ChunkCardinality DEF ProcessBound
  <2> QED
    BY <2>1, <2>2, <2>3
<1> QED
  BY <1>1, IInvariant, PTL

\* When run_chain() finalises the algorithms and returns, no process it
\* started is still running.
THEOREM NothingLeftRunning == Spec => []NoOrphans
<1>1. IInv => NoOrphans
  BY DEF IInv, Where, NoOrphans
<1> QED
  BY <1>1, IInvariant, PTL

\* The three together: for any number of files, algorithms and processes the
\* controller never loses hold of the processes that it started.
THEOREM ProcessesStayInHand == Spec => []ProcessesInHand
<1>1. TypeOK /\ ProcessBound /\ NoOrphans => ProcessesInHand
  BY DEF ProcessesInHand
<1> QED
  BY <1>1, TypeCorrect, ProcessLimit, NothingLeftRunning, PTL

-----------------------------------------------------------------------------
(* A file is processed once *)

\* The files that no call has been made for yet: those behind the one that
\* the controller is at, or behind the chunk that it is joining.
Frontier ==
  /\ pc \in {"load", "start", "seq"} => \A f \in Files : f >= cur => child[f] = "idle"
  /\ pc = "call" => \A f \in Files : f > cur => child[f] = "idle"
  /\ pc = "join" => \A f \in Files : f >= ChunkStart(chunk + 1) => child[f] = "idle"

\* The call for a file that is in progress moves no other file.
LEMMA CallMovesOneFile ==
  ASSUME TypeOK, NEW f \in Files, FileStep(f) \/ FileCrashes(f)
  PROVE  /\ child[f] \in Active /\ child'[f] \in Active \cup {"exited"}
         /\ \A g \in Files \ {f} : child'[g] = child[g] /\ fate'[g] = fate[g]
         /\ UNCHANGED <<cur, chunk>> /\ pc' \in {pc, "dead"}
<1>1. CASE FileStep(f)
  BY <1>1
  DEF FileStep, CallStep, OpenFile, AlgorithmOk, AlgorithmStops, AlgorithmRaises,
      WriteBreakpoint, FinishFile, FinalizeStopped, Return, TypeOK, Active
<1>2. CASE FileCrashes(f)
  BY <1>2 DEF FileCrashes, TypeOK, Active
<1> QED
  BY <1>1, <1>2

LEMMA FrontierStep == IInv /\ Frontier /\ [Next]_vars => Frontier'
<1> SUFFICES ASSUME IInv, Frontier, [Next]_vars PROVE Frontier'
  OBVIOUS
<1>0. /\ cur \in Nat /\ Files \subseteq Nat /\ TypeOK
      /\ \A c : (ChunkStart(c))' = ChunkStart(c)
  BY SizesAssumption DEF IInv, TypeOK, Files, ChunkStart, NumChunks
<1>1. CASE UNCHANGED vars
  BY <1>0, <1>1 DEF Frontier, vars, callVars
<1>2. CASE \/ ImportFails \/ ImportAlgorithm \/ SharedMemInitFails \/ LoadCrashes
           \/ LoadDone
  BY <1>2
  DEF ImportFails, ImportAlgorithm, SharedMemInitFails, LoadCrashes, LoadDone,
      LoadFailed, Frontier, callVars
<1>3. CASE StartProcess
  BY <1>0, <1>3 DEF StartProcess, Frontier, TypeOK
<1>4. CASE AllStarted
  <2>1. /\ chunk \in 0 .. (NumChunks - 1) /\ cur <= ChunkStart(chunk + 1)
        /\ cur >= ChunkStart(chunk)
    BY <1>4, NumChunksFacts, ChunkBounds DEF IInv, Control, TypeOK, AllStarted
  <2>2. ChunkStart(chunk) \in Nat /\ ChunkStart(chunk + 1) \in Nat
    BY <2>1, ChunkBounds
  <2>3. cur = ChunkStart(chunk + 1)
    BY <1>0, <1>4, <2>1, <2>2 DEF AllStarted, ChunkFiles
  <2>4. pc = "start" /\ pc' = "join" /\ UNCHANGED <<chunk, child>>
    BY <1>4 DEF AllStarted, callVars
  <2> QED
    BY <1>0, <2>3, <2>4 DEF Frontier
<1>5. CASE JoinProcess
  BY <1>0, <1>5 DEF JoinProcess, Frontier
<1>6. CASE ChunkDone
  <2>1. /\ chunk \in 0 .. (NumChunks - 1) /\ cur <= ChunkStart(chunk + 1)
        /\ cur >= ChunkStart(chunk)
    BY <1>6, NumChunksFacts, ChunkBounds DEF IInv, Control, TypeOK, ChunkDone
  <2>2. ChunkStart(chunk) \in Nat /\ ChunkStart(chunk + 1) \in Nat
    BY <2>1, ChunkBounds
  <2>3. cur = ChunkStart(chunk + 1)
    BY <1>0, <1>6, <2>1, <2>2 DEF ChunkDone, ChunkFiles
  <2>4. pc = "join" /\ pc' \in {"start", "finalize"} /\ UNCHANGED <<cur, child>>
    BY <1>6 DEF ChunkDone, callVars
  <2> QED
    BY <2>3, <2>4 DEF Frontier
<1>7. CASE CallNextFile
  BY <1>0, <1>7 DEF CallNextFile, Frontier, TypeOK
<1>8. CASE TallyCall
  BY <1>0, <1>8 DEF TallyCall, Frontier
<1>9. CASE \/ AllCalled \/ FinalizeAndReturn \/ FinalizeCrashes \/ Interrupt
           \/ ControllerCrashes
  BY <1>9
  DEF AllCalled, FinalizeAndReturn, FinalizeCrashes, Interrupt, ControllerCrashes,
      Frontier
<1>10. ASSUME NEW f \in Files, FileStep(f) \/ FileCrashes(f) PROVE Frontier'
  <2>1. /\ child[f] \in Active
        /\ \A g \in Files \ {f} : child'[g] = child[g]
        /\ UNCHANGED <<cur, chunk>> /\ pc' \in {pc, "dead"}
    BY <1>0, <1>10, CallMovesOneFile
  <2>2. child[f] # "idle"
    BY <2>1 DEF Active
  <2> QED
    BY <1>0, <2>1, <2>2 DEF Frontier
<1> QED
  BY <1>1, <1>2, <1>3, <1>4, <1>5, <1>6, <1>7, <1>8, <1>9, <1>10
  DEF Next, Controller, Terminating

LEMMA FrontierInvariant == Spec => []Frontier
<1>1. Init => Frontier
  BY DEF Init, Frontier
<1> QED
  BY <1>1, FrontierStep, IInvariant, PTL DEF Spec

\* No step restarts the call for a file or changes an outcome, whatever the
\* interleaving of processes and the way a call ends: the chunks of
\* array_split() never hand a file out twice.
THEOREM EachFileOnce == Spec => ProcessedOnce
<1> DEFINE Once == \A f \in Files :
       /\ child[f] # "idle"   => child'[f] # "idle"
       /\ child[f] = "exited" => child'[f] = "exited" /\ fate'[f] = fate[f]
<1>1. ASSUME IInv, Frontier, [Next]_vars PROVE [Once]_vars
  <2>0. cur \in Nat /\ Files \subseteq Nat /\ TypeOK
    BY <1>1, SizesAssumption DEF IInv, TypeOK, Files
  <2>1. CASE StartProcess
    <3>1. cur \in Files => child[cur] = "idle"
      BY <1>1, <2>0, <2>1 DEF StartProcess, Frontier
    <3> QED
      BY <2>0, <2>1, <3>1 DEF StartProcess, TypeOK
  <2>2. CASE CallNextFile
    <3>1. cur \in Files => child[cur] = "idle"
      BY <1>1, <2>0, <2>2 DEF CallNextFile, Frontier
    <3> QED
      BY <2>0, <2>2, <3>1 DEF CallNextFile, TypeOK
  <2>3. CASE Interrupt
    BY <2>0, <2>3 DEF Interrupt, TypeOK
  <2>4. ASSUME NEW f \in Files, FileStep(f) \/ FileCrashes(f) PROVE Once
    BY <2>0, <2>4, CallMovesOneFile DEF Active
  <2>5. CASE UNCHANGED <<child, fate>>
    BY <2>5
  <2>6. \/ StartProcess \/ CallNextFile \/ Interrupt \/ UNCHANGED <<child, fate>>
        \/ \E f \in Files : FileStep(f) \/ FileCrashes(f)
    BY <1>1
    DEF Next, Controller, Terminating, vars, callVars, ImportFails, ImportAlgorithm,
        SharedMemInitFails, LoadCrashes, LoadDone, AllStarted, JoinProcess, ChunkDone,
        AllCalled, TallyCall, FinalizeAndReturn, FinalizeCrashes, ControllerCrashes
  <2> QED
    BY <2>1, <2>2, <2>3, <2>4, <2>5, <2>6
<1> QED
  BY <1>1, IInvariant, FrontierInvariant, PTL DEF Spec, ProcessedOnce

-----------------------------------------------------------------------------
(* The counters of run_chain(), and the verdict it returns: what really     *)
(* happened to the files, and the inductive invariant                      *)

\* What the result queue of a file says agrees with the file's fate, as long
\* as the controller has not read it.
QueuesAgree ==
  \A f \in Files :
    /\ child[f] # "exited" => fate[f] = "none"
    /\ child[f] \notin {"exited", "stopping"} => rvq[f] = "empty"
    /\ child[f] = "stopping" => cfg.mp /\ rvq[f] \in {"skip", "error"}
    /\ child[f] = "exited" /\ rvq[f] # "empty" => rvq[f] = fate[f]
    /\ pc # "dead" /\ f \notin Tallied /\ fate[f] \in Queued => rvq[f] = fate[f]

\* Only Ctrl-C comes between the counters of a file, in sequential processing
\* and once the call for that file has returned.
CutLate ==
  /\ pc \notin {"finalize", "returned", "dead"} =>
       ~cut /\ \A f \in Files : child[f] = "exited" => fate[f] # "none"
  /\ cut => ~cfg.mp /\ cur \in Files /\ fate[cur] # "none"

\* After a complete load the verdict comes from the counter of errors.
Returned == CompletedLoad => (ret.ok <=> ~(num_errors > 0))

Books == IInv /\ Frontier /\ QueuesAgree /\ CutLate /\ TallyExact /\ Returned

\* What the counters are compared with: the files looked at whose fate is in
\* a set.
LEMMA WithFateFinite ==
  ASSUME IInv, NEW S
  PROVE  /\ Tallied \subseteq Files /\ IsFiniteSet(Tallied)
         /\ IsFiniteSet(WithFate(S)) /\ Cardinality(WithFate(S)) \in Nat
<1>1. NFiles \in Nat /\ cur \in 0 .. NFiles
  BY SizesAssumption DEF IInv, TypeOK
<1>2. pc = "start" => ChunkStart(chunk) \in Nat /\ ChunkStart(chunk) <= NFiles
  <2> SUFFICES ASSUME pc = "start"
               PROVE  ChunkStart(chunk) \in Nat /\ ChunkStart(chunk) <= NFiles
    OBVIOUS
  <2>1. chunk \in 0 .. (NumChunks - 1)
    BY NumChunksFacts DEF IInv, Control, TypeOK
  <2> QED
    BY <2>1, <1>1, ChunkBounds
<1>3. Tallied \subseteq Files
  BY <1>1, <1>2 DEF Tallied, Files
<1>4. IsFiniteSet(Files)
  BY <1>1, FS_Interval DEF Files
<1>5. IsFiniteSet(Tallied)
  BY <1>3, <1>4, FS_Subset
<1>6. WithFate(S) \subseteq Tallied
  BY DEF WithFate
<1>7. IsFiniteSet(WithFate(S))
  BY <1>5, <1>6, FS_Subset
<1> QED
  BY <1>3, <1>5, <1>7, FS_CardinalityType

\* A file that the controller has looked at is not in progress.
LEMMA TalliedDone ==
  ASSUME IInv, pc # "dead"
  PROVE  Tallied \cap Running = {}
<1>1. cur \in Nat /\ pc \in PCs /\ NFiles \in Nat
  BY SizesAssumption DEF IInv, TypeOK
<1>2. CASE pc \in {"start", "join"}
  <2>1. chunk \in 0 .. (NumChunks - 1)
    BY <1>2, NumChunksFacts DEF IInv, Control, TypeOK
  <2>2. ChunkStart(chunk) \in Nat /\ ChunkStart(chunk + 1) \in Nat
    BY <2>1, ChunkBounds
  <2> QED
    BY <1>1, <1>2, <2>2 DEF IInv, Where, Tallied
<1>3. CASE pc \notin {"start", "join"}
  BY <1>1, <1>3 DEF IInv, Where, Tallied, PCs
<1> QED
  BY <1>2, <1>3

\* Neither the files looked at nor their fates have changed.
LEMMA SameTally ==
  ASSUME TallyExact, pc # "dead", Tallied' = Tallied,
         \A f \in Tallied : fate'[f] = fate[f],
         UNCHANGED <<num_errors, num_skipped, num_files_processed, cut>>
  PROVE  TallyExact'
<1>1. \A S : (WithFate(S))' = WithFate(S)
  BY DEF WithFate
<1> QED
  BY <1>1 DEF TallyExact

\* One more file looked at: each counter is raised exactly if the file
\* belongs to the set that it counts.
LEMMA OneMore ==
  ASSUME IInv, TallyExact, pc # "dead", NEW f \in Files, f \notin Tallied,
         Tallied' = Tallied \cup {f}, UNCHANGED <<fate, cut>>,
         \A r \in Queued : rvq[f] = r <=> fate[f] = r,
         Count(rvq[f])
  PROVE  TallyExact'
<1>1. \A S : /\ IsFiniteSet(WithFate(S)) /\ Cardinality(WithFate(S)) \in Nat
             /\ f \notin WithFate(S)
  BY WithFateFinite DEF WithFate
<1>2. \A S : (WithFate(S))' = IF fate[f] \in S THEN WithFate(S) \cup {f} ELSE WithFate(S)
  BY DEF WithFate
<1>3. \A S : Cardinality(WithFate(S) \cup {f}) = Cardinality(WithFate(S)) + 1
  BY <1>1, FS_AddElement
<1>4. \A S : Cardinality((WithFate(S))') =
               Cardinality(WithFate(S)) + (IF fate[f] \in S THEN 1 ELSE 0)
  BY <1>1, <1>2, <1>3
<1>5. /\ num_errors' = num_errors + (IF fate[f] \in {"error"} \cup Twice THEN 1 ELSE 0)
                                 + (IF fate[f] \in {"error_error"} THEN 1 ELSE 0)
      /\ num_skipped' = num_skipped + (IF fate[f] \in {"skip", "skip_error"} THEN 1 ELSE 0)
      /\ num_files_processed' = num_files_processed + (IF fate[f] \in Queued THEN 1 ELSE 0)
                                                    + (IF fate[f] \in Twice THEN 1 ELSE 0)
  BY DEF Count, One, Queued, Twice, Results
<1>6. /\ num_errors' = Cardinality((WithFate({"error"} \cup Twice))')
                       + Cardinality((WithFate({"error_error"}))')
      /\ num_skipped' = Cardinality((WithFate({"skip", "skip_error"}))')
      /\ num_files_processed' = Cardinality((WithFate(Queued))')
                                + Cardinality((WithFate(Twice))') + One(cut)
  <2> HIDE DEF Twice, Queued, One
  <2>1. One(cut) \in Nat
    BY DEF One
  <2> QED
    BY <1>1, <1>4, <1>5, <2>1 DEF TallyExact
<1> QED
  BY <1>6 DEF TallyExact, Queued, Twice, Results, One

-----------------------------------------------------------------------------
(* Steps *)

LEMMA InitBooks == Init => Books
<1> SUFFICES ASSUME Init PROVE Books
  OBVIOUS
<1>1. IInv /\ Frontier
  BY InitIInv DEF Init, Frontier
<1>2. QueuesAgree /\ CutLate /\ Returned
  BY DEF Init, QueuesAgree, CutLate, Returned, CompletedLoad, Queued, Twice, Results
<1>3. \A S : WithFate(S) = {}
  BY DEF Init, WithFate, Tallied
<1>5. One(cut) = 0
  BY DEF Init, One
<1>4. TallyExact
  BY <1>3, <1>5, FS_EmptySet DEF Init, TallyExact
<1> QED
  BY <1>1, <1>2, <1>4 DEF Books

\* The steps of a call: its own file is not yet looked at.
LEMMA CallBooks ==
  ASSUME Books, NEW f \in Files, FileStep(f) \/ FileCrashes(f)
  PROVE  QueuesAgree' /\ CutLate' /\ TallyExact' /\ Returned'
<1>1. IInv /\ TypeOK /\ QueuesAgree /\ CutLate /\ TallyExact /\ Returned
  BY DEF Books, IInv
<1>2. /\ child[f] \in Active
      /\ \A g \in Files \ {f} : child'[g] = child[g] /\ fate'[g] = fate[g]
      /\ UNCHANGED <<cur, chunk>> /\ pc' \in {pc, "dead"}
  BY <1>1, CallMovesOneFile
<1>3. UNCHANGED <<cfg, nload, ret, num_errors, num_skipped, num_files_processed, cut>>
  BY DEF FileStep, FileCrashes, tallyVars, loadVars
<1>4. /\ \A g \in Files \ {f} : rvq'[g] = rvq[g]
      /\ \/ /\ child'[f] \notin {"exited", "stopping"} /\ child[f] # "stopping"
            /\ fate'[f] = fate[f] /\ rvq'[f] = rvq[f]
         \/ /\ child'[f] = "stopping" /\ cfg.mp
            /\ fate'[f] = fate[f] /\ rvq'[f] \in {"skip", "error"}
         \/ child'[f] = "exited" /\ fate'[f] \in Queued /\ rvq'[f] = fate'[f]
         \/ child'[f] = "exited" /\ fate'[f] = "lost" /\ rvq'[f] = "empty"
  <2>1. CASE FileStep(f)
    BY <2>1, <1>1
    DEF FileStep, CallStep, OpenFile, AlgorithmOk, AlgorithmStops, AlgorithmRaises,
        WriteBreakpoint, FinishFile, FinalizeStopped, AndError, Return, TypeOK, Active,
        QueuesAgree, Queued, Twice, Results
  <2>2. CASE FileCrashes(f)
    BY <2>2, <1>1 DEF FileCrashes, TypeOK, Active, QueuesAgree, Queued, Results
  <2> QED
    BY <2>1, <2>2
<1>5. fate[f] = "none" /\ (child[f] # "stopping" => rvq[f] = "empty")
  BY <1>1, <1>2 DEF QueuesAgree, Active
<1>6. pc # "dead" => f \notin Tallied
  <2>1. f \in Running
    BY <1>2 DEF Running
  <2> QED
    BY <1>1, <2>1, TalliedDone
<1>7. pc' # "dead" => pc # "dead" /\ Tallied' = Tallied
  BY <1>2 DEF Tallied, ChunkStart, NumChunks
<1>8. QueuesAgree' /\ CutLate'
  <2>1. QueuesAgree'
    BY <1>1, <1>2, <1>3, <1>4, <1>5, <1>7 DEF QueuesAgree, Queued, Twice, Results
  <2>2. CutLate'
    BY <1>1, <1>2, <1>3, <1>4, <1>5 DEF CutLate, Queued, Twice, Results, TypeOK
  <2> QED
    BY <2>1, <2>2
<1>9. TallyExact'
  <2>1. CASE pc' = "dead"
    BY <2>1 DEF TallyExact
  <2>2. CASE pc' # "dead"
    <3>1. \A g \in Tallied : fate'[g] = fate[g]
      BY <1>1, <1>2, <1>6, <1>7, <2>2, WithFateFinite
    <3> QED
      BY <1>1, <1>3, <1>7, <2>2, <3>1, SameTally
  <2> QED
    BY <2>1, <2>2
<1>10. Returned'
  BY <1>1, <1>2, <1>3 DEF Returned, CompletedLoad, Loaded
<1> QED
  BY <1>8, <1>9, <1>10

\* The loading of the algorithms and the end of run_chain() look at no file.
LEMMA OtherBooks ==
  ASSUME Books,
         \/ ImportFails \/ ImportAlgorithm \/ SharedMemInitFails \/ LoadCrashes
         \/ LoadDone \/ AllCalled \/ FinalizeAndReturn \/ FinalizeCrashes
         \/ ControllerCrashes
  PROVE  QueuesAgree' /\ CutLate' /\ TallyExact' /\ Returned'
<1>1. IInv /\ TypeOK /\ QueuesAgree /\ CutLate /\ TallyExact /\ Returned
  BY DEF Books, IInv
<1>2. /\ UNCHANGED <<fate, rvq, cur, chunk, num_errors, num_skipped, num_files_processed,
                    cut, child, cfg>>
      /\ pc \notin {"dead", "returned"}
  BY <1>1
  DEF ImportFails, ImportAlgorithm, SharedMemInitFails, LoadCrashes, LoadDone, AllCalled,
      FinalizeAndReturn, FinalizeCrashes, ControllerCrashes, callVars, tallyVars, LoadFailed
<1>3. pc' # "dead" => Tallied' = Tallied
  <2>1. CASE LoadDone
    <3>1. pc = "load" /\ cur = 0 /\ chunk = 0 /\ ChunkStart(0) = 0
      BY <2>1, <1>1, ChunkBounds DEF LoadDone, IInv, Control
    <3>2. Tallied = 0 .. (0 - 1)
      BY <3>1 DEF Tallied
    <3>3. ChunkStart(chunk)' = ChunkStart(0)
      BY <3>1, <1>2 DEF ChunkStart, NumChunks
    <3>4. Tallied' = 0 .. (0 - 1)
      BY <3>1, <3>3, <1>2 DEF Tallied
    <3> QED
      BY <3>2, <3>4
  <2>2. CASE ~LoadDone /\ pc' # "dead"
    <3>1. pc # "start" /\ pc' # "start"
      BY <2>2
      DEF ImportFails, ImportAlgorithm, SharedMemInitFails, LoadCrashes, AllCalled,
          FinalizeAndReturn, FinalizeCrashes, ControllerCrashes, LoadFailed
    <3> QED
      BY <3>1, <1>2 DEF Tallied
  <2> QED
    BY <2>1, <2>2
<1>4. QueuesAgree' /\ CutLate'
  <2>1. QueuesAgree'
    BY <1>1, <1>2, <1>3 DEF QueuesAgree
  <2>2. CutLate'
    <3>1. pc' \notin {"finalize", "returned", "dead"} => pc \notin {"finalize", "returned", "dead"}
      BY <1>2
      DEF ImportFails, ImportAlgorithm, SharedMemInitFails, LoadCrashes, LoadDone, AllCalled,
          FinalizeAndReturn, FinalizeCrashes, ControllerCrashes, LoadFailed
    <3> QED
      BY <1>1, <1>2, <3>1 DEF CutLate
  <2> QED
    BY <2>1, <2>2
<1>5. TallyExact'
  <2>1. CASE pc' = "dead"
    BY <2>1 DEF TallyExact
  <2>2. CASE pc' # "dead"
    BY <1>1, <1>2, <1>3, <2>2, SameTally
  <2> QED
    BY <2>1, <2>2
<1>6. Returned'
  <2>1. CASE FinalizeAndReturn
    BY <2>1 DEF FinalizeAndReturn, Returned, tallyVars
  <2>2. CASE ImportFails \/ SharedMemInitFails
    <3>1. nload' # Loaded(cfg) /\ UNCHANGED cfg
      BY <2>2, <1>1, LoadedType DEF ImportFails, SharedMemInitFails, loadVars, TypeOK
    <3> QED
      BY <3>1 DEF Returned, CompletedLoad, Loaded
  <2>3. CASE ~FinalizeAndReturn /\ ~ImportFails /\ ~SharedMemInitFails
    <3>1. pc' # "returned"
      BY <2>3, <1>2
      DEF ImportAlgorithm, LoadCrashes, LoadDone, AllCalled, FinalizeCrashes,
          ControllerCrashes
    <3> QED
      BY <3>1 DEF Returned, CompletedLoad
  <2> QED
    BY <2>1, <2>2, <2>3
<1> QED
  BY <1>4, <1>5, <1>6

\* Ctrl-C in the sequential loop: the file in progress is not counted, or
\* among the processed only.
LEMMA InterruptBooks ==
  ASSUME Books, Interrupt
  PROVE  QueuesAgree' /\ CutLate' /\ TallyExact' /\ Returned'
<1>1. IInv /\ TypeOK /\ QueuesAgree /\ CutLate /\ TallyExact /\ Control
  BY DEF Books, IInv
<1>2. /\ UNCHANGED <<fate, rvq, cur, chunk, num_errors, num_skipped, cfg>>
      /\ pc \in {"seq", "call"} /\ pc' = "finalize" /\ ~cfg.mp
      /\ \A f \in Files : child'[f] = IF child[f] = "idle" THEN "idle" ELSE "exited"
  BY <1>1 DEF Interrupt, Control
<1>3. Tallied' = Tallied
  BY <1>2 DEF Tallied
<1>4. QueuesAgree'
  BY <1>1, <1>2, <1>3 DEF QueuesAgree
<1>5. \/ UNCHANGED <<cut, num_files_processed>>
      \/ /\ pc = "call" /\ child[cur] = "exited" /\ cut' \in BOOLEAN
         /\ num_files_processed' = num_files_processed + One(cut')
  BY DEF Interrupt
<1>6. CutLate'
  <2>1. pc = "call" => cur \in Files
    BY <1>1, SizesAssumption DEF Control, TypeOK, Files
  <2> QED
    BY <1>1, <1>2, <1>5, <2>1 DEF CutLate
<1>7. TallyExact'
  <2>1. \A S : (WithFate(S))' = WithFate(S)
    BY <1>2, <1>3 DEF WithFate
  <2>2. ~cut /\ num_files_processed \in Nat /\ One(cut) = 0
    BY <1>1, <1>2 DEF CutLate, TypeOK, One
  <2>3. One(cut') \in Nat /\ One(cut)' = One(cut')
    BY DEF One
  <2>4. num_files_processed' = num_files_processed + One(cut)'
    BY <1>5, <2>2, <2>3 DEF One
  <2>5. /\ num_files_processed = Cardinality(WithFate(Queued)) + Cardinality(WithFate(Twice))
        /\ Cardinality(WithFate(Queued)) \in Nat /\ Cardinality(WithFate(Twice)) \in Nat
        /\ num_errors  = Cardinality(WithFate({"error"} \cup Twice))
                          + Cardinality(WithFate({"error_error"}))
        /\ num_skipped = Cardinality(WithFate({"skip", "skip_error"}))
    BY <1>1, <1>2, <2>2, WithFateFinite DEF TallyExact
  <2> QED
    BY <1>2, <2>1, <2>4, <2>5 DEF TallyExact, Queued, Twice, Results
<1>8. Returned'
  BY <1>2 DEF Returned, CompletedLoad
<1> QED
  BY <1>4, <1>6, <1>7, <1>8

\* A file is handed to a process or a call: it has not been touched before.
LEMMA StartBooks ==
  ASSUME Books, StartProcess \/ CallNextFile
  PROVE  QueuesAgree' /\ CutLate' /\ TallyExact' /\ Returned'
<1>1. IInv /\ TypeOK /\ Frontier /\ QueuesAgree /\ CutLate /\ TallyExact
  BY DEF Books, IInv
<1>2. /\ UNCHANGED <<fate, rvq, chunk, num_errors, num_skipped, num_files_processed,
                    cut, cfg>>
      /\ child' = [child EXCEPT ![cur] = "open"]
      /\ pc \in {"start", "seq"} /\ pc' \in {"start", "call"}
      /\ pc' = "start" <=> pc = "start"
      /\ pc = "seq" => UNCHANGED cur
  BY DEF StartProcess, CallNextFile, tallyVars
<1>3. \A f \in Files : f = cur => child[f] = "idle"
  BY <1>1, <1>2, SizesAssumption DEF Frontier, TypeOK, Files
<1>4. Tallied' = Tallied
  BY <1>2 DEF Tallied, ChunkStart, NumChunks
<1>5. QueuesAgree' /\ CutLate'
  BY <1>1, <1>2, <1>3, <1>4 DEF QueuesAgree, CutLate, TypeOK
<1>6. TallyExact'
  BY <1>1, <1>2, <1>4, SameTally
<1>7. Returned'
  BY <1>2 DEF Returned, CompletedLoad
<1> QED
  BY <1>5, <1>6, <1>7

\* Between starting, joining and the next chunk no file changes sides.
LEMMA ChunkBooks ==
  ASSUME Books, AllStarted \/ ChunkDone
  PROVE  QueuesAgree' /\ CutLate' /\ TallyExact' /\ Returned'
<1>1. IInv /\ TypeOK /\ QueuesAgree /\ CutLate /\ TallyExact
  BY DEF Books, IInv
<1>2. /\ UNCHANGED <<fate, rvq, child, num_errors, num_skipped, num_files_processed,
                    cut, cfg>>
      /\ pc \in {"start", "join"} /\ pc' \in {"start", "join", "finalize"}
  BY DEF AllStarted, ChunkDone, callVars, tallyVars
<1>3. /\ chunk \in 0 .. (NumChunks - 1)
      /\ cur \in Nat /\ cur >= ChunkStart(chunk) /\ cur <= ChunkStart(chunk + 1)
  BY <1>1, <1>2, NumChunksFacts, ChunkBounds DEF IInv, Control, TypeOK
<1>4. ChunkStart(chunk) \in Nat /\ ChunkStart(chunk + 1) \in Nat
  BY <1>3, ChunkBounds
<1>5. Tallied' = Tallied
  <2>1. CASE AllStarted
    BY <2>1 DEF AllStarted, Tallied
  <2>2. CASE ChunkDone
    <3>1. cur = ChunkStart(chunk + 1)
      BY <1>3, <1>4, <2>2 DEF ChunkDone, ChunkFiles
    <3>2. ChunkStart(chunk)' = ChunkStart(chunk + 1)
      BY <2>2 DEF ChunkDone, ChunkStart, NumChunks
    <3> QED
      BY <3>1, <3>2, <2>2 DEF ChunkDone, Tallied
  <2> QED
    BY <2>1, <2>2
<1>6. QueuesAgree' /\ CutLate'
  BY <1>1, <1>2, <1>5 DEF QueuesAgree, CutLate
<1>7. TallyExact'
  BY <1>1, <1>2, <1>5, SameTally
<1>8. Returned'
  BY <1>2 DEF Returned, CompletedLoad
<1> QED
  BY <1>6, <1>7, <1>8

\* A result is read: the queue of a file that has ended holds its fate, or
\* nothing if its process died.
LEMMA ReadBooks ==
  ASSUME Books, JoinProcess \/ TallyCall
  PROVE  QueuesAgree' /\ CutLate' /\ TallyExact' /\ Returned'
<1>1. IInv /\ TypeOK /\ QueuesAgree /\ CutLate /\ TallyExact
  BY DEF Books, IInv
<1>2. /\ UNCHANGED <<fate, child, cut, cfg>> /\ cur' = cur + 1
      /\ rvq' = [rvq EXCEPT ![cur] = "empty"]
      /\ pc \in {"join", "call"} /\ pc' \in {"join", "seq", "finalize"}
      /\ Count(rvq[cur])
  BY DEF JoinProcess, TallyCall
<1>3. cur \in Files /\ cur \in Nat
  <2>1. CASE JoinProcess
    <3>1. chunk \in 0 .. (NumChunks - 1)
      BY <1>1, <2>1, NumChunksFacts DEF IInv, Control, TypeOK, JoinProcess
    <3>2. /\ ChunkStart(chunk) \in Nat /\ ChunkStart(chunk + 1) \in Nat
          /\ ChunkStart(chunk + 1) <= NFiles
      BY <3>1, ChunkBounds
    <3> QED
      BY <2>1, <3>2, SizesAssumption DEF JoinProcess, ChunkFiles, Files
  <2>2. CASE TallyCall
    BY <1>1, <2>2, SizesAssumption DEF TallyCall, IInv, Control, TypeOK, Files
  <2> QED
    BY <2>1, <2>2
<1>4. cur \notin Tallied /\ Tallied' = Tallied \cup {cur}
  BY <1>2, <1>3 DEF Tallied
<1>5. \A q \in Queued : rvq[cur] = q <=> fate[cur] = q
  <2>1. child[cur] = "exited"
    BY DEF JoinProcess, TallyCall
  <2> QED
    BY <1>1, <1>2, <1>3, <1>4, <2>1 DEF QueuesAgree, Queued, Twice, Results
<1>6. TallyExact'
  BY <1>1, <1>2, <1>3, <1>4, <1>5, OneMore
<1>7. QueuesAgree' /\ CutLate'
  <2>1. QueuesAgree'
    <3>1. child[cur] = "exited"
      BY DEF JoinProcess, TallyCall
    <3> QED
      BY <1>1, <1>2, <1>3, <1>4, <3>1 DEF QueuesAgree, TypeOK
  <2>2. CutLate'
    BY <1>1, <1>2 DEF CutLate
  <2> QED
    BY <2>1, <2>2
<1>8. Returned'
  BY <1>2 DEF Returned, CompletedLoad
<1> QED
  BY <1>6, <1>7, <1>8

LEMMA NextBooks == Books /\ [Next]_vars => Books'
<1> SUFFICES ASSUME Books, [Next]_vars PROVE Books'
  OBVIOUS
<1>1. IInv' /\ Frontier'
  BY NextIInv, FrontierStep DEF Books
<1>2. CASE UNCHANGED vars
  BY <1>1, <1>2
  DEF Books, QueuesAgree, CutLate, TallyExact, WithFate, Tallied, ChunkStart, NumChunks, Returned,
      CompletedLoad, Loaded, vars, callVars, tallyVars, loadVars
<1>3. ASSUME NEW f \in Files, FileStep(f) \/ FileCrashes(f) 
      PROVE  QueuesAgree' /\ CutLate' /\ TallyExact' /\ Returned'
  BY <1>3, CallBooks
<1>4. CASE Controller \/ Interrupt \/ ControllerCrashes
  BY <1>1, <1>4, OtherBooks, InterruptBooks, StartBooks, ChunkBooks, ReadBooks DEF Controller, Books
<1> QED
  BY <1>1, <1>2, <1>3, <1>4 DEF Next, Terminating, Books

LEMMA BooksInvariant == Spec => []Books
  BY InitBooks, NextBooks, PTL DEF Spec

-----------------------------------------------------------------------------
(* Theorems *)

\* At every moment the three counters of run_chain() are the numbers of files
\* looked at that ended in an error, were skipped, or gave any result, those
\* with two results counted twice.
THEOREM CountersExact == Spec => []TallyExact
<1>1. Books => TallyExact
  BY DEF Books
<1> QED
  BY <1>1, BooksInvariant, PTL

\* run_chain() reports success exactly if none of the files it looked at
\* ended in an error.
THEOREM VerdictHonest == Spec => []Verdict
<1>1. Books => Verdict
  <2> DEFINE Bad == {"error"} \cup Twice
  <2> SUFFICES ASSUME Books, CompletedLoad
               PROVE  ret.ok <=> \A f \in 0 .. (cur - 1) : fate[f] \notin Bad
    BY DEF Verdict
  <2>1. pc = "returned" /\ IInv
    BY DEF CompletedLoad, Books
  <2>2. Tallied = 0 .. (cur - 1)
    BY <2>1 DEF Tallied
  <2>3. /\ num_errors = Cardinality(WithFate(Bad)) + Cardinality(WithFate({"error_error"}))
        /\ ret.ok <=> ~(num_errors > 0)
    BY <2>1 DEF Books, TallyExact, Returned
  <2>4. /\ IsFiniteSet(WithFate(Bad)) /\ Cardinality(WithFate(Bad)) \in Nat
        /\ IsFiniteSet(WithFate({"error_error"}))
        /\ Cardinality(WithFate({"error_error"})) \in Nat
    BY <2>1, WithFateFinite
  <2>5. WithFate({"error_error"}) \subseteq WithFate(Bad)
    BY DEF WithFate, Twice
  <2>6. num_errors = 0 <=> WithFate(Bad) = {}
    <3>1. Cardinality(WithFate(Bad)) = 0 <=> WithFate(Bad) = {}
      BY <2>4, FS_EmptySet
    <3>2. WithFate(Bad) = {} => Cardinality(WithFate({"error_error"})) = 0
      BY <2>4, <2>5, FS_EmptySet
    <3> QED
      BY <2>3, <2>4, <3>1, <3>2
  <2>7. WithFate(Bad) = {} <=> \A f \in 0 .. (cur - 1) : fate[f] \notin Bad
    BY <2>2 DEF WithFate
  <2>8. ~(num_errors > 0) <=> num_errors = 0
    BY <2>3, <2>4
  <2> QED
    BY <2>3, <2>6, <2>7, <2>8, Zenon
<1> QED
  BY <1>1, BooksInvariant, PTL

-----------------------------------------------------------------------------
(* Each call *)

\* How far the call for a file is, and whether its breakpoint file exists.
Complete(f) == alg[f] = Loaded(cfg) /\ (f \in bpFiles <=> cfg.bp # NoAlg)

Stages ==
  \A f \in Files :
    /\ child[f] \in {"idle", "open", "algs", "break"} => f \notin bpFiles
    /\ child[f] = "break" => alg[f] = cfg.bp
    /\ child[f] = "finish" => Complete(f)
    /\ fate[f] = "ok" => Complete(f)

\* What a step of a call does to the other files and to the controller.
LEMMA CallLeavesOthers ==
  ASSUME TypeOK, NEW f \in Files, FileStep(f) \/ FileCrashes(f)
  PROVE  /\ UNCHANGED <<cfg, ret, chunk, cur, nload, live, shmLive>>
         /\ UNCHANGED <<num_files_processed, cut>>
         /\ \A g \in Files \ {f} :
              /\ child'[g] = child[g] /\ fate'[g] = fate[g] /\ alg'[g] = alg[g]
              /\ held'[g] = held[g] /\ rvq'[g] = rvq[g]
              /\ g \in bpFiles' <=> g \in bpFiles
<1>1. CASE FileStep(f)
  BY <1>1
  DEF FileStep, CallStep, OpenFile, AlgorithmOk, AlgorithmStops, AlgorithmRaises,
      WriteBreakpoint, FinishFile, FinalizeStopped, Initialise, Return, TypeOK, tallyVars, loadVars
<1>2. CASE FileCrashes(f)
  BY <1>2 DEF FileCrashes, TypeOK, tallyVars, loadVars
<1> QED
  BY <1>1, <1>2

\* The controller's own steps leave the work on the files alone; they start
\* calls and, on Ctrl-C, abandon one.
LEMMA ControllerLeavesFiles ==
  ASSUME TypeOK, Controller \/ Interrupt \/ ControllerCrashes
  PROVE  /\ UNCHANGED <<cfg, alg, held, bpFiles, fate>>
         /\ \A f \in Files :
              child'[f] \in {child[f], "exited"} \/ (child'[f] = "open" /\ f = cur)
<1> USE DEF callVars
<1>1. CASE \/ ImportFails \/ ImportAlgorithm \/ SharedMemInitFails \/ LoadCrashes
           \/ LoadDone
  BY <1>1
  DEF ImportFails, ImportAlgorithm, SharedMemInitFails, LoadCrashes, LoadDone, LoadFailed
<1>2. CASE StartProcess \/ AllStarted \/ JoinProcess \/ ChunkDone \/ ControllerCrashes
  BY <1>2 DEF StartProcess, AllStarted, JoinProcess, ChunkDone, ControllerCrashes, TypeOK
<1>3. CASE CallNextFile \/ AllCalled \/ TallyCall \/ Interrupt
  BY <1>3 DEF CallNextFile, AllCalled, TallyCall, Interrupt, TypeOK
<1>4. CASE FinalizeAndReturn \/ FinalizeCrashes
  BY <1>4 DEF FinalizeAndReturn, FinalizeCrashes
<1> QED
  BY <1>1, <1>2, <1>3, <1>4 DEF Controller

\* The call for a file reaches its end only through every algorithm and the
\* breakpoint file.
LEMMA CallStages ==
  ASSUME Books, Stages, NEW f \in Files, FileStep(f) \/ FileCrashes(f)
  PROVE  Stages'
<1>0. TypeOK /\ IInv /\ QueuesAgree
  BY DEF Books, IInv
<1>1. /\ UNCHANGED cfg
      /\ \A g \in Files \ {f} :
           /\ child'[g] = child[g] /\ fate'[g] = fate[g] /\ alg'[g] = alg[g]
           /\ held'[g] = held[g] /\ (g \in bpFiles' <=> g \in bpFiles)
  BY <1>0, CallLeavesOthers
<1>2. child[f] \in Active /\ fate[f] = "none"
  BY <1>0, CallMovesOneFile DEF QueuesAgree, Active
<1>3. alg[f] \in Nat \ {0} /\ cfg.bp \in Nat
  BY <1>0, SizesAssumption DEF TypeOK, Algs, Configs
<1> USE DEF Complete, Loaded, NoAlg
<1>4. /\ child'[f] \in {"idle", "open", "algs", "break"} => f \notin bpFiles'
      /\ child'[f] = "break" => alg'[f] = cfg.bp
      /\ child'[f] = "finish" => alg'[f] = Loaded(cfg) /\ (f \in bpFiles' <=> cfg.bp # NoAlg)
      /\ fate'[f] = "ok" => alg'[f] = Loaded(cfg) /\ (f \in bpFiles' <=> cfg.bp # NoAlg)
  <2>1. CASE FileCrashes(f)
    BY <2>1, <1>0, <1>2 DEF FileCrashes, TypeOK, QueuesAgree
  <2>2. CASE OpenFile(f)
    BY <2>2, <1>0, <1>2 DEF OpenFile, Return, TypeOK, Stages
  <2>3. CASE AlgorithmOk(f)
    BY <2>3, <1>0, <1>2, <1>3 DEF AlgorithmOk, TypeOK, Stages
  <2>4. CASE AlgorithmStops(f) \/ AlgorithmRaises(f)
    BY <2>4, <1>0, <1>2 DEF AlgorithmStops, AlgorithmRaises, Return, TypeOK, Stages
  <2>5. CASE WriteBreakpoint(f)
    BY <2>5, <1>0, <1>2, <1>3 DEF WriteBreakpoint, Return, TypeOK, Stages
  <2>6. CASE FinishFile(f)
    BY <2>6, <1>0, <1>2 DEF FinishFile, Return, TypeOK, Stages
  <2>7. CASE FinalizeStopped(f)
    BY <2>7, <1>0, <1>2 DEF FinalizeStopped, AndError, Return, TypeOK, QueuesAgree
  <2> QED
    BY <2>1, <2>2, <2>3, <2>4, <2>5, <2>6, <2>7 DEF FileStep, CallStep
<1> QED
  BY <1>1, <1>4 DEF Stages

LEMMA StagesStep == Books /\ Stages /\ [Next]_vars => Stages'
<1> SUFFICES ASSUME Books, Stages, [Next]_vars PROVE Stages'
  OBVIOUS
<1>1. CASE UNCHANGED vars
  BY <1>1 DEF Stages, Complete, Loaded, vars, callVars
<1>2. CASE Controller \/ Interrupt \/ ControllerCrashes
  <2>1. /\ UNCHANGED <<cfg, alg, held, bpFiles, fate>>
        /\ \A f \in Files :
             child'[f] \in {child[f], "exited"} \/ (child'[f] = "open" /\ f = cur)
    BY <1>2, ControllerLeavesFiles DEF Books, IInv
  <2>2. ASSUME NEW f \in Files, child'[f] = "open", f = cur,
               child'[f] \notin {child[f], "exited"}
        PROVE  child[f] = "idle"
    <3>1. StartProcess \/ CallNextFile
      BY <1>2, <2>2
      DEF Controller, ImportFails, ImportAlgorithm, SharedMemInitFails, LoadCrashes,
          LoadDone, LoadFailed, AllStarted, JoinProcess, ChunkDone, ControllerCrashes,
          AllCalled, TallyCall, Interrupt, FinalizeAndReturn, FinalizeCrashes, callVars
    <3>2. pc \in {"start", "seq"} /\ cur \in Nat
      BY <3>1 DEF StartProcess, CallNextFile, Books, IInv, TypeOK
    <3> QED
      BY <2>2, <3>2 DEF Books, Frontier
  <2> QED
    BY <2>1, <2>2 DEF Stages, Complete, Loaded
<1>3. ASSUME NEW f \in Files, FileStep(f) \/ FileCrashes(f) PROVE Stages'
  BY <1>3, CallStages
<1> QED
  BY <1>1, <1>2, <1>3 DEF Next, Terminating

LEMMA StagesInvariant == Spec => []Stages
<1>1. Init => Stages
  BY DEF Init, Stages
<1> QED
  BY <1>1, StagesStep, BooksInvariant, PTL DEF Spec

-----------------------------------------------------------------------------
(* The run as a whole *)

\* With stop_on_error the sequential loop is left at the first error.
FirstError ==
  ~cfg.mp /\ cfg.stop =>
    /\ pc \in {"load", "seq"} => \A f \in Files : fate[f] # "error"
    /\ pc = "call" => \A f \in Files : fate[f] = "error" => f = cur
    /\ StopsOnError

\* In multi-processing every file up to the one that the controller is
\* starting, or up to the end of the chunk it is joining, has been handed to
\* a process, and a process that ended left a trace.
Handed ==
  cfg.mp =>
    /\ \A f \in Files : child[f] = "exited" => fate[f] # "none"
    /\ pc = "start" => \A f \in Files : f < cur => child[f] # "idle"
    /\ pc = "join"  => \A f \in Files : f < ChunkStart(chunk + 1) => child[f] # "idle"
    /\ pc = "finalize" \/ CompletedLoad =>
         cur = NFiles /\ \A f \in Files : child[f] # "idle"

\* In sequential processing at most the file at cur has been called and not
\* counted when the loop is left.
Called ==
  ~cfg.mp /\ pc \in {"finalize", "returned"} =>
    \A f \in Files : f > cur => child[f] = "idle"

\* What run_chain() returns, and when.
Report ==
  /\ pc = "load" => \A f \in Files : fate[f] = "none"
  /\ pc # "returned" => ret = NotReturned
  /\ CompletedLoad => ret.processed = num_files_processed

Outcome == Books /\ Stages /\ FirstError /\ Handed /\ Called /\ Report

\* The steps of a call.
LEMMA CallOutcome ==
  ASSUME Outcome, NEW f \in Files, FileStep(f) \/ FileCrashes(f)
  PROVE  FirstError' /\ Handed' /\ Called' /\ Report'
<1>0. /\ TypeOK /\ IInv /\ QueuesAgree /\ Frontier /\ FirstError /\ Handed /\ Called /\ Report
      /\ Where /\ Control
  BY DEF Outcome, Books, IInv
<1>1. /\ child[f] \in Active /\ child'[f] \in Active \cup {"exited"}
      /\ \A g \in Files \ {f} : child'[g] = child[g] /\ fate'[g] = fate[g]
      /\ pc' \in {pc, "dead"}
  BY <1>0, CallMovesOneFile
<1>2. /\ UNCHANGED <<cfg, ret, chunk, cur, nload, live, shmLive>>
      /\ num_files_processed' = num_files_processed
  BY <1>0, CallLeavesOthers
<1>3. child[f] # "idle" /\ child'[f] # "idle" /\ f \in Running
  BY <1>1 DEF Active, Running
<1>4. pc \notin {"load", "seq", "finalize", "returned"}
  BY <1>0, <1>3 DEF Where
<1>5. ~cfg.mp => pc = "call" /\ f = cur
  BY <1>0, <1>3, <1>4 DEF Where, Control, TypeOK, PCs
<1>6. child'[f] = "exited" => fate'[f] # "none"
  BY <1>0, <1>1
  DEF FileStep, FileCrashes, CallStep, OpenFile, AlgorithmOk, AlgorithmStops,
      AlgorithmRaises, WriteBreakpoint, FinishFile, FinalizeStopped, AndError, Return,
      TypeOK, Active, QueuesAgree
<1>7. FirstError'
  <2>1. CASE cfg.mp
    BY <2>1, <1>2 DEF FirstError
  <2>2. CASE ~cfg.mp
    <3>1. \A g \in Files : g > f => child'[g] = "idle"
      BY <2>2, <1>0, <1>1, <1>5, SizesAssumption DEF Frontier, Files
    <3>2. cfg.stop => \A g \in Files : fate'[g] = "error" => g = f
      BY <2>2, <1>0, <1>1, <1>5 DEF FirstError
    <3> QED
      BY <2>2, <3>1, <3>2, <1>1, <1>2, <1>4, <1>5 DEF FirstError, StopsOnError
  <2> QED
    BY <2>1, <2>2
<1>8. Handed'
  BY <1>0, <1>1, <1>2, <1>3, <1>4, <1>6
  DEF Handed, CompletedLoad, ChunkStart, NumChunks
<1>9. Called' /\ Report'
  BY <1>0, <1>1, <1>2, <1>4 DEF Called, Report, CompletedLoad
<1> QED
  BY <1>7, <1>8, <1>9

\* Loading the algorithms touches no file; when it fails run_chain() returns
\* with fewer algorithms than it was to load.
LEMMA LoadOutcome ==
  ASSUME Outcome,
         ImportFails \/ ImportAlgorithm \/ SharedMemInitFails \/ LoadCrashes \/ LoadDone
  PROVE  FirstError' /\ Handed' /\ Called' /\ Report'
<1>0. /\ TypeOK /\ IInv /\ QueuesAgree /\ Frontier /\ FirstError /\ Handed /\ Report /\ Control
  BY DEF Outcome, Books, IInv
<1>1. /\ UNCHANGED <<cfg, child, fate, cur, chunk>> /\ pc = "load" /\ cur = 0
      /\ pc' \in {"load", "returned", "dead", "start", "seq"}
      /\ pc' = "start" => cfg.mp
      /\ pc' # "returned" => UNCHANGED ret
  BY <1>0
  DEF ImportFails, ImportAlgorithm, SharedMemInitFails, LoadCrashes, LoadDone,
      LoadFailed, callVars, Control
<1>2. ~CompletedLoad'
  <2>1. CASE ImportFails \/ SharedMemInitFails
    <3>1. nload' = nload /\ nload < Loaded(cfg) /\ nload \in 0 .. Loaded(cfg)
      BY <2>1, <1>0 DEF ImportFails, SharedMemInitFails, loadVars, TypeOK
    <3>2. Loaded(cfg) \in Nat
      BY <1>0, LoadedType, SizesAssumption DEF TypeOK, Algs
    <3> QED
      BY <3>1, <3>2, <1>1 DEF CompletedLoad, Loaded
  <2>2. CASE ImportAlgorithm \/ LoadCrashes \/ LoadDone
    BY <2>2, <1>1 DEF ImportAlgorithm, LoadCrashes, LoadDone, CompletedLoad
  <2> QED
    BY <2>1, <2>2
<1>3. \A f \in Files : child[f] = "idle" /\ fate[f] = "none" /\ ~(f < cur)
  BY <1>0, <1>1, SizesAssumption DEF Frontier, QueuesAgree, Files
<1>4. FirstError' /\ Called'
  BY <1>1, <1>3 DEF FirstError, StopsOnError, Called
<1>5. Handed' /\ Report'
  BY <1>0, <1>1, <1>2, <1>3 DEF Handed, Report
<1> QED
  BY <1>4, <1>5

\* Starting, joining and the next chunk: a process is handed each file of a
\* chunk before the chunk is joined, and the last chunk ends at n_files.
LEMMA ChunkOutcome ==
  ASSUME Outcome,
         StartProcess \/ AllStarted \/ JoinProcess \/ ChunkDone \/ ControllerCrashes
  PROVE  FirstError' /\ Handed' /\ Called' /\ Report'
<1>0. TypeOK /\ Frontier /\ Handed /\ Report /\ Control
  BY DEF Outcome, Books, IInv
<1>1. /\ UNCHANGED <<cfg, fate, ret>> /\ pc \in {"start", "join"} /\ cfg.mp
      /\ pc' \notin {"load", "returned"}
      /\ chunk \in 0 .. (NumChunks - 1) /\ cur \in Nat /\ NumChunks \in Nat
      /\ cur >= ChunkStart(chunk) /\ cur <= ChunkStart(chunk + 1)
  BY <1>0, NumChunksFacts, ChunkBounds
  DEF StartProcess, AllStarted, JoinProcess, ChunkDone, ControllerCrashes, callVars,
      TypeOK, Control
<1>2. /\ ChunkStart(chunk) \in Nat /\ ChunkStart(chunk + 1) \in Nat
      /\ ChunkStart(NumChunks) = NFiles
  BY <1>1, ChunkBounds
<1>3. FirstError' /\ Called' /\ Report'
  BY <1>0, <1>1 DEF FirstError, Called, Report, CompletedLoad
<1>5. \A f \in Files : child'[f] = "exited" => fate'[f] # "none"
  BY <1>0, <1>1
  DEF StartProcess, AllStarted, JoinProcess, ChunkDone, ControllerCrashes, callVars,
      TypeOK, Handed
<1>6. CASE StartProcess
  <2>1. /\ child' = [child EXCEPT ![cur] = "open"] /\ cur' = cur + 1
        /\ pc = "start" /\ pc' = "start"
    BY <1>6 DEF StartProcess
  <2>2. \A f \in Files : f < cur + 1 => child'[f] # "idle"
    BY <2>1, <1>0, <1>1, SizesAssumption DEF Handed, TypeOK, Files
  <2> QED
    BY <2>1, <2>2, <1>3, <1>5 DEF Handed, CompletedLoad
<1>7. CASE AllStarted
  <2>1. cur = ChunkStart(chunk + 1)
    BY <1>1, <1>2, <1>7 DEF AllStarted, ChunkFiles
  <2>2. /\ pc = "start" /\ pc' = "join" /\ UNCHANGED <<child, chunk>>
    BY <1>7 DEF AllStarted, callVars
  <2> QED
    BY <2>1, <2>2, <1>0, <1>1, <1>3, <1>5
    DEF Handed, CompletedLoad, ChunkStart, NumChunks
<1>8. CASE JoinProcess
  <2>1. pc = "join" /\ pc' = "join" /\ UNCHANGED <<child, chunk>>
    BY <1>8 DEF JoinProcess
  <2> QED
    BY <2>1, <1>0, <1>1, <1>3, <1>5 DEF Handed, CompletedLoad, ChunkStart, NumChunks
<1>9. CASE ChunkDone
  <2>1. cur = ChunkStart(chunk + 1)
    BY <1>1, <1>2, <1>9 DEF ChunkDone, ChunkFiles
  <2>2. /\ pc = "join" /\ UNCHANGED <<child, cur>>
        /\ pc' = IF chunk + 1 < NumChunks THEN "start" ELSE "finalize"
    BY <1>9 DEF ChunkDone, callVars
  <2>3. \A f \in Files : f < cur => child[f] # "idle"
    BY <2>1, <2>2, <1>0, <1>1 DEF Handed
  <2>4. pc' = "finalize" => cur = NFiles /\ \A f \in Files : f < cur
    BY <2>1, <2>2, <1>1, <1>2, SizesAssumption DEF Files
  <2> QED
    BY <2>2, <2>3, <2>4, <1>3, <1>5 DEF Handed, CompletedLoad
<1>10. CASE ControllerCrashes
  BY <1>3, <1>5, <1>10 DEF ControllerCrashes, Handed, CompletedLoad
<1> QED
  BY <1>3, <1>6, <1>7, <1>8, <1>9, <1>10

\* The sequential loop: it goes on only if the file just counted did not end
\* in an error, or if stop_on_error is off.
LEMMA SequentialOutcome ==
  ASSUME Outcome, CallNextFile \/ AllCalled \/ TallyCall \/ Interrupt
  PROVE  FirstError' /\ Handed' /\ Called' /\ Report'
<1>0. TypeOK /\ IInv /\ Frontier /\ QueuesAgree /\ FirstError /\ Report /\ Control
  BY DEF Outcome, Books, IInv
<1>1. /\ UNCHANGED <<cfg, fate, ret>> /\ pc \in {"seq", "call"} /\ ~cfg.mp
      /\ pc' \notin {"load", "returned"} /\ cur \in Nat /\ Files \subseteq Nat
  BY <1>0, SizesAssumption
  DEF CallNextFile, AllCalled, TallyCall, Interrupt, callVars, TypeOK, Control, Files
<1>2. Handed' /\ Report'
  BY <1>0, <1>1 DEF Handed, Report, CompletedLoad
<1>3. CASE CallNextFile
  <2>1. /\ pc = "seq" /\ pc' = "call" /\ cur' = cur
        /\ child' = [child EXCEPT ![cur] = "open"]
    BY <1>3 DEF CallNextFile
  <2> QED
    BY <2>1, <1>0, <1>1, <1>2 DEF FirstError, StopsOnError, Called
<1>4. CASE AllCalled
  <2>1. pc = "seq" /\ pc' = "finalize" /\ UNCHANGED <<child, cur>>
    BY <1>4 DEF AllCalled, callVars
  <2> QED
    BY <2>1, <1>0, <1>1, <1>2 DEF FirstError, StopsOnError, Called, Frontier
<1>5. CASE TallyCall
  <2>1. /\ pc = "call" /\ child' = child /\ cur' = cur + 1
        /\ pc' = IF rvq[cur] = "error" /\ cfg.stop THEN "finalize" ELSE "seq"
    BY <1>5 DEF TallyCall
  <2>2. cur \in Files /\ cur \notin Tallied
    BY <2>1, <1>0, <1>1, SizesAssumption DEF Control, Files, Tallied, TypeOK
  <2>3. fate[cur] = "error" => rvq[cur] = "error"
    BY <2>1, <2>2, <1>0 DEF QueuesAgree, Queued, Results
  <2>4. Called'
    BY <2>1, <1>0, <1>1 DEF Called, Frontier
  <2>5. FirstError'
    BY <2>1, <2>2, <2>3, <1>0, <1>1 DEF FirstError, StopsOnError
  <2> QED
    BY <2>4, <2>5, <1>2
<1>6. CASE Interrupt
  <2>1. /\ pc' = "finalize" /\ cur' = cur
        /\ \A f \in Files : child[f] = "idle" => child'[f] = "idle"
    BY <1>6 DEF Interrupt
  <2> QED
    BY <2>1, <1>0, <1>1, <1>2 DEF FirstError, StopsOnError, Called, Frontier
<1> QED
  BY <1>3, <1>4, <1>5, <1>6, <1>2

\* The end of run_chain().
LEMMA FinalOutcome ==
  ASSUME Outcome, FinalizeAndReturn \/ FinalizeCrashes
  PROVE  FirstError' /\ Handed' /\ Called' /\ Report'
<1>0. TypeOK /\ FirstError /\ Handed /\ Called /\ Report
  BY DEF Outcome, Books, IInv
<1>1. /\ UNCHANGED <<cfg, fate, child, cur, chunk>> /\ pc = "finalize"
      /\ num_files_processed' = num_files_processed
      /\ pc' \in {"returned", "dead"}
      /\ pc' = "dead" => UNCHANGED ret
      /\ pc' = "returned" => /\ live' = {} /\ shmLive' = {}
                             /\ ret'.processed = num_files_processed
  BY DEF FinalizeAndReturn, FinalizeCrashes, callVars, tallyVars
<1>2. FirstError' /\ Called'
  BY <1>0, <1>1 DEF FirstError, StopsOnError, Called
<1>3. Handed' /\ Report'
  BY <1>0, <1>1 DEF Handed, Report, CompletedLoad
<1> QED
  BY <1>2, <1>3

LEMMA NextOutcome == Outcome /\ [Next]_vars => Outcome'
<1> SUFFICES ASSUME Outcome, [Next]_vars PROVE Outcome'
  OBVIOUS
<1>1. Books' /\ Stages'
  BY NextBooks, StagesStep DEF Outcome
<1>2. CASE UNCHANGED vars
  BY <1>1, <1>2
  DEF Outcome, FirstError, StopsOnError, Handed, Called, Report, CompletedLoad, Loaded,
      ChunkStart, NumChunks, vars, callVars, tallyVars, loadVars
<1>3. ASSUME NEW f \in Files, FileStep(f) \/ FileCrashes(f)
      PROVE  FirstError' /\ Handed' /\ Called' /\ Report'
  BY <1>3, CallOutcome
<1>4. CASE Controller \/ Interrupt \/ ControllerCrashes
  BY <1>1, <1>4, LoadOutcome, ChunkOutcome, SequentialOutcome, FinalOutcome
  DEF Controller, Outcome
<1> QED
  BY <1>1, <1>2, <1>3, <1>4 DEF Next, Terminating, Outcome

LEMMA OutcomeInvariant == Spec => []Outcome
<1>1. Init => Outcome
  <2> SUFFICES ASSUME Init PROVE Outcome
    OBVIOUS
  <2>1. Books
    BY InitBooks
  <2>2. Stages /\ FirstError /\ Handed /\ Called /\ Report
    BY DEF Init, Stages, FirstError, StopsOnError, Handed, Called, Report, CompletedLoad
  <2> QED
    BY <2>1, <2>2 DEF Outcome
<1> QED
  BY <1>1, NextOutcome, PTL DEF Spec

-----------------------------------------------------------------------------
(* Theorems *)

\* run_chain() reports a file as a success only when every algorithm up to
\* the breakpoint ran on it and the breakpoint file, if asked for, exists.
THEOREM SuccessMeansComplete == Spec => []SuccessIsComplete
<1>1. Stages => SuccessIsComplete
  BY DEF Stages, Complete, SuccessIsComplete
<1> QED
  BY <1>1, StagesInvariant, PTL

\* With stop_on_error no file behind the first error is ever opened.
THEOREM NothingAfterAnError == Spec => []StopsOnError
<1>1. Outcome => StopsOnError
  BY DEF Outcome, FirstError, StopsOnError
<1> QED
  BY <1>1, OutcomeInvariant, PTL

\* In multi-processing the only files missing from num_files_processed are
\* those whose process died without queueing a result, and the only ones
\* counted twice are those whose finalize(stage=5) raised.
THEOREM ProcessesAccountedFor == Spec => []MpAccounted
<1>1. Outcome => MpAccounted
  <2> DEFINE lost  == {f \in Files : fate[f] = "lost"}
             twice == {f \in Files : fate[f] \in Twice}
  <2> SUFFICES ASSUME Outcome, CompletedLoad, cfg.mp
               PROVE  /\ \A f \in Files : child[f] = "exited" /\ fate[f] # "none"
                      /\ ret.processed = NFiles - Cardinality(lost)
                                                 + Cardinality(twice)
    BY DEF MpAccounted
  <2>1. /\ TypeOK /\ pc = "returned" /\ cur = NFiles /\ IInv
        /\ \A f \in Files : child[f] # "idle"
        /\ \A f \in Files : child[f] = "exited" => fate[f] # "none"
    BY DEF Outcome, Books, IInv, CompletedLoad, Handed
  <2>2. \A f \in Files : child[f] = "exited" /\ fate[f] # "none"
    <3>1. Running = {}
      BY <2>1 DEF IInv, Where
    <3> QED
      BY <2>1, <3>1 DEF Running, TypeOK
  <2>3. NFiles \in Nat /\ Tallied = Files
    BY <2>1, SizesAssumption DEF Tallied, Files
  <2>4. IsFiniteSet(Files) /\ Cardinality(Files) = NFiles
    BY <2>3, FS_Interval, SizesAssumption DEF Files
  <2>5. WithFate(Queued) = Files \ lost /\ WithFate(Twice) = twice
    BY <2>1, <2>2, <2>3 DEF WithFate, TypeOK, Fates, Queued, Twice, Results
  <2>6. Cardinality(Files \ lost) = Cardinality(Files) - Cardinality(Files \cap lost)
    BY <2>4, FS_Difference
  <2>7. Files \cap lost = lost
    OBVIOUS
  <2>8. /\ ret.processed = Cardinality(WithFate(Queued)) + Cardinality(WithFate(Twice))
        /\ Cardinality(WithFate(Queued)) \in Nat /\ Cardinality(WithFate(Twice)) \in Nat
    BY <2>1, WithFateFinite DEF Outcome, Books, Report, TallyExact, CutLate, One
  <2>9. Cardinality(lost) \in Nat
    BY <2>4, FS_Subset, FS_CardinalityType
  <2> QED
    BY <2>2, <2>3, <2>4, <2>5, <2>6, <2>7, <2>8, <2>9
<1> QED
  BY <1>1, OutcomeInvariant, PTL

-----------------------------------------------------------------------------
(* The refinement of ChainLedger *)

\* As long as run_chain() has not returned there is no report in the ledger.
LEMMA NoReportYet ==
  ASSUME Outcome, pc # "returned"
  PROVE  [ok |-> ret.ok, errors |-> ret.errors, processed |-> ret.processed,
          skipped |-> ret.skipped] = Ledger!NoReport
<1>1. ret.ok = FALSE /\ ret.errors = -1 /\ ret.processed = -1 /\ ret.skipped = -1
  BY DEF Outcome, Report, NotReturned
<1> QED
  BY <1>1 DEF Ledger!NoReport

\* The ledger counts with the same operator.
LEMMA LedgerCardinality == \A S : Ledger!Cardinality(S) = Cardinality(S)
  BY DEF Cardinality, Ledger!Cardinality

\* The end of a call settles its file; any other step of a call stutters.
LEMMA CallSettles ==
  ASSUME Outcome, NEW f \in Files, FileStep(f) \/ FileCrashes(f)
  PROVE  Ledger!Settle(f) \/ UNCHANGED <<fate, ret>>
<1>1. /\ TypeOK /\ QueuesAgree /\ Where
  BY DEF Outcome, Books, IInv
<1>2. child[f] \in Active /\ f \in Running
  BY <1>1, CallMovesOneFile DEF Running
<1>3. fate[f] = "none" /\ pc # "returned"
  BY <1>1, <1>2 DEF QueuesAgree, Active, Where
<1>4. ret' = ret
  BY <1>1, CallLeavesOthers
<1>5. \/ fate' = fate
      \/ \E q \in Queued \cup {"lost"} : fate' = [fate EXCEPT ![f] = q]
  <2>1. CASE FileStep(f)
    BY <2>1, <1>1
    DEF FileStep, CallStep, OpenFile, AlgorithmOk, AlgorithmStops, AlgorithmRaises,
        WriteBreakpoint, FinishFile, FinalizeStopped, AndError, Return, Results, Queued,
        Twice, QueuesAgree
  <2>2. CASE FileCrashes(f)
    BY <2>2, <1>1 DEF FileCrashes, QueuesAgree, Queued, Results
  <2> QED
    BY <2>1, <2>2
<1> QED
  BY <1>3, <1>4, <1>5, NoReportYet DEF Ledger!Settle, Ledger!Results, Ledger!Twice, Queued, Twice, Results

\* A load that fails refuses the run before any file is touched, unless the
\* clean-up raises as well.
LEMMA LoadRefuses ==
  ASSUME Outcome, ImportFails \/ SharedMemInitFails
  PROVE  Ledger!Refuse \/ UNCHANGED <<fate, ret>>
<1>1. /\ pc = "load" /\ UNCHANGED fate
      /\ \/ UNCHANGED ret
         \/ ret' = [ok |-> FALSE, errors |-> 1, processed |-> 0, skipped |-> 0, bp |-> bpName]
  BY DEF ImportFails, SharedMemInitFails, LoadFailed, callVars
<1>2. \A f \in Files : fate[f] = "none"
  BY <1>1 DEF Outcome, Report
<1>3. ASSUME ret' = [ok |-> FALSE, errors |-> 1, processed |-> 0, skipped |-> 0, bp |-> bpName]
      PROVE  Ledger!Refuse
  BY <1>1, <1>2, <1>3, NoReportYet DEF Ledger!Refuse, Ledger!Refused
<1> QED
  BY <1>1, <1>3

\* run_chain() closes the ledger with a report on the files it looked at: all
\* that are settled, except the one that Ctrl-C caught between its end and
\* its last counter.
LEMMA ReturnCloses ==
  ASSUME Outcome, FinalizeAndReturn
  PROVE  Ledger!Close
<1>0. /\ TypeOK /\ IInv /\ QueuesAgree /\ CutLate /\ TallyExact /\ Handed /\ Called
  BY DEF Outcome, Books, IInv
<1>1. /\ pc = "finalize" /\ UNCHANGED fate
      /\ ret' = [ok |-> ~(num_errors > 0), errors |-> num_errors,
                 processed |-> num_files_processed, skipped |-> num_skipped,
                 bp |-> bpName]
  BY DEF FinalizeAndReturn, callVars
<1> DEFINE settled == {f \in Files : fate[f] # "none"}
           S == Tallied \cap settled
           Those(R) == {f \in S : fate[f] \in R}
           Bad == {"error"} \cup Twice
<1>2. Tallied = 0 .. (cur - 1) /\ Tallied \subseteq Files /\ cur \in Nat /\ Files \subseteq Nat
  BY <1>0, <1>1, WithFateFinite, SizesAssumption DEF Tallied, TypeOK, Files
<1>3. settled \ S \subseteq {cur}
  <2> SUFFICES ASSUME NEW f \in Files, fate[f] # "none", f \notin 0 .. (cur - 1)
               PROVE  f = cur
    BY <1>2
  <2>1. f \in Nat /\ f >= cur /\ child[f] = "exited"
    BY <1>0, <1>2 DEF QueuesAgree
  <2>2. CASE cfg.mp
    BY <2>1, <2>2, <1>0, <1>1, SizesAssumption DEF Handed, Files
  <2>3. CASE ~cfg.mp
    BY <2>1, <2>3, <1>0, <1>1, <1>2 DEF Called
  <2> QED
    BY <2>2, <2>3
<1>4. Cardinality(settled \ S) <= 1
  <2>1. IsFiniteSet({cur}) /\ Cardinality({cur}) = 1
    BY FS_Singleton
  <2>2. /\ IsFiniteSet(settled \ S)
        /\ Cardinality(settled \ S) <= Cardinality({cur})
    BY <1>3, <2>1, FS_Subset
  <2> QED
    BY <2>1, <2>2
<1>5. /\ WithFate(Bad) = Those(Bad) /\ WithFate({"error_error"}) = Those({"error_error"})
      /\ WithFate({"skip", "skip_error"}) = Those({"skip", "skip_error"})
      /\ WithFate(Queued) = Those(Queued) /\ WithFate(Twice) = Those(Twice)
  BY <1>2 DEF WithFate, Results, Queued, Twice
<1>6. /\ num_errors = Cardinality(Those(Bad)) + Cardinality(Those({"error_error"}))
      /\ num_skipped = Cardinality(Those({"skip", "skip_error"}))
      /\ num_files_processed = Cardinality(Those(Queued)) + Cardinality(Those(Twice)) + One(cut)
      /\ Cardinality(Those(Bad)) \in Nat /\ Cardinality(Those({"error_error"})) \in Nat
      /\ Cardinality(Those(Queued)) + Cardinality(Those(Twice)) \in Nat
  <2>1. \A R : Cardinality(WithFate(R)) \in Nat
    BY <1>0, WithFateFinite
  <2>2. /\ num_errors = Cardinality(WithFate(Bad)) + Cardinality(WithFate({"error_error"}))
        /\ num_skipped = Cardinality(WithFate({"skip", "skip_error"}))
        /\ num_files_processed = Cardinality(WithFate(Queued))
                                 + Cardinality(WithFate(Twice)) + One(cut)
    BY <1>0, <1>1 DEF TallyExact
  <2> HIDE DEF Those, Bad
  <2> QED
    BY <1>5, <2>1, <2>2
<1>7. ~(num_errors > 0) <=> Those(Bad) = {}
  <2>1. IsFiniteSet(WithFate(Bad)) /\ IsFiniteSet(WithFate({"error_error"}))
    BY <1>0, WithFateFinite
  <2>2. Cardinality(Those(Bad)) = 0 <=> Those(Bad) = {}
    BY <2>1, <1>5, FS_EmptySet
  <2>3. Those(Bad) = {} => Cardinality(Those({"error_error"})) = 0
    <3>1. Those({"error_error"}) \subseteq Those(Bad)
      BY DEF Twice
    <3> QED
      BY <3>1, FS_EmptySet
  <2> QED
    BY <2>2, <2>3, <1>6
<1>8. /\ ret'.ok = (Those(Bad) = {})
      /\ ret'.errors = Cardinality(Those(Bad)) + Cardinality(Those({"error_error"}))
      /\ ret'.processed = Cardinality(Those(Queued)) + Cardinality(Those(Twice)) + One(cut)
      /\ ret'.skipped = Cardinality(Those({"skip", "skip_error"}))
  BY <1>1, <1>6, <1>7
<1>9. Ledger!ReportOf(S) =
        [ok |-> Those(Bad) = {},
         errors |-> Cardinality(Those(Bad)) + Cardinality(Those({"error_error"})),
         processed |-> Cardinality(Those(Queued)) + Cardinality(Those(Twice)),
         skipped |-> Cardinality(Those({"skip", "skip_error"}))]
  <2> HIDE DEF S
  <2> QED
    BY LedgerCardinality DEF Ledger!ReportOf, Ledger!Results, Ledger!Twice, Queued, Twice, Results
<1>10. cut => S # settled
  BY <1>0, <1>2 DEF CutLate
<1>11. S \in SUBSET settled
  OBVIOUS
<1> DEFINE report == [ok |-> ret.ok, errors |-> ret.errors, processed |-> ret.processed,
                      skipped |-> ret.skipped]
<1>12. \/ report' = Ledger!ReportOf(S)
       \/ S # settled /\ report' = [Ledger!ReportOf(S) EXCEPT !.processed = @ + 1]
  <2> HIDE DEF S, settled, Those, Bad
  <2>1. CASE cut
    <3>1. One(cut) = 1
      BY <2>1 DEF One
    <3> QED
      BY <2>1, <3>1, <1>8, <1>9, <1>10
  <2>2. CASE ~cut
    <3>1. One(cut) = 0
      BY <2>2 DEF One
    <3> QED
      BY <3>1, <1>6, <1>8, <1>9
  <2> QED
    BY <2>1, <2>2
<1> HIDE DEF S, Those, Bad
<1> QED
  BY <1>1, <1>4, <1>11, <1>12, NoReportYet, LedgerCardinality DEF Ledger!Close

\* Every step of run_chain() and of its processes is a step of the ledger or
\* leaves it alone.
LEMMA LedgerStep ==
  Outcome /\ [Next]_vars =>
    [Ledger!Next]_<<fate, [ok |-> ret.ok, errors |-> ret.errors,
                           processed |-> ret.processed, skipped |-> ret.skipped]>>
<1> SUFFICES ASSUME Outcome, [Next]_vars
             PROVE  Ledger!Next \/ UNCHANGED <<fate, ret>>
  OBVIOUS
<1>1. ASSUME NEW f \in Files, FileStep(f) \/ FileCrashes(f)
      PROVE  Ledger!Next \/ UNCHANGED <<fate, ret>>
  BY <1>1, CallSettles DEF Ledger!Next
<1>2. CASE ImportFails \/ SharedMemInitFails
  BY <1>2, LoadRefuses DEF Ledger!Next
<1>3. CASE FinalizeAndReturn
  BY <1>3, ReturnCloses DEF Ledger!Next
<1>4. CASE \/ ImportAlgorithm \/ LoadCrashes \/ LoadDone
           \/ StartProcess \/ AllStarted \/ JoinProcess \/ ChunkDone
           \/ CallNextFile \/ AllCalled \/ TallyCall \/ FinalizeCrashes
           \/ Interrupt \/ ControllerCrashes \/ UNCHANGED vars
  BY <1>4
  DEF ImportAlgorithm, LoadCrashes, LoadDone, StartProcess, AllStarted, JoinProcess,
      ChunkDone, CallNextFile, AllCalled, TallyCall, FinalizeCrashes, Interrupt,
      ControllerCrashes, vars, callVars
<1> QED
  BY <1>1, <1>2, <1>3, <1>4 DEF Next, Controller, Terminating

\* run_chain(), with its chunks, processes, queues, crashes and Ctrl-C,
\* implements the ledger: each file is settled once, the report counts what
\* really happened, and nothing happens after it.
THEOREM ImplementsLedger == Spec => KeepsLedger
<1>1. Init => Ledger!Init
  BY DEF Init, Ledger!Init, Ledger!NoReport, NotReturned
<1> QED
  BY <1>1, LedgerStep, OutcomeInvariant, PTL DEF Spec, KeepsLedger, Ledger!Spec
-----------------------------------------------------------------------------
(* main(): sets of numbers and lists *)

\* A set of numbers up to a bound has a largest one.
LEMMA MaxFacts ==
  ASSUME NEW n \in Nat, NEW S \in SUBSET (0..n), S # {}
  PROVE  Max(S) \in S /\ \A x \in S : x <= Max(S)
<1> DEFINE D == {d \in Nat : n - d \in S}
           R == OpToRel(<, Nat)
<1>1. D \in SUBSET Nat /\ D # {}
  <2>1. PICK x \in S : TRUE
    OBVIOUS
  <2>2. n - x \in Nat /\ n - (n - x) = x
    OBVIOUS
  <2> QED BY <2>1, <2>2
<1>2. \E d \in D : \A e \in D : <<e, d>> \notin R
  <2> HIDE DEF D, R
  <2>1. IsWellFoundedOn(R, Nat)
    BY NatLessThanWellFounded DEF R
  <2> QED BY <1>1, <2>1, WFMin, Zenon
<1>3. PICK d \in D : \A e \in D : ~(e < d)
  BY <1>2 DEF OpToRel
<1>4. n - d \in S /\ d \in Nat
  BY <1>3
<1>5. ASSUME NEW x \in S PROVE n - d >= x
  <2>1. n - x \in Nat /\ n - (n - x) = x /\ x \in Nat
    OBVIOUS
  <2>2. n - x \in D
    BY <2>1
  <2>3. ~(n - x < d)
    BY <1>3, <2>2
  <2> QED BY <1>4, <2>1, <2>3
<1>6. \E m \in S : \A x \in S : m >= x
  BY <1>4, <1>5
<1>7. Max(S) \in S /\ \A x \in S : Max(S) >= x
  BY <1>6 DEF Max
<1> QED BY <1>7

\* list.remove(): the elements behind the one at k move up by one place.
LEMMA RemoveAtFacts ==
  ASSUME NEW T, NEW s \in Seq(T), NEW k \in 1..Len(s)
  PROVE  /\ RemoveAt(s, k) \in Seq(T)
         /\ Len(RemoveAt(s, k)) = Len(s) - 1
         /\ \A j \in 1..Len(s) - 1 : RemoveAt(s, k)[j] = IF j < k THEN s[j] ELSE s[j + 1]
<1> DEFINE a == SubSeq(s, 1, k - 1)
           b == SubSeq(s, k + 1, Len(s))
<1>1. Len(s) \in Nat /\ k \in Nat \ {0} /\ k <= Len(s)
  BY LenProperties
<1>2. /\ a \in Seq(T) /\ Len(a) = k - 1
      /\ \A j \in 1..k - 1 : a[j] = s[j]
  BY <1>1
<1>3. /\ b \in Seq(T) /\ Len(b) = Len(s) - k
      /\ \A j \in 1..Len(s) - k : b[j] = s[k + j]
  BY <1>1
<1>4. RemoveAt(s, k) = a \o b
  BY DEF RemoveAt
<1> HIDE DEF a, b
<1>5. a \o b \in Seq(T) /\ Len(a \o b) = Len(s) - 1
  <2>1. Len(a \o b) = Len(a) + Len(b) /\ a \o b \in Seq(T)
    BY <1>2, <1>3, ConcatProperties
  <2> QED BY <2>1, <1>1, <1>2, <1>3
<1>6. ASSUME NEW j \in 1..Len(s) - 1
      PROVE  (a \o b)[j] = IF j < k THEN s[j] ELSE s[j + 1]
  <2>1. j \in 1..(Len(a) + Len(b)) /\ j \in Nat
    BY <1>1, <1>2, <1>3
  <2>2. (a \o b)[j] = IF j <= Len(a) THEN a[j] ELSE b[j - Len(a)]
    BY <2>1, <1>2, <1>3
  <2>3. CASE j < k
    BY <2>1, <2>2, <2>3, <1>1, <1>2
  <2>4. CASE ~(j < k)
    <3>1. j - Len(a) \in 1..Len(s) - k /\ k + (j - Len(a)) = j + 1
      BY <2>1, <2>4, <1>1, <1>2, <1>3
    <3>2. b[j - Len(a)] = s[k + (j - Len(a))]
      BY <3>1, <1>3
    <3> QED BY <3>1, <3>2, <2>2, <2>4, <1>1, <1>2
  <2> QED BY <2>3, <2>4
<1> QED BY <1>4, <1>5, <1>6

\* Removing an element adds none.
LEMMA RemovedFrom ==
  ASSUME NEW T, NEW s \in Seq(T), NEW k \in 1..Len(s)
  PROVE  ToSet(RemoveAt(s, k)) \subseteq ToSet(s)
<1> DEFINE r == RemoveAt(s, k)
<1>1. /\ r \in Seq(T) /\ Len(r) = Len(s) - 1 /\ Len(s) \in Nat
      /\ \A j \in 1..Len(s) - 1 : r[j] = IF j < k THEN s[j] ELSE s[j + 1]
  BY RemoveAtFacts, LenProperties
<1> HIDE DEF r
<1>2. DOMAIN r = 1..Len(s) - 1 /\ DOMAIN s = 1..Len(s)
  BY <1>1, LenProperties
<1>3. ASSUME NEW j \in 1..Len(s) - 1 PROVE \E m \in 1..Len(s) : r[j] = s[m]
  BY <1>1
<1>4. ToSet(r) \subseteq ToSet(s)
  BY <1>2, <1>3, Zenon DEF ToSet
<1> QED BY <1>4 DEF r
-----------------------------------------------------------------------------
(* Types *)

TInv ==
    /\ MainTypeOK
    /\ args \in CommandLines /\ install \in Installations
    /\ opt \in Nat /\ index \in Nat \ {0}
    /\ algorithm_list \in Seq(Text) /\ Len(algorithm_list) <= Len(install.entries)
    /\ finder_list \in Seq(Text) /\ Len(finder_list) <= Len(install.finders)
    /\ step = "select" => index = 1
    /\ step = "find" => index <= Len(finder_list) + 1

\* What StartupAssumption says of the command line and the installation at
\* hand.
LEMMA GivenFacts ==
  ASSUME args \in CommandLines, install \in Installations
  PROVE  /\ args.baseline \in Int /\ args.version \in Int /\ args.max_files \in Int
         /\ args.conf_opts \in Seq(Seq(Text))
         /\ \A k \in DOMAIN args.conf_opts : args.conf_opts[k] # <<>>
         /\ Len(args.conf_opts) \in Nat
         /\ install.configs \subseteq FileNames /\ install.lists \subseteq FileNames
         /\ Settings(install.main) /\ \A f \in install.configs : Settings(install.content[f])
         /\ {SharedMemory, MaxProcesses} \subseteq DOMAIN install.main
         /\ ModuleList(install.entries) /\ ModuleList(install.finders)
         /\ Len(install.entries) \in Nat /\ Len(install.finders) \in Nat
         /\ IsFiniteSet(install.archive)
         /\ \A f \in install.archive : f.month \in 1..12
<1>1. /\ args.baseline \in Int /\ args.version \in Int /\ args.max_files \in Int
      /\ args.conf_opts \in Seq(Seq(Text))
      /\ \A k \in DOMAIN args.conf_opts : args.conf_opts[k] # <<>>
  BY StartupAssumption
<1>2. Len(args.conf_opts) \in Nat
  BY <1>1, LenProperties
<1>3. /\ install.configs \subseteq FileNames /\ install.lists \subseteq FileNames
      /\ Settings(install.main) /\ \A f \in install.configs : Settings(install.content[f])
      /\ {SharedMemory, MaxProcesses} \subseteq DOMAIN install.main
      /\ ModuleList(install.entries) /\ ModuleList(install.finders)
      /\ IsFiniteSet(install.archive)
      /\ \A f \in install.archive : f.month \in 1..12
  BY StartupAssumption, Zenon
<1>4. Len(install.entries) \in Nat /\ Len(install.finders) \in Nat
  <2>1. /\ install.entries \in Seq([name : Text, value : Text])
        /\ install.finders \in Seq([name : Text, value : Text])
    BY <1>3, Zenon DEF ModuleList
  <2> QED BY <2>1, LenProperties
<1> QED BY <1>1, <1>2, <1>3, <1>4, Zenon

\* The empty list has no elements, and no settings.
LEMMA EmptyFacts ==
  /\ <<>> \in Seq(Text) /\ Len(<<>>) = 0
  /\ ToSet(<<>>) = {} /\ Settings(<<>>)
  BY DEF ToSet, Settings

\* The names of a list in a file.
LEMMA NamesFacts ==
  ASSUME NEW entries, ModuleList(entries)
  PROVE  LET names == [k \in DOMAIN entries |-> entries[k].name]
         IN  /\ names \in Seq(Text) /\ Len(names) = Len(entries)
             /\ DOMAIN entries = 1..Len(entries) /\ Len(entries) \in Nat
             /\ ToSet(names) = {e.name : e \in ToSet(entries)}
<1> DEFINE names == [k \in DOMAIN entries |-> entries[k].name]
<1>1. entries \in Seq([name : Text, value : Text])
  BY DEF ModuleList
<1>2. DOMAIN entries = 1..Len(entries) /\ Len(entries) \in Nat
  BY <1>1, LenProperties
<1>3. ASSUME NEW k \in 1..Len(entries) PROVE entries[k].name \in Text
  <2>1. entries[k] \in [name : Text, value : Text]
    BY <1>1, <1>2, ElementOfSeq
  <2> HIDE DEF names
  <2> DEFINE e == entries[k]
  <2>2. e \in [name : Text, value : Text]
    BY <2>1
  <2> HIDE DEF e
  <2>3. e.name \in Text
    BY <2>2
  <2> QED BY <2>3 DEF e
<1>4. names \in Seq(Text) /\ Len(names) = Len(entries)
  BY <1>2, <1>3
<1>5. ToSet(names) = {e.name : e \in ToSet(entries)}
  BY <1>2, Zenon DEF ToSet
<1> QED BY <1>2, <1>4, <1>5

\* Setting a value in a configuration, or removing a section from it, leaves
\* a configuration.
LEMMA SettingsFacts ==
  ASSUME NEW c, Settings(c)
  PROVE  /\ \A path, v :
              Len(path) \in 1..2 /\ v.type \in {"bool", "int", "str"} => Settings(With(c, path, v))
         /\ \A ps : Settings([p \in {q \in DOMAIN c : q \in ps} |-> c[p]])
         /\ \A d : Settings(d) => Settings(Merged(c, d))
  BY DEF Settings, With, Merged

\* sys.exit() and an uncaught exception end the program and change nothing.
LEMMA StopTypes ==
  ASSUME TInv, NEW o \in {"exit", "crash"}, Stop(o)
  PROVE  TInv'
<1>1. /\ step' = "end" /\ outcome' = o
      /\ UNCHANGED <<args, install, chainFile, config, opt, algorithm_list, finder_list, index,
                     runBreakpoint>>
  BY DEF Stop, listVars
<1>2. Settings(config)' = Settings(config)
  BY <1>1 DEF Settings
<1>3. MainTypeOK'
  BY <1>1, <1>2 DEF TInv, MainTypeOK
<1> QED BY <1>1, <1>3 DEF TInv

\* A step that only goes on to the next part.
LEMMA GoTypes ==
  ASSUME TInv, step # "end", NEW label, Goto(label),
         label \in {"find_config", "read_config", "check", "apply", "options", "find_list",
                   "find", "limit", "call"},
         label # "read_config" =>
           chainFile' = chainFile /\ chainFile \in install.configs \cup {args.conf, NoName},
         Settings(config'), opt' \in 1..Len(args.conf_opts) + 1,
         index' \in Nat \ {0}, index' \in 1..Len(install.entries) + Len(install.finders) + 1,
         label = "find" => index' <= Len(finder_list) + 1,
         UNCHANGED <<algorithm_list, finder_list, runBreakpoint>>
  PROVE  TInv'
<1>1. UNCHANGED <<args, install, outcome>> /\ step' = label
  BY DEF Goto
<1>3. opt' \in Nat
  BY GivenFacts DEF TInv
<1>5. Settings(config)'
  BY DEF Settings
<1>6. outcome' \in {"none", "exit", "crash", "run"} /\ (outcome' = "none" <=> step' # "end")
  BY <1>1 DEF TInv, MainTypeOK
<1>7. chainFile' \in install'.configs \cup {args'.conf, NoName} \/ step' \in {"read_config", "end"}
  BY <1>1 DEF TInv, MainTypeOK
<1>8. /\ ToSet(algorithm_list') \subseteq {e.name : e \in ToSet(install'.entries)}
      /\ ToSet(finder_list') \subseteq {e.name : e \in ToSet(install'.finders)}
      /\ runBreakpoint' \in {Empty, args'.breakpoint_after}
  BY <1>1 DEF TInv, MainTypeOK
<1>9. MainTypeOK'
  BY <1>1, <1>5, <1>6, <1>7, <1>8 DEF MainTypeOK
<1> QED BY <1>1, <1>3, <1>9 DEF TInv

\* The configuration after the switches of the command line.
LEMMA SwitchedSettings ==
  ASSUME Settings(config)
  PROVE  Settings(Switched)
<1> DEFINE mp == IF args.multiprocessing THEN With(config, MultiProcessing, Bool(TRUE)) ELSE config
           sp == IF args.sequentialprocessing THEN With(mp, MultiProcessing, Bool(FALSE)) ELSE mp
           sm == IF args.sharedmem THEN With(sp, SharedMemory, Bool(TRUE)) ELSE sp
           np == IF args.nprocs # 0 THEN With(sm, MaxProcesses, Num(args.nprocs)) ELSE sm
<1>1. /\ Len(MultiProcessing) \in 1..2
      /\ Len(SharedMemory) \in 1..2
      /\ Len(MaxProcesses) \in 1..2
      /\ Len(StopOnError) \in 1..2
  BY DEF MultiProcessing, SharedMemory, MaxProcesses, StopOnError
<1>2. /\ Bool(TRUE).type \in {"bool", "int", "str"}
      /\ Bool(FALSE).type \in {"bool", "int", "str"}
      /\ Num(args.nprocs).type \in {"bool", "int", "str"}
  BY DEF Bool, Num
<1>3. Settings(mp)
  BY <1>1, <1>2, SettingsFacts, Zenon
<1> HIDE DEF mp
<1>4. Settings(sp)
  BY <1>1, <1>2, <1>3, SettingsFacts, Zenon
<1> HIDE DEF sp
<1>5. Settings(sm)
  BY <1>1, <1>2, <1>4, SettingsFacts, Zenon
<1> HIDE DEF sm
<1>6. Settings(np)
  BY <1>1, <1>2, <1>5, SettingsFacts, Zenon
<1> HIDE DEF np
<1>7. Settings(IF args.stop_on_error THEN With(np, StopOnError, Bool(TRUE)) ELSE np)
  BY <1>1, <1>2, <1>6, SettingsFacts, Zenon
<1> QED BY <1>7, Zenon DEF Switched, mp, sp, sm, np

\* All but the last element of a sequence.
LEMMA FrontFacts ==
  ASSUME NEW T, NEW s \in Seq(T), s # <<>>
  PROVE  /\ Len(s) \in Nat \ {0}
         /\ Len(Front(s)) = Len(s) - 1
<1>1. Len(s) \in Nat \ {0}
  BY EmptySeq, LenProperties
<1>2. ASSUME NEW n \in Nat, n <= Len(s)
      PROVE  Len(SubSeq(s, 1, n)) = n
  BY <1>1, <1>2
<1>3. Len(s) - 1 \in Nat /\ Len(s) - 1 <= Len(s)
  BY <1>1
<1> QED BY <1>1, <1>2, <1>3, Zenon DEF Front

\* An option of --conf_opts: the path it names and the value it gives.
LEMMA OptionFacts ==
  ASSUME NEW o \in Seq(Text), o # <<>>
  PROVE  LET path == IF Len(o) = 1 THEN o ELSE Front(o)
             value == IF Len(o) = 1 THEN Bool(TRUE) ELSE Convert(Last(o))
         IN  /\ Len(o) \in Nat \ {0}
             /\ Len(path) = IF Len(o) = 1 THEN 1 ELSE Len(o) - 1
             /\ value.type \in {"bool", "int", "str"}
<1> DEFINE path == IF Len(o) = 1 THEN o ELSE Front(o)
           value == IF Len(o) = 1 THEN Bool(TRUE) ELSE Convert(Last(o))
<1>1. Len(o) \in Nat \ {0} /\ Len(Front(o)) = Len(o) - 1
  BY FrontFacts
<1>2. value.type \in {"bool", "int", "str"}
  BY DEF Convert, Bool, Num, Str
<1>3. Len(path) = IF Len(o) = 1 THEN 1 ELSE Len(o) - 1
  BY <1>1
<1> QED BY <1>1, <1>2, <1>3

\* The places of two lists one behind the other.
LEMMA TwoLists ==
  ASSUME NEW m \in Nat, NEW n \in Nat, NEW k \in Nat \ {0}, k <= m + 1 \/ k <= n + 1
  PROVE  k \in 1..m + n + 1
  OBVIOUS

LEMMA TypesInit == MainInit => TInv
<1> SUFFICES ASSUME MainInit PROVE TInv
  OBVIOUS
<1>1. /\ args \in CommandLines /\ install \in Installations
      /\ step = "parse" /\ outcome = "none" /\ chainFile = NoName /\ config = <<>> /\ opt = 1
      /\ algorithm_list = <<>> /\ finder_list = <<>> /\ index = 1 /\ runBreakpoint = Empty
  BY DEF MainInit
<1>2. /\ Len(install.entries) \in Nat /\ Len(install.finders) \in Nat
      /\ Len(args.conf_opts) \in Nat
  BY <1>1, GivenFacts
<1>3. /\ algorithm_list \in Seq(Text) /\ Len(algorithm_list) = 0
      /\ finder_list \in Seq(Text) /\ Len(finder_list) = 0
      /\ ToSet(algorithm_list) = {} /\ ToSet(finder_list) = {} /\ Settings(config)
  BY <1>1, EmptyFacts
<1>4. opt \in 1..Len(args.conf_opts) + 1
  BY <1>1, <1>2
<1>5. index \in 1..Len(install.entries) + Len(install.finders) + 1
  <2>1. index \in Nat \ {0} /\ index <= Len(install.entries) + 1
    BY <1>1, <1>2
  <2> QED BY <1>2, <2>1, TwoLists, Zenon
<1>6. MainTypeOK
  BY <1>1, <1>3, <1>4, <1>5 DEF MainTypeOK
<1> QED BY <1>1, <1>2, <1>3, <1>6 DEF TInv

\* Reading and switching the configuration.
LEMMA ConfigTypes ==
  ASSUME TInv, ReadChainConfig \/ ApplyArguments
  PROVE  TInv'
<1>1. CASE \E o \in {"exit", "crash"} : Stop(o)
  BY <1>1, StopTypes
<1>2. CASE ReadChainConfig /\ ~\E o \in {"exit", "crash"} : Stop(o)
  <2>1. /\ Goto("check") /\ config' = FileConfig
        /\ chainFile \in install.configs
        /\ UNCHANGED <<chainFile, opt, algorithm_list, finder_list, index, runBreakpoint>>
    BY <1>2 DEF ReadChainConfig, listVars
  <2>2. Settings(config')
    BY <2>1, GivenFacts, SettingsFacts, Zenon DEF TInv, FileConfig
  <2> QED BY <1>2, <2>1, <2>2, GoTypes DEF TInv, MainTypeOK, ReadChainConfig
<1>3. CASE ApplyArguments /\ ~\E o \in {"exit", "crash"} : Stop(o)
  <2>1. /\ step = "apply" /\ Goto("options") /\ config' = Switched
        /\ UNCHANGED <<chainFile, opt, algorithm_list, finder_list, index, runBreakpoint>>
    BY <1>3 DEF ApplyArguments, listVars
  <2>2. Settings(config')
    BY <2>1, SwitchedSettings DEF TInv, MainTypeOK
  <2> QED BY <2>1, <2>2, GoTypes DEF TInv, MainTypeOK
<1> QED BY <1>1, <1>2, <1>3

\* An option.
LEMMA OptionTypes ==
  ASSUME TInv, ApplyOption
  PROVE  TInv'
<1> DEFINE o == args.conf_opts[opt]
           path == IF Len(o) = 1 THEN o ELSE Front(o)
           value == IF Len(o) = 1 THEN Bool(TRUE) ELSE Convert(Last(o))
           rest == [p \in {q \in DOMAIN config : q[1] # path[1]} |-> config[p]]
<1>1. CASE \E e \in {"exit", "crash"} : Stop(e)
  BY <1>1, StopTypes
<1>2. CASE ~\E e \in {"exit", "crash"} : Stop(e)
  <2>1. /\ step = "options" /\ opt <= Len(args.conf_opts)
        /\ config' = CASE Len(path) = 1 -> With(rest, path, value)
                       [] Len(path) = 2 -> With(config, path, value)
                       [] OTHER -> config
        /\ opt' = opt + 1 /\ Goto("options")
        /\ UNCHANGED <<chainFile, algorithm_list, finder_list, index, runBreakpoint>>
    BY <1>2 DEF ApplyOption, listVars
  <2>2. /\ args.conf_opts \in Seq(Seq(Text)) /\ Len(args.conf_opts) \in Nat
        /\ \A k \in DOMAIN args.conf_opts : args.conf_opts[k] # <<>>
        /\ opt \in Nat /\ opt \in 1..Len(args.conf_opts) + 1
    BY GivenFacts DEF TInv, MainTypeOK
  <2>3. opt \in 1..Len(args.conf_opts) /\ opt' \in 1..Len(args.conf_opts) + 1
    BY <2>1, <2>2
  <2>4. o \in Seq(Text) /\ o # <<>>
    BY <2>2, <2>3, ElementOfSeq
  <2>5. value.type \in {"bool", "int", "str"}
    BY <2>4, OptionFacts, Zenon
  <2>6. Settings(config)
    BY DEF TInv, MainTypeOK
  <2>7. Settings(rest)
    BY <2>6 DEF Settings
  <2> HIDE DEF rest, path, value
  <2>8. /\ Len(path) \in 1..2 => Settings(With(config, path, value))
        /\ Len(path) \in 1..2 => Settings(With(rest, path, value))
    BY <2>5, <2>6, <2>7, SettingsFacts, Zenon
  <2>9. Settings(config')
    BY <2>1, <2>6, <2>8
  <2> QED BY <2>1, <2>3, <2>9, GoTypes DEF TInv, MainTypeOK
<1> QED BY <1>1, <1>2

\* The algorithm list is read, or its elements are looked at.
LEMMA ListTypes ==
  ASSUME TInv, LoadAlgorithmList \/ ScanFinder \/ ScanAlgorithm
  PROVE  TInv'
<1>1. CASE \E o \in {"exit", "crash"} : Stop(o)
  BY <1>1, StopTypes
<1>2. ASSUME UNCHANGED <<args, install, outcome, chainFile, config, opt, runBreakpoint>>,
             step' \in {"scan_finders", "scan_algorithms", "select"},
             step \notin {"read_config", "end"},
             algorithm_list' \in Seq(Text), Len(algorithm_list') <= Len(install.entries),
             ToSet(algorithm_list') \subseteq {e.name : e \in ToSet(install.entries)},
             finder_list' \in Seq(Text), Len(finder_list') <= Len(install.finders),
             ToSet(finder_list') \subseteq {e.name : e \in ToSet(install.finders)},
             index' \in Nat \ {0},
             index' <= Len(install.entries) + 1 \/ index' <= Len(install.finders) + 1,
             step' = "select" => index' = 1
      PROVE  TInv'
  <2>1. Len(install.entries) \in Nat /\ Len(install.finders) \in Nat
    BY GivenFacts DEF TInv
  <2>2. index' \in 1..Len(install.entries) + Len(install.finders) + 1
    BY <1>2, <2>1, TwoLists, Zenon
  <2>3. Settings(config)'
    BY <1>2 DEF TInv, MainTypeOK, Settings
  <2>4. /\ outcome' \in {"none", "exit", "crash", "run"} /\ (outcome' = "none" <=> step' # "end")
        /\ chainFile' \in install'.configs \cup {args'.conf, NoName}
        /\ opt' \in 1..Len(args'.conf_opts) + 1
        /\ runBreakpoint' \in {Empty, args'.breakpoint_after}
    BY <1>2 DEF TInv, MainTypeOK
  <2>5. MainTypeOK'
    BY <1>2, <2>2, <2>3, <2>4 DEF MainTypeOK
  <2> QED BY <1>2, <2>5 DEF TInv
<1>3. /\ Len(install.entries) \in Nat /\ Len(install.finders) \in Nat
      /\ ModuleList(install.entries) /\ ModuleList(install.finders)
  BY GivenFacts DEF TInv
<1>4. /\ algorithm_list \in Seq(Text) /\ Len(algorithm_list) <= Len(install.entries)
      /\ ToSet(algorithm_list) \subseteq {e.name : e \in ToSet(install.entries)}
      /\ finder_list \in Seq(Text) /\ Len(finder_list) <= Len(install.finders)
      /\ ToSet(finder_list) \subseteq {e.name : e \in ToSet(install.finders)}
      /\ index \in Nat \ {0}
      /\ Len(algorithm_list) \in Nat /\ Len(finder_list) \in Nat
  BY LenProperties DEF TInv, MainTypeOK
<1>5. CASE LoadAlgorithmList /\ ~\E o \in {"exit", "crash"} : Stop(o)
  <2>1. /\ step = "find_list"
        /\ algorithm_list' = [k \in DOMAIN install.entries |-> install.entries[k].name]
        /\ finder_list' = [k \in DOMAIN install.finders |-> install.finders[k].name]
        /\ index' = 1 /\ step' \in {"scan_finders", "select"}
        /\ UNCHANGED <<args, install, outcome, chainFile, config, opt, runBreakpoint>>
    BY <1>5 DEF LoadAlgorithmList, Goto
  <2>2. /\ algorithm_list' \in Seq(Text) /\ Len(algorithm_list') = Len(install.entries)
        /\ ToSet(algorithm_list') = {e.name : e \in ToSet(install.entries)}
    BY <1>3, <2>1, NamesFacts, Zenon
  <2>3. /\ finder_list' \in Seq(Text) /\ Len(finder_list') = Len(install.finders)
        /\ ToSet(finder_list') = {e.name : e \in ToSet(install.finders)}
    BY <1>3, <2>1, NamesFacts, Zenon
  <2>4. /\ Len(algorithm_list') <= Len(install.entries) /\ Len(finder_list') <= Len(install.finders)
        /\ index' \in Nat \ {0} /\ index' <= Len(install.entries) + 1
    BY <1>3, <2>1, <2>2, <2>3
  <2>5. step' \in {"scan_finders", "scan_algorithms", "select"} /\ step \notin {"read_config", "end"}
    BY <2>1
  <2>6. /\ ToSet(algorithm_list') \subseteq {e.name : e \in ToSet(install.entries)}
        /\ ToSet(finder_list') \subseteq {e.name : e \in ToSet(install.finders)}
    BY <2>2, <2>3, Zenon
  <2> QED BY <1>2, <2>1, <2>2, <2>3, <2>4, <2>5, <2>6, Zenon
<1>6. CASE ScanFinder
  <2>1. CASE index > Len(finder_list)
    <3>1. /\ index' = 1 /\ step' = "scan_algorithms" /\ step = "scan_finders"
          /\ UNCHANGED <<args, install, outcome, chainFile, config, opt, runBreakpoint,
                         algorithm_list, finder_list>>
      BY <1>4, <1>6, <2>1 DEF ScanFinder, Goto
    <3> QED BY <1>2, <1>3, <1>4, <3>1
  <2>2. CASE index <= Len(finder_list)
    <3>1. /\ index' = index + 1 /\ step' = "scan_finders" /\ step = "scan_finders"
          /\ finder_list' \in {finder_list, RemoveAt(finder_list, index)}
          /\ UNCHANGED <<args, install, outcome, chainFile, config, opt, runBreakpoint,
                         algorithm_list>>
      BY <1>4, <1>6, <2>2 DEF ScanFinder, Goto
    <3>2. index \in 1..Len(finder_list)
      BY <1>4, <2>2
    <3>3. /\ finder_list' \in Seq(Text) /\ Len(finder_list') <= Len(finder_list)
          /\ Len(finder_list') \in Nat
      BY <1>4, <3>1, <3>2, RemoveAtFacts
    <3>4. ToSet(finder_list') \subseteq ToSet(finder_list)
      BY <1>4, <3>1, <3>2, RemovedFrom, Zenon
    <3>5. /\ Len(finder_list') <= Len(install.finders)
          /\ index' \in Nat \ {0} /\ index' <= Len(install.finders) + 1
      BY <1>3, <1>4, <2>2, <3>1, <3>3
    <3> QED BY <1>2, <1>4, <3>1, <3>3, <3>4, <3>5
  <2> QED BY <1>4, <2>1, <2>2
<1>7. CASE ScanAlgorithm
  <2>1. CASE index > Len(algorithm_list)
    <3>1. /\ index' = 1 /\ step' = "select" /\ step = "scan_algorithms"
          /\ UNCHANGED <<args, install, outcome, chainFile, config, opt, runBreakpoint,
                         algorithm_list, finder_list>>
      BY <1>4, <1>7, <2>1 DEF ScanAlgorithm, Goto
    <3> QED BY <1>2, <1>3, <1>4, <3>1
  <2>2. CASE index <= Len(algorithm_list)
    <3>1. /\ index' = index + 1 /\ step' = "scan_algorithms" /\ step = "scan_algorithms"
          /\ algorithm_list' \in {algorithm_list, RemoveAt(algorithm_list, index)}
          /\ UNCHANGED <<args, install, outcome, chainFile, config, opt, runBreakpoint,
                         finder_list>>
      BY <1>4, <1>7, <2>2 DEF ScanAlgorithm, Goto
    <3>2. index \in 1..Len(algorithm_list)
      BY <1>4, <2>2
    <3>3. /\ algorithm_list' \in Seq(Text) /\ Len(algorithm_list') <= Len(algorithm_list)
          /\ Len(algorithm_list') \in Nat
      BY <1>4, <3>1, <3>2, RemoveAtFacts
    <3>4. ToSet(algorithm_list') \subseteq ToSet(algorithm_list)
      BY <1>4, <3>1, <3>2, RemovedFrom, Zenon
    <3>5. /\ Len(algorithm_list') <= Len(install.entries)
          /\ index' \in Nat \ {0} /\ index' <= Len(install.entries) + 1
      BY <1>3, <1>4, <2>2, <3>1, <3>3
    <3> QED BY <1>2, <1>4, <3>1, <3>3, <3>4, <3>5
  <2> QED BY <1>4, <2>1, <2>2
<1> QED BY <1>1, <1>5, <1>6, <1>7

LEMMA TypesInductive == TInv /\ [MainNext]_mainVars => TInv'
<1> SUFFICES ASSUME TInv, [MainNext]_mainVars PROVE TInv'
  OBVIOUS
<1>0. /\ opt \in 1..Len(args.conf_opts) + 1 /\ Settings(config)
      /\ index \in Nat \ {0} /\ index \in 1..Len(install.entries) + Len(install.finders) + 1
      /\ chainFile \in install.configs \cup {args.conf, NoName} \/ step \in {"read_config", "end"}
  BY DEF TInv, MainTypeOK
<1>s. ASSUME NEW o \in {"exit", "crash"}, Stop(o) PROVE TInv'
  BY <1>s, StopTypes
<1>1. CASE ParseArgs
  BY <1>0, <1>1, <1>s, GoTypes DEF ParseArgs, listVars
<1>2. CASE FindChainConfig
  BY <1>0, <1>2, <1>s, GoTypes DEF FindChainConfig, listVars
<1>3. CASE ReadChainConfig \/ ApplyArguments
  BY <1>3, ConfigTypes
<1>4. CASE CheckBaselineVersion
  BY <1>0, <1>4, <1>s, GoTypes DEF CheckBaselineVersion, listVars
<1>5. CASE ApplyOption
  BY <1>5, OptionTypes
<1>6. CASE CheckInputsAndLogs
  BY <1>0, <1>6, <1>s, GoTypes DEF CheckInputsAndLogs, listVars
<1>7. CASE LoadAlgorithmList \/ ScanFinder \/ ScanAlgorithm
  BY <1>7, ListTypes
<1>8. CASE SelectInputs
  <2>1. index = 1 /\ Len(finder_list) \in Nat
    BY <1>8, LenProperties DEF TInv, SelectInputs
  <2>2. index <= Len(finder_list) + 1
    BY <2>1
  <2>3. \/ Stop("crash")
        \/ /\ step = "select" /\ (Goto("limit") \/ Goto("find"))
           /\ UNCHANGED <<chainFile, config, opt, algorithm_list, finder_list, index, runBreakpoint>>
    BY <1>8 DEF SelectInputs
  <2> QED BY <1>0, <1>s, <2>2, <2>3, GoTypes
<1>9. CASE RunFinder
  <2>1. \/ Stop("exit")
        \/ /\ step = "find" /\ Goto("find") /\ index <= Len(finder_list) /\ index' = index + 1
           /\ UNCHANGED <<chainFile, config, opt, algorithm_list, finder_list, runBreakpoint>>
        \/ /\ step = "find" /\ Goto("limit")
           /\ UNCHANGED <<chainFile, config, opt, algorithm_list, finder_list, index, runBreakpoint>>
    BY <1>9 DEF RunFinder, listVars
  <2>2. ASSUME index <= Len(finder_list), index' = index + 1
        PROVE  /\ index' \in Nat \ {0} /\ index' <= Len(finder_list) + 1
               /\ index' \in 1..Len(install.entries) + Len(install.finders) + 1
    <3>1. /\ Len(finder_list) \in Nat /\ Len(finder_list) <= Len(install.finders)
          /\ Len(install.entries) \in Nat /\ Len(install.finders) \in Nat
      BY GivenFacts, LenProperties DEF TInv
    <3>2. /\ index' \in Nat \ {0} /\ index' <= Len(finder_list) + 1
          /\ index' <= Len(install.finders) + 1
      BY <1>0, <2>2, <3>1
    <3> QED BY <3>1, <3>2, TwoLists, Zenon
  <2> QED BY <1>0, <1>s, <2>1, <2>2, GoTypes
<1>10. CASE LimitAndCheckFiles
  <2>1. \/ Stop("exit")
        \/ /\ step = "limit" /\ Goto("call")
           /\ UNCHANGED <<chainFile, config, opt, algorithm_list, finder_list, index, runBreakpoint>>
    BY <1>10 DEF LimitAndCheckFiles, listVars
  <2> QED BY <1>0, <1>s, <2>1, GoTypes
<1>11. CASE CallRunChain
  <2>1. \/ Stop("exit") \/ Stop("crash")
        \/ /\ step = "call" /\ step' = "end" /\ outcome' = "run"
           /\ runBreakpoint' = args.breakpoint_after
           /\ UNCHANGED <<args, install, chainFile, config, opt, algorithm_list, finder_list, index>>
    BY <1>11 DEF CallRunChain, listVars
  <2> QED BY <1>0, <1>s, <2>1 DEF TInv, MainTypeOK, Settings, ToSet
<1>12. CASE UNCHANGED mainVars \/ Ended
  BY <1>12 DEF Ended, mainVars, listVars, TInv, MainTypeOK, Settings, ToSet
<1> QED BY <1>1, <1>2, <1>3, <1>4, <1>5, <1>6, <1>7, <1>8, <1>9, <1>10, <1>11, <1>12 DEF MainNext

-----------------------------------------------------------------------------
(* The configuration file and the algorithm list *)

ListRead == {"scan_finders", "scan_algorithms", "select", "find", "limit", "call"}
Switching == {"options", "find_list"} \cup ListRead
Agreeing == {"apply"} \cup Switching
ConfigRead == {"check"} \cup Agreeing

\* main() is in one of these parts, or has called run_chain().
Reached(parts) == step \in parts \/ outcome = "run"

FInv ==
    /\ Reached({"find_config", "read_config"} \cup ConfigRead) => args.baseline \in 0..26
    /\ Reached({"read_config"} \cup ConfigRead) /\ args.conf = NoName =>
         chainFile \in Candidates(install.configs, args.baseline, args.version)
    /\ Reached(ConfigRead) => chainFile \in install.configs
    /\ step = "check" => config = FileConfig
    /\ Reached(Agreeing) /\ args.version # 0 => FileConfig[<<"version">>] = Num(args.version)
    /\ Reached(ListRead) => /\ listFile \in install.lists
                            /\ listFile \in ListCandidates

LEMMA FilesInit == MainInit => FInv
  BY DEF MainInit, FInv, Reached, ConfigRead, Agreeing, Switching, ListRead

LEMMA FilesInductive == TInv /\ FInv /\ [MainNext]_mainVars => FInv'
<1> SUFFICES ASSUME TInv, FInv, [MainNext]_mainVars PROVE FInv'
  OBVIOUS
<1> USE DEF FInv, Reached, ConfigRead, Agreeing, Switching, ListRead, ListCandidates, FileConfig
<1>0. outcome = "none" <=> step # "end"
  BY DEF TInv, MainTypeOK
<1>s. ASSUME NEW o \in {"exit", "crash"}, Stop(o) PROVE FInv'
  BY <1>s DEF Stop
<1>1. CASE ParseArgs
  BY <1>0, <1>1, <1>s DEF ParseArgs, BadArguments, Goto
<1>2. CASE FindChainConfig
  BY <1>0, <1>2, <1>s DEF FindChainConfig, Goto
<1>3. CASE ReadChainConfig
  BY <1>0, <1>3, <1>s DEF ReadChainConfig, Goto
<1>4. CASE CheckBaselineVersion
  BY <1>0, <1>4, <1>s DEF CheckBaselineVersion, Keyless, Differs, Goto
<1>5. CASE ApplyArguments
  BY <1>0, <1>5, <1>s DEF ApplyArguments, Goto
<1>6. CASE ApplyOption
  BY <1>0, <1>6, <1>s DEF ApplyOption, Goto
<1>7. CASE CheckInputsAndLogs
  BY <1>0, <1>7, <1>s DEF CheckInputsAndLogs, Goto
<1>8. CASE LoadAlgorithmList
  BY <1>0, <1>8, <1>s DEF LoadAlgorithmList, Goto
<1>9. CASE ScanFinder
  BY <1>0, <1>9 DEF ScanFinder, Goto
<1>10. CASE ScanAlgorithm
  BY <1>0, <1>10 DEF ScanAlgorithm, Goto
<1>11. CASE SelectInputs
  BY <1>0, <1>11, <1>s DEF SelectInputs, Goto
<1>12. CASE RunFinder
  BY <1>0, <1>12, <1>s DEF RunFinder, Goto, listVars
<1>13. CASE LimitAndCheckFiles
  BY <1>0, <1>13, <1>s DEF LimitAndCheckFiles, Goto, listVars
<1>14. CASE CallRunChain
  BY <1>0, <1>14, <1>s DEF CallRunChain, listVars
<1>15. CASE UNCHANGED mainVars \/ Ended
  BY <1>15 DEF Ended, mainVars, listVars
<1> QED BY <1>1, <1>2, <1>3, <1>4, <1>5, <1>6, <1>7, <1>8, <1>9, <1>10, <1>11, <1>12, <1>13,
           <1>14, <1>15 DEF MainNext

Asked(f, b, v) == b \in {0, f.baseline} /\ v \in {0, f.version}
GoesBefore(c, f) ==
    /\ f.baseline <= c.baseline
    /\ f.baseline = c.baseline /\ f.ext = "xml" => c.ext = "xml"

\* load_config_files(), load_algorithm_list(): what is found in a directory
\* has the baseline and the version that was asked for, no other file that
\* has them is of a later baseline, and XML goes before YML.
LEMMA CandidateFacts ==
  ASSUME NEW dir, dir \subseteq FileNames, NEW b \in 0..26, NEW v \in Int,
         NEW c \in Candidates(dir, b, v), c \in dir, NEW f \in dir
  PROVE  Asked(c, b, v) /\ (Asked(f, b, v) => GoesBefore(c, f))
<1> USE DEF Asked, GoesBefore
<1>0. /\ f.baseline \in 1..26 /\ f.ext \in {"xml", "yml"}
      /\ f = [baseline |-> f.baseline, version |-> f.version, ext |-> f.ext]
  BY DEF FileNames
<1>1. CASE b # 0 /\ v # 0
  <2> DEFINE xml == [baseline |-> b, version |-> v, ext |-> "xml"]
  <2>1. c = IF xml \in dir THEN xml ELSE [xml EXCEPT !.ext = "yml"]
    BY <1>1 DEF Candidates, Exact
  <2>2. c.baseline = b /\ c.version = v /\ (xml \in dir => c.ext = "xml")
    BY <2>1
  <2>3. ASSUME b \in {0, f.baseline}, v \in {0, f.version}
        PROVE  /\ f.baseline <= c.baseline
               /\ f.ext = "xml" => c.ext = "xml"
    <3>1. f.baseline = b /\ f.version = v
      BY <1>1, <2>3
    <3>2. f.ext = "xml" => f = xml
      BY <1>0, <3>1
    <3> QED BY <2>2, <3>1, <3>2
  <2> QED BY <2>2, <2>3
<1>2. CASE ~(b # 0 /\ v # 0)
  <2> DEFINE baselines == IF b # 0 THEN {b} ELSE 1..26
             present == {a \in baselines : \E g \in dir : g.baseline = a /\ v \in {0, g.version}}
             top == Max(present)
  <2>1. c \in Search(dir, baselines, v)
    BY <1>2 DEF Candidates
  <2>2. /\ present # {}
        /\ c \in IF Matching(dir, top, v, "xml") # {} THEN Matching(dir, top, v, "xml")
                ELSE Matching(dir, top, v, "yml")
    BY <2>1 DEF Search
  <2>3. present \in SUBSET (0..26)
    OBVIOUS
  <2>4. top \in present /\ \A a \in present : a <= top
    BY <2>2, <2>3, MaxFacts
  <2> HIDE DEF top
  <2>5. c.baseline = top /\ v \in {0, c.version}
    BY <2>2 DEF Matching
  <2>6. b \in {0, c.baseline}
    BY <2>4, <2>5
  <2>7. ASSUME b \in {0, f.baseline}, v \in {0, f.version}
        PROVE  /\ f.baseline <= c.baseline
               /\ f.baseline = c.baseline /\ f.ext = "xml" => c.ext = "xml"
    <3>1. f.baseline \in present
      BY <1>0, <2>7
    <3>2. f.baseline <= c.baseline
      BY <2>4, <2>5, <3>1
    <3>3. ASSUME f.baseline = c.baseline, f.ext = "xml"
          PROVE  c.ext = "xml"
      <4>1. f \in Matching(dir, top, v, "xml")
        BY <2>5, <2>7, <3>3 DEF Matching
      <4> QED BY <2>2, <4>1 DEF Matching
    <3> QED BY <3>2, <3>3
  <2> QED BY <2>5, <2>6, <2>7
<1> QED BY <1>1, <1>2

LEMMA FilesFitHolds == TInv /\ FInv => FilesFit
<1> SUFFICES ASSUME TInv, FInv, outcome = "run" PROVE FilesFit
  BY DEF FilesFit, HighestBaseline, ListFollowsConfig, Runs
<1>1. /\ args.baseline \in 0..26 /\ chainFile \in install.configs
      /\ args.conf = NoName =>
           chainFile \in Candidates(install.configs, args.baseline, args.version)
      /\ args.version # 0 => FileConfig[<<"version">>] = Num(args.version)
      /\ listFile \in install.lists /\ listFile \in ListCandidates
  BY DEF FInv, Reached
<1>2. /\ args.version \in Int
      /\ install.configs \subseteq FileNames /\ install.lists \subseteq FileNames
  BY GivenFacts DEF TInv
<1>3. HighestBaseline
  <2> SUFFICES ASSUME args.conf = NoName, NEW f \in install.configs,
                      Asked(f, args.baseline, args.version)
               PROVE  GoesBefore(chainFile, f)
    BY DEF HighestBaseline, Asked, GoesBefore
  <2>1. chainFile \in Candidates(install.configs, args.baseline, args.version)
    BY <1>1
  <2> QED BY <1>1, <1>2, <2>1, CandidateFacts
<1>4. ListFollowsConfig
  <2> DEFINE v == IF args.version > 0 THEN args.version ELSE chainFile.version
  <2> SUFFICES ASSUME args.alglist = NoName
               PROVE  /\ listFile.baseline = chainFile.baseline
                      /\ IF args.conf # NoName /\ args.version > 0
                         THEN FileConfig[<<"version">>] = Num(listFile.version)
                         ELSE chainFile.version \in {0, listFile.version}
    BY DEF ListFollowsConfig
  <2>1. /\ chainFile.baseline \in 0..26 /\ chainFile.baseline # 0
        /\ chainFile.version \in 0..100 /\ v \in Int
    BY <1>1, <1>2 DEF FileNames
  <2>2. listFile \in Candidates(install.lists, chainFile.baseline, v)
    BY <1>1 DEF ListCandidates
  <2>3. Asked(listFile, chainFile.baseline, v)
    BY <1>1, <1>2, <2>1, <2>2, CandidateFacts
  <2>4. listFile.baseline = chainFile.baseline /\ v \in {0, listFile.version}
    BY <2>1, <2>3 DEF Asked
  <2>5. CASE args.conf # NoName /\ args.version > 0
    <3>1. args.version = listFile.version
      BY <2>4, <2>5, <1>2
    <3>2. FileConfig[<<"version">>] = Num(args.version)
      BY <1>1, <1>2, <2>5
    <3> QED BY <2>4, <2>5, <3>1, <3>2
  <2>6. CASE args.conf # NoName /\ ~(args.version > 0)
    BY <2>4, <2>6
  <2>7. CASE args.conf = NoName
    <3>1. Asked(chainFile, args.baseline, args.version)
      BY <1>1, <1>2, <2>7, CandidateFacts
    <3>2. v = chainFile.version
      BY <1>2, <2>1, <3>1 DEF Asked
    <3> QED BY <2>4, <2>7, <3>2
  <2> QED BY <2>5, <2>6, <2>7
<1> QED BY <1>3, <1>4 DEF FilesFit

\* main() uses the right configuration and the right algorithm list, whatever
\* the command line and the directories.
THEOREM FilesAreFit == MainSpec => []FilesFit
<1>1. MainInit => TInv /\ FInv
  BY TypesInit, FilesInit
<1>2. TInv /\ FInv /\ [MainNext]_mainVars => TInv' /\ FInv'
  BY TypesInductive, FilesInductive
<1> QED BY <1>1, <1>2, FilesFitHolds, PTL DEF MainSpec

-----------------------------------------------------------------------------
(* The loop over the algorithms *)

Even(entries, k) == DisabledUpTo(entries, k) % 2 = 0

\* The loop has come to place i of the list that is left, which is place m of
\* the file; e says where in the file the elements of the list stand.  Behind
\* m they are all there, before m those that the loop keeps, and the element
\* just before m is one of them.
Walked(entries, list, i, m, e) ==
    /\ \A a, b \in 1..Len(list) : a < b => e[a] < e[b]
    /\ \A k \in 1..Len(entries) :
         (\E a \in 1..Len(list) : e[a] = k) <=> (k >= m \/ Even(entries, k))
    /\ \A a \in 1..Len(list) : list[a] = entries[e[a]].name
    /\ m <= Len(entries) => i <= Len(list) /\ e[i] = m
    /\ m > Len(entries) => i > Len(list)
    /\ m <= Len(entries) + 1 => Even(entries, m - 1)

Walk(entries, list, i) ==
    \E m \in 1..Len(entries) + 2 : \E e \in [1..Len(list) -> 1..Len(entries)] :
        Walked(entries, list, i, m, e)

LInv ==
    /\ step = "scan_finders" =>
         algorithm_list = [k \in DOMAIN install.entries |-> install.entries[k].name]
    /\ step = "scan_algorithms" => Walk(install.entries, algorithm_list, index)
    /\ Reached({"select", "find", "limit", "call"}) /\ listFile.ext = "xml" =>
         LET kept == {k \in DOMAIN install.entries : DisabledUpTo(install.entries, k) % 2 = 0}
         IN  algorithm_list =
               [k \in 1..Cardinality(kept) |->
                   install.entries[CHOOSE m \in kept :
                                     Cardinality({j \in kept : j <= m}) = k].name]

\* Runs of disabled elements: one more makes a run longer by one, an element
\* that is not disabled ends it.
LEMMA DisabledFacts ==
  ASSUME NEW entries, NEW k \in Nat
  PROVE  /\ DisabledUpTo(entries, k) \in 0..k
         /\ k = 0 => DisabledUpTo(entries, k) = 0
         /\ k # 0 /\ entries[k].value # "Disable" => DisabledUpTo(entries, k) = 0
         /\ k # 0 /\ entries[k].value = "Disable" =>
              DisabledUpTo(entries, k) = DisabledUpTo(entries, k - 1) + 1
<1> DEFINE Dis(j) == entries[j].value = "Disable"
           Runs0(a) == {n \in 0..a : \A j \in a - n + 1..a : Dis(j)}
<1>1. \A a : DisabledUpTo(entries, a) = Max(Runs0(a))
  BY DEF DisabledUpTo
<1> HIDE DEF Dis
<1>2. ASSUME NEW a \in Nat
      PROVE  /\ Max(Runs0(a)) \in Runs0(a) /\ \A n \in Runs0(a) : n <= Max(Runs0(a))
             /\ Max(Runs0(a)) \in 0..a
  <2>1. 0 \in Runs0(a)
    OBVIOUS
  <2>2. Runs0(a) \in SUBSET (0..a) /\ Runs0(a) # {}
    BY <2>1
  <2> HIDE DEF Runs0
  <2>3. Max(Runs0(a)) \in Runs0(a) /\ \A n \in Runs0(a) : n <= Max(Runs0(a))
    BY <2>2, MaxFacts
  <2> QED BY <2>2, <2>3
<1>3. ASSUME k # 0, ~Dis(k) PROVE Max(Runs0(k)) = 0
  <2>1. ASSUME NEW n \in Runs0(k), n # 0 PROVE FALSE
    <3>1. k \in k - n + 1..k
      BY <2>1
    <3> QED BY <1>3, <2>1, <3>1
  <2> QED BY <1>2, <2>1
<1>4. ASSUME k # 0, Dis(k) PROVE Max(Runs0(k)) = Max(Runs0(k - 1)) + 1
  <2> DEFINE x == Max(Runs0(k - 1))
             y == Max(Runs0(k))
  <2>1. k - 1 \in Nat
    BY <1>4
  <2>2. /\ x \in Runs0(k - 1) /\ \A n \in Runs0(k - 1) : n <= x
        /\ x \in 0..k - 1
    BY <1>2, <2>1
  <2>3. y \in Runs0(k) /\ (\A n \in Runs0(k) : n <= y) /\ y \in 0..k
    BY <1>2
  <2> HIDE DEF x, y
  <2>4. x + 1 \in Runs0(k)
    <3>1. x + 1 \in 0..k
      BY <2>1, <2>2
    <3>2. ASSUME NEW j \in k - (x + 1) + 1..k PROVE Dis(j)
      <4>1. j = k \/ j \in (k - 1) - x + 1..k - 1
        BY <2>1, <2>2
      <4> QED BY <1>4, <2>2, <4>1
    <3> QED BY <3>1, <3>2
  <2>5. y >= x + 1
    BY <2>2, <2>3, <2>4
  <2>6. y - 1 \in Runs0(k - 1)
    <3>1. y - 1 \in 0..k - 1
      BY <2>1, <2>2, <2>3, <2>5
    <3>2. ASSUME NEW j \in (k - 1) - (y - 1) + 1..k - 1 PROVE Dis(j)
      <4>1. j \in k - y + 1..k
        BY <2>3
      <4> QED BY <2>3, <4>1
    <3> QED BY <3>1, <3>2
  <2>7. y - 1 <= x
    BY <2>2, <2>6
  <2>8. y = x + 1
    BY <2>2, <2>3, <2>5, <2>7
  <2> QED BY <2>8 DEF x, y
<1>5. k = 0 => Max(Runs0(k)) = 0
  BY <1>2
<1> QED BY <1>1, <1>2, <1>3, <1>4, <1>5 DEF Dis

\* So the elements that the loop keeps: those that are not disabled, and of
\* the others every one whose neighbour before it goes.
LEMMA EvenFacts ==
  ASSUME NEW entries, NEW k \in Nat
  PROVE  /\ k = 0 => Even(entries, k)
         /\ k # 0 /\ entries[k].value # "Disable" => Even(entries, k)
         /\ k # 0 /\ entries[k].value = "Disable" => (Even(entries, k) <=> ~Even(entries, k - 1))
<1>1. CASE k # 0 /\ entries[k].value = "Disable"
  <2> DEFINE x == DisabledUpTo(entries, k - 1)
  <2>1. k - 1 \in Nat
    BY <1>1
  <2>2. x \in 0..k - 1
    BY <2>1, DisabledFacts
  <2>3. DisabledUpTo(entries, k) = x + 1
    BY <1>1, DisabledFacts
  <2> HIDE DEF x
  <2>4. (x + 1) % 2 = 0 <=> ~((x % 2) = 0)
    BY <2>1, <2>2
  <2> QED BY <1>1, <2>3, <2>4 DEF Even, x
<1>2. CASE ~(k # 0 /\ entries[k].value = "Disable")
  BY <1>2, DisabledFacts DEF Even
<1> QED BY <1>1, <1>2

\* The value of an element, looked up by its name.
LEMMA ValueAt ==
  ASSUME NEW entries, ModuleList(entries), NEW m \in 1..Len(entries)
  PROVE  ValueOf(entries, entries[m].name) = entries[m].value
<1>1. /\ DOMAIN entries = 1..Len(entries)
      /\ \A j, k \in DOMAIN entries : entries[j].name = entries[k].name => j = k
  BY NamesFacts, Zenon DEF ModuleList
<1>2. entries[m] \in ToSet(entries)
  BY <1>1 DEF ToSet
<1>3. \A x \in ToSet(entries) : x.name = entries[m].name => x = entries[m]
  BY <1>1, Zenon DEF ToSet
<1>4. (CHOOSE x \in ToSet(entries) : x.name = entries[m].name) = entries[m]
  BY <1>2, <1>3
<1> QED BY <1>4 DEF ValueOf

LEMMA NoNumberBetween ==
  ASSUME NEW x \in Nat, NEW y \in Nat, NEW z \in Nat, x < y, y < z
  PROVE  z # x + 1
  OBVIOUS

\* In a list that grows, the number that follows is the next element.
LEMMA NextPlace ==
  ASSUME NEW n \in Nat, NEW N \in Nat, NEW e \in [1..N -> 1..n],
         \A a, b \in 1..N : a < b => e[a] < e[b],
         NEW i \in 1..N, NEW a \in 1..N, e[a] = e[i] + 1
  PROVE  a = i + 1
<1>1. e[i] \in Nat /\ e[a] \in Nat
  OBVIOUS
<1>2. a > i
  <2> SUFFICES ASSUME ~(a > i) PROVE FALSE
    OBVIOUS
  <2>1. a < i \/ a = i
    OBVIOUS
  <2>2. e[a] < e[i] \/ e[a] = e[i]
    BY <2>1
  <2> QED BY <1>1, <2>2
<1>3. ASSUME a > i + 1 PROVE FALSE
  <2>1. i + 1 \in 1..N /\ i < i + 1 /\ i + 1 < a
    BY <1>3
  <2>2. e[i] < e[i + 1] /\ e[i + 1] < e[a] /\ e[i + 1] \in Nat
    BY <2>1
  <2> QED BY <1>1, <2>2, NoNumberBetween, Zenon
<1> QED BY <1>2, <1>3

LEMMA WalkStarts ==
  ASSUME NEW entries, ModuleList(entries)
  PROVE  Walk(entries, [k \in DOMAIN entries |-> entries[k].name], 1)
<1> DEFINE names == [k \in DOMAIN entries |-> entries[k].name]
           n == Len(entries)
           e == [a \in 1..n |-> a]
<1>1. Len(names) = n /\ DOMAIN entries = 1..n /\ n \in Nat
  BY NamesFacts, Zenon
<1>2. \A a \in 1..n : names[a] = entries[a].name
  BY <1>1
<1> HIDE DEF names, n
<1>3. e \in [1..n -> 1..n] /\ \A a \in 1..n : e[a] = a
  OBVIOUS
<1>4. Even(entries, 0)
  BY EvenFacts
<1>5. Walked(entries, names, 1, 1, e)
  <2>1. \A a, b \in 1..n : a < b => e[a] < e[b]
    BY <1>3
  <2>2. \A k \in 1..n : (\E a \in 1..n : e[a] = k) <=> (k >= 1 \/ Even(entries, k))
    BY <1>1, <1>3
  <2>3. \A a \in 1..n : names[a] = entries[e[a]].name
    BY <1>2, <1>3
  <2>4. (1 <= n => 1 <= n /\ e[1] = 1) /\ (1 > n => 1 > n)
    BY <1>1, <1>3
  <2>5. Even(entries, 1 - 1)
    BY <1>4
  <2> QED BY <1>1, <2>1, <2>2, <2>3, <2>4, <2>5 DEF Walked, n
<1>6. 1 \in 1..n + 2
  BY <1>1
<1>7. \E m \in 1..Len(entries) + 2 : \E f \in [1..Len(names) -> 1..Len(entries)] :
        Walked(entries, names, 1, m, f)
  BY <1>1, <1>3, <1>5, <1>6, Zenon DEF n
<1> QED BY <1>7 DEF Walk, names

\* An element that is not disabled stays, and the loop goes on.
LEMMA WalkKeeps ==
  ASSUME NEW entries, ModuleList(entries), NEW list \in Seq(Text), NEW i \in 1..Len(list),
         Walk(entries, list, i), ValueOf(entries, list[i]) # "Disable"
  PROVE  Walk(entries, list, i + 1)
<1> DEFINE n == Len(entries)
           N == Len(list)
<1>1. n \in Nat /\ N \in Nat
  BY NamesFacts, LenProperties, Zenon
<1>2. PICK m \in 1..n + 2 : \E e \in [1..N -> 1..n] : Walked(entries, list, i, m, e)
  BY DEF Walk
<1>3. PICK e \in [1..N -> 1..n] : Walked(entries, list, i, m, e)
  BY <1>2
<1> HIDE DEF n, N
<1>4. /\ \A a, b \in 1..N : a < b => e[a] < e[b]
      /\ \A k \in 1..n : (\E a \in 1..N : e[a] = k) <=> (k >= m \/ Even(entries, k))
      /\ \A a \in 1..N : list[a] = entries[e[a]].name
      /\ m <= n => i <= N /\ e[i] = m
      /\ m > n => i > N
      /\ m <= n + 1 => Even(entries, m - 1)
  BY <1>3 DEF Walked, n, N
<1>5. i \in 1..N /\ m \in 1..n /\ e[i] = m
  BY <1>1, <1>4 DEF N
<1>6. list[i] = entries[m].name
  BY <1>4, <1>5
<1>7. entries[m].value # "Disable"
  BY <1>5, <1>6, ValueAt DEF n
<1>8. Even(entries, m)
  BY <1>1, <1>5, <1>7, EvenFacts
<1>9. \A k \in 1..n : (\E a \in 1..N : e[a] = k) <=> (k >= m + 1 \/ Even(entries, k))
  <2> TAKE k \in 1..n
  <2>1. (k >= m \/ Even(entries, k)) <=> (k >= m + 1 \/ Even(entries, k))
    BY <1>1, <1>5, <1>8
  <2> QED BY <1>4, <2>1
<1>10. m + 1 <= n => i + 1 <= N /\ e[i + 1] = m + 1
  <2> SUFFICES ASSUME m + 1 <= n PROVE i + 1 <= N /\ e[i + 1] = m + 1
    OBVIOUS
  <2>0. m + 1 \in 1..n /\ m + 1 >= m
    BY <1>1, <1>5
  <2>1. PICK a \in 1..N : e[a] = m + 1
    BY <1>4, <2>0, Zenon
  <2>2. e[a] = e[i] + 1
    BY <1>5, <2>1
  <2>3. a = i + 1
    <3>1. e \in [1..N -> 1..n] /\ i \in 1..N /\ a \in 1..N
      BY <1>5
    <3>2. \A x, y \in 1..N : x < y => e[x] < e[y]
      BY <1>4
    <3> QED BY <1>1, <2>2, <3>1, <3>2, NextPlace
  <2> QED BY <1>1, <2>1, <2>3
<1>11. m + 1 > n => i + 1 > N
  <2> SUFFICES ASSUME m + 1 > n, i + 1 <= N PROVE FALSE
    BY <1>1, <1>5
  <2>1. i + 1 \in 1..N /\ i < i + 1
    BY <1>1, <1>5
  <2>2. e[i] < e[i + 1] /\ e[i + 1] \in 1..n
    BY <1>4, <1>5, <2>1
  <2> QED BY <1>1, <1>5, <2>2
<1>12. Even(entries, (m + 1) - 1)
  BY <1>1, <1>5, <1>8
<1>13. Walked(entries, list, i + 1, m + 1, e)
  BY <1>4, <1>9, <1>10, <1>11, <1>12 DEF Walked, n, N
<1>14. m + 1 \in 1..n + 2
  BY <1>1, <1>5
<1> QED BY <1>3, <1>13, <1>14, Zenon DEF Walk, n, N

\* A disabled element is removed; the one behind it is not looked at and
\* stays.
LEMMA WalkRemoves ==
  ASSUME NEW entries, ModuleList(entries), NEW list \in Seq(Text), NEW i \in 1..Len(list),
         Walk(entries, list, i), ValueOf(entries, list[i]) = "Disable"
  PROVE  Walk(entries, RemoveAt(list, i), i + 1)
<1> DEFINE n == Len(entries)
           N == Len(list)
           rest == RemoveAt(list, i)
<1>1. n \in Nat /\ N \in Nat
  BY NamesFacts, LenProperties, Zenon
<1>2. PICK m \in 1..n + 2 : \E e \in [1..N -> 1..n] : Walked(entries, list, i, m, e)
  BY DEF Walk
<1>3. PICK e \in [1..N -> 1..n] : Walked(entries, list, i, m, e)
  BY <1>2
<1>4. /\ Len(rest) = N - 1
      /\ \A j \in 1..N - 1 : rest[j] = IF j < i THEN list[j] ELSE list[j + 1]
  BY RemoveAtFacts
<1> HIDE DEF n, N, rest
<1>5. /\ \A a, b \in 1..N : a < b => e[a] < e[b]
      /\ \A k \in 1..n : (\E a \in 1..N : e[a] = k) <=> (k >= m \/ Even(entries, k))
      /\ \A a \in 1..N : list[a] = entries[e[a]].name
      /\ m <= n => i <= N /\ e[i] = m
      /\ m > n => i > N
      /\ m <= n + 1 => Even(entries, m - 1)
  BY <1>3 DEF Walked, n, N
<1>6. i \in 1..N /\ m \in 1..n /\ e[i] = m
  BY <1>1, <1>5 DEF N
<1>7. list[i] = entries[m].name
  BY <1>5, <1>6
<1>8. entries[m].value = "Disable"
  BY <1>6, <1>7, ValueAt DEF n
<1>9. ~Even(entries, m)
  <2>1. Even(entries, m - 1)
    BY <1>1, <1>5, <1>6
  <2> QED BY <1>1, <1>6, <1>8, <2>1, EvenFacts
<1>10. Even(entries, m + 1)
  <2>1. m + 1 \in Nat /\ m + 1 # 0 /\ (m + 1) - 1 = m
    BY <1>1, <1>6
  <2>2. entries[m + 1].value = "Disable" => (Even(entries, m + 1) <=> ~Even(entries, (m + 1) - 1))
    BY <2>1, EvenFacts, Zenon
  <2>3. entries[m + 1].value # "Disable" => Even(entries, m + 1)
    BY <2>1, EvenFacts, Zenon
  <2> QED BY <1>9, <2>1, <2>2, <2>3
<1> DEFINE f == [a \in 1..N - 1 |-> IF a < i THEN e[a] ELSE e[a + 1]]
<1>11. /\ f \in [1..N - 1 -> 1..n]
       /\ \A a \in 1..N - 1 : f[a] = IF a < i THEN e[a] ELSE e[a + 1]
  <2>1. \A a \in 1..N - 1 : a \in 1..N /\ a + 1 \in 1..N
    BY <1>1
  <2>2. \A a \in 1..N - 1 : e[a] \in 1..n /\ e[a + 1] \in 1..n
    BY <2>1
  <2> QED BY <2>2
<1> HIDE DEF f
<1>12. \A a, b \in 1..N - 1 : a < b => f[a] < f[b]
  <2> TAKE a, b \in 1..N - 1
  <2> HAVE a < b
  <2>1. a \in 1..N /\ a + 1 \in 1..N /\ b \in 1..N /\ b + 1 \in 1..N
    BY <1>1
  <2>2. e[a] < e[b] /\ e[a] < e[b + 1] /\ e[a + 1] < e[b + 1]
    BY <1>5, <2>1
  <2> QED BY <1>6, <1>11, <2>2
<1>13. \A a \in 1..N - 1 : rest[a] = entries[f[a]].name
  <2> TAKE a \in 1..N - 1
  <2>1. a \in 1..N /\ a + 1 \in 1..N
    BY <1>1
  <2> QED BY <1>4, <1>5, <1>11, <2>1
<1>14. \A k \in 1..n : (\E a \in 1..N - 1 : f[a] = k) <=> (k >= m + 2 \/ Even(entries, k))
  <2> TAKE k \in 1..n
  <2>1. (\E a \in 1..N - 1 : f[a] = k) <=> (\E a \in 1..N : e[a] = k) /\ k # m
    <3>1. ASSUME NEW a \in 1..N - 1, f[a] = k
          PROVE  (\E b \in 1..N : e[b] = k) /\ k # m
      <4>1. a \in 1..N /\ a + 1 \in 1..N
        BY <1>1
      <4>2. CASE a < i
        <5>1. e[a] = k /\ e[a] < e[i]
          BY <1>5, <1>6, <1>11, <3>1, <4>1, <4>2
        <5> QED BY <1>6, <4>1, <5>1
      <4>3. CASE ~(a < i)
        <5>1. e[a + 1] = k /\ i < a + 1
          BY <1>6, <1>11, <3>1, <4>3
        <5>2. e[i] < e[a + 1]
          BY <1>5, <1>6, <4>1, <5>1
        <5> QED BY <1>6, <4>1, <5>1, <5>2
      <4> QED BY <4>2, <4>3
    <3>2. ASSUME NEW b \in 1..N, e[b] = k, k # m
          PROVE  \E a \in 1..N - 1 : f[a] = k
      <4>1. b # i
        BY <1>6, <3>2
      <4>2. CASE b < i
        <5>1. b \in 1..N - 1
          BY <1>1, <1>6, <4>2
        <5>2. f[b] = k
          BY <1>11, <3>2, <4>2, <5>1
        <5> QED BY <5>1, <5>2
      <4>3. CASE ~(b < i)
        <5>1. b - 1 \in 1..N - 1 /\ ~(b - 1 < i) /\ (b - 1) + 1 = b
          BY <1>1, <1>6, <4>1, <4>3
        <5>2. f[b - 1] = e[(b - 1) + 1]
          BY <1>11, <5>1
        <5>3. f[b - 1] = k
          BY <3>2, <5>1, <5>2
        <5> QED BY <5>1, <5>3
      <4> QED BY <4>2, <4>3
    <3> QED BY <3>1, <3>2
  <2>2. (k >= m \/ Even(entries, k)) /\ k # m <=> (k >= m + 2 \/ Even(entries, k))
    <3>1. k = m \/ k < m \/ k = m + 1 \/ k >= m + 2
      BY <1>6
    <3> QED BY <1>6, <1>9, <1>10, <3>1
  <2> QED BY <1>5, <2>1, <2>2
<1>15. m + 2 <= n => i + 1 <= N - 1 /\ f[i + 1] = m + 2
  <2> SUFFICES ASSUME m + 2 <= n PROVE i + 1 <= N - 1 /\ f[i + 1] = m + 2
    OBVIOUS
  <2>1. m + 1 \in 1..n /\ m + 1 >= m /\ m + 2 \in 1..n /\ m + 2 >= m
    BY <1>1, <1>6
  <2>2. PICK a \in 1..N : e[a] = m + 1
    BY <1>5, <2>1, Zenon
  <2>3. PICK b \in 1..N : e[b] = m + 2
    BY <1>5, <2>1, Zenon
  <2>4. \A x, y \in 1..N : x < y => e[x] < e[y]
    BY <1>5
  <2>5. a = i + 1
    <3>1. e[a] = e[i] + 1
      BY <1>6, <2>2
    <3>2. e \in [1..N -> 1..n] /\ i \in 1..N
      BY <1>6
    <3> QED BY <1>1, <2>4, <3>1, <3>2, NextPlace
  <2>6. b = a + 1
    <3>1. e[b] = e[a] + 1
      BY <1>6, <2>2, <2>3
    <3>2. e \in [1..N -> 1..n] /\ a \in 1..N /\ b \in 1..N
      OBVIOUS
    <3> QED BY <1>1, <2>4, <3>1, <3>2, NextPlace
  <2>7. i + 1 \in 1..N - 1 /\ ~(i + 1 < i) /\ (i + 1) + 1 = b
    BY <1>1, <1>6, <2>5, <2>6
  <2>8. f[i + 1] = e[(i + 1) + 1]
    BY <1>11, <2>7
  <2> QED BY <1>1, <2>3, <2>7, <2>8
<1>16. m + 2 > n => i + 1 > N - 1
  <2> SUFFICES ASSUME m + 2 > n, i + 1 <= N - 1 PROVE FALSE
    BY <1>1, <1>6
  <2>1. i + 1 \in 1..N /\ i + 2 \in 1..N /\ i < i + 1 /\ i + 1 < i + 2
    BY <1>1, <1>6
  <2>2. e[i] < e[i + 1] /\ e[i + 1] < e[i + 2]
    BY <1>5, <1>6, <2>1
  <2>3. e[i + 1] \in 1..n /\ e[i + 2] \in 1..n
    BY <2>1
  <2> QED BY <1>1, <1>6, <2>2, <2>3
<1>17. Even(entries, (m + 2) - 1)
  <2>1. (m + 2) - 1 = m + 1
    BY <1>6
  <2> QED BY <1>10, <2>1
<1>18. Walked(entries, rest, i + 1, m + 2, f)
  BY <1>4, <1>12, <1>13, <1>14, <1>15, <1>16, <1>17 DEF Walked, n
<1>19. m + 2 \in 1..n + 2
  BY <1>1, <1>6
<1>20. \E p \in 1..n + 2 : \E g \in [1..N - 1 -> 1..n] : Walked(entries, rest, i + 1, p, g)
  BY <1>11, <1>18, <1>19, Zenon
<1> QED BY <1>4, <1>20, Zenon DEF Walk, n, rest

\* The first k elements of a list that grows are k.
LEMMA GrowingImage ==
  ASSUME NEW N \in Nat, NEW n \in Nat, NEW e \in [1..N -> 1..n],
         \A a, b \in 1..N : a < b => e[a] < e[b],
         NEW k \in 0..N
  PROVE  Cardinality({e[a] : a \in 1..k}) = k
<1> DEFINE T == {e[a] : a \in 1..k}
           g == [a \in 1..k |-> e[a]]
<1>1. \A a \in 1..k : a \in 1..N
  OBVIOUS
<1>2. g \in [1..k -> T] /\ \A a \in 1..k : g[a] = e[a]
  OBVIOUS
<1>3. \A y \in T : \E a \in 1..k : g[a] = y
  BY <1>2
<1>4. ASSUME NEW a \in 1..k, NEW b \in 1..k, g[a] = g[b] PROVE a = b
  <2>1. e[a] = e[b] /\ e[a] \in Nat /\ a \in 1..N /\ b \in 1..N
    BY <1>1, <1>2, <1>4
  <2>2. ~(a < b) /\ ~(b < a)
    BY <2>1
  <2> QED BY <2>2
<1> HIDE DEF g, T
<1>5. g \in Surjection(1..k, T)
  BY <1>2, <1>3 DEF Surjection
<1>6. g \in Injection(1..k, T)
  BY <1>2, <1>4 DEF Injection, IsInjective
<1>7. IsFiniteSet(1..k) /\ Cardinality(1..k) = k
  BY FS_Interval
<1>8. Cardinality(T) = Cardinality(1..k)
  BY <1>5, <1>6, <1>7, FS_Surjection
<1> QED BY <1>7, <1>8 DEF T

\* What is left when the loop has come to the end of the list.
LEMMA WalkEnds ==
  ASSUME NEW entries, ModuleList(entries), NEW list \in Seq(Text), NEW i \in Nat,
         i > Len(list), Walk(entries, list, i)
  PROVE  LET kept == {k \in DOMAIN entries : DisabledUpTo(entries, k) % 2 = 0}
         IN  list = [k \in 1..Cardinality(kept) |->
                       entries[CHOOSE m \in kept :
                                 Cardinality({j \in kept : j <= m}) = k].name]
<1> DEFINE n == Len(entries)
           N == Len(list)
           kept == {k \in DOMAIN entries : DisabledUpTo(entries, k) % 2 = 0}
           Rank(m) == Cardinality({j \in kept : j <= m})
<1>1. n \in Nat /\ N \in Nat /\ DOMAIN entries = 1..n
  BY NamesFacts, LenProperties, Zenon
<1>2. PICK m \in 1..n + 2 : \E e \in [1..N -> 1..n] : Walked(entries, list, i, m, e)
  BY DEF Walk
<1>3. PICK e \in [1..N -> 1..n] : Walked(entries, list, i, m, e)
  BY <1>2
<1>4. kept = {k \in 1..n : Even(entries, k)}
  BY <1>1 DEF Even
<1>5. list = [k \in 1..N |-> list[k]]
  BY LenProperties
<1>6. i > N
  OBVIOUS
<1> HIDE DEF n, N, kept
<1>7. /\ \A a, b \in 1..N : a < b => e[a] < e[b]
      /\ \A k \in 1..n : (\E a \in 1..N : e[a] = k) <=> (k >= m \/ Even(entries, k))
      /\ \A a \in 1..N : list[a] = entries[e[a]].name
      /\ m <= n => i <= N /\ e[i] = m
  BY <1>3 DEF Walked, n, N
<1>8. m > n
  BY <1>1, <1>6, <1>7
<1>9. \A k \in 1..n : (\E a \in 1..N : e[a] = k) <=> k \in kept
  <2> TAKE k \in 1..n
  <2>1. ~(k >= m)
    BY <1>1, <1>8
  <2> QED BY <1>4, <1>7, <2>1
<1>10. /\ \A a \in 1..N : e[a] \in kept
       /\ \A x \in kept : \E a \in 1..N : e[a] = x
       /\ kept = {e[a] : a \in 1..N}
  <2>1. \A a \in 1..N : e[a] \in kept
    BY <1>9
  <2>2. \A x \in kept : \E a \in 1..N : e[a] = x
    BY <1>4, <1>9, Zenon
  <2> QED BY <2>1, <2>2
<1>11. Cardinality(kept) = N
  <2>1. N \in 0..N
    BY <1>1
  <2>2. \A a, b \in 1..N : a < b => e[a] < e[b]
    BY <1>7
  <2>3. Cardinality({e[a] : a \in 1..N}) = N
    BY <1>1, <2>1, <2>2, GrowingImage
  <2> QED BY <1>10, <2>3
<1>12. ASSUME NEW k \in 1..N PROVE Rank(e[k]) = k
  <2>1. {j \in kept : j <= e[k]} = {e[a] : a \in 1..k}
    <3>1. ASSUME NEW a \in 1..k PROVE e[a] \in kept /\ e[a] <= e[k]
      <4>1. a \in 1..N /\ (a < k \/ a = k)
        BY <1>1
      <4>2. e[a] \in 1..n /\ e[k] \in 1..n /\ (e[a] < e[k] \/ e[a] = e[k])
        BY <1>7, <4>1
      <4>3. e[a] <= e[k]
        BY <1>1, <4>2
      <4>4. e[a] \in kept
        BY <1>10, <4>1
      <4> QED BY <4>3, <4>4
    <3>2. ASSUME NEW j \in kept, j <= e[k] PROVE \E a \in 1..k : e[a] = j
      <4>1. PICK a \in 1..N : e[a] = j
        BY <1>10
      <4>2. ~(k < a)
        <5> SUFFICES ASSUME k < a PROVE FALSE
          OBVIOUS
        <5>1. e[k] < e[a] /\ e[k] \in 1..n /\ e[a] \in 1..n
          BY <1>7
        <5> QED BY <1>1, <3>2, <4>1, <5>1
      <4>3. a \in 1..k
        BY <1>1, <4>2
      <4> QED BY <4>1, <4>3
    <3>3. \A x \in {j \in kept : j <= e[k]} : x \in {e[a] : a \in 1..k}
      BY <3>2
    <3>4. \A x \in {e[a] : a \in 1..k} : x \in {j \in kept : j <= e[k]}
      BY <3>1
    <3> QED BY <3>3, <3>4
  <2>2. k \in 0..N
    BY <1>1
  <2>3. Cardinality({e[a] : a \in 1..k}) = k
    <3>1. \A a, b \in 1..N : a < b => e[a] < e[b]
      BY <1>7
    <3> QED BY <1>1, <2>2, <3>1, GrowingImage
  <2> QED BY <2>1, <2>3
<1> HIDE DEF Rank
<1>13. ASSUME NEW k \in 1..N PROVE (CHOOSE x \in kept : Rank(x) = k) = e[k]
  <2>1. e[k] \in kept /\ Rank(e[k]) = k
    BY <1>10, <1>12
  <2>2. \A x \in kept : Rank(x) = k => x = e[k]
    BY <1>10, <1>12
  <2> QED BY <2>1, <2>2
<1>14. list = [k \in 1..Cardinality(kept) |-> entries[CHOOSE x \in kept : Rank(x) = k].name]
  <2>1. \A k \in 1..N : list[k] = entries[CHOOSE x \in kept : Rank(x) = k].name
    BY <1>7, <1>13
  <2> QED BY <1>5, <1>11, <2>1, Zenon
<1> QED BY <1>14 DEF Rank, kept

LEMMA ListInit == MainInit => LInv
  BY DEF MainInit, LInv, Reached

LEMMA ListInductive == TInv /\ LInv /\ [MainNext]_mainVars => LInv'
<1> SUFFICES ASSUME TInv, LInv, [MainNext]_mainVars PROVE LInv'
  OBVIOUS
<1> DEFINE Left(entries) ==
             LET kept == {k \in DOMAIN entries : DisabledUpTo(entries, k) % 2 = 0}
             IN  [k \in 1..Cardinality(kept) |->
                    entries[CHOOSE m \in kept : Cardinality({j \in kept : j <= m}) = k].name]
           Names(entries) == [k \in DOMAIN entries |-> entries[k].name]
<1>1. /\ step = "scan_finders" => algorithm_list = Names(install.entries)
      /\ step = "scan_algorithms" => Walk(install.entries, algorithm_list, index)
      /\ Reached({"select", "find", "limit", "call"}) /\ listFile.ext = "xml" =>
           algorithm_list = Left(install.entries)
  BY Zenon DEF LInv
<1>2. SUFFICES
         /\ step' = "scan_finders" => algorithm_list' = Names(install'.entries)
         /\ step' = "scan_algorithms" => Walk(install'.entries, algorithm_list', index')
         /\ Reached({"select", "find", "limit", "call"})' /\ listFile'.ext = "xml" =>
              algorithm_list' = Left(install'.entries)
  BY Zenon DEF LInv
<1>3. \A entries, list : \A i \in Nat :
        ModuleList(entries) /\ list \in Seq(Text) /\ i > Len(list) /\ Walk(entries, list, i)
          => list = Left(entries)
  BY WalkEnds, Zenon
<1>4. \A entries : ModuleList(entries) => Walk(entries, Names(entries), 1)
  BY WalkStarts
<1> HIDE DEF Left, Names
<1>5. /\ outcome = "none" <=> step # "end"
      /\ ModuleList(install.entries) /\ algorithm_list \in Seq(Text) /\ index \in Nat \ {0}
      /\ Len(algorithm_list) \in Nat
  BY GivenFacts, LenProperties DEF TInv, MainTypeOK
<1> USE DEF Reached
<1>s. ASSUME NEW o \in {"exit", "crash"}, Stop(o) PROVE step' = "end" /\ outcome' # "run"
  BY <1>s DEF Stop
<1>6. CASE ParseArgs \/ FindChainConfig \/ ReadChainConfig \/ CheckBaselineVersion
           \/ ApplyArguments \/ ApplyOption \/ CheckInputsAndLogs
  <2>1. step' \notin {"scan_finders", "scan_algorithms", "select", "find", "limit", "call"}
        /\ outcome' # "run"
    BY <1>5, <1>6, <1>s DEF ParseArgs, FindChainConfig, ReadChainConfig, CheckBaselineVersion,
          ApplyArguments, ApplyOption, CheckInputsAndLogs, Goto
  <2> QED BY <2>1
<1>7. CASE LoadAlgorithmList
  <2>1. CASE \E o \in {"exit", "crash"} : Stop(o)
    BY <1>s, <2>1
  <2>2. CASE ~\E o \in {"exit", "crash"} : Stop(o)
    <3>1. /\ algorithm_list' = Names(install.entries) /\ install' = install
          /\ outcome' = outcome /\ outcome = "none"
          /\ step' = IF listFile'.ext = "xml" THEN "scan_finders" ELSE "select"
      BY <1>5, <1>7, <2>2 DEF LoadAlgorithmList, Goto, Names
    <3> QED BY <3>1
  <2> QED BY <2>1, <2>2
<1>8. CASE ScanFinder
  <2>1. /\ step = "scan_finders" /\ install' = install /\ algorithm_list' = algorithm_list
        /\ outcome' = "none"
        /\ step' = "scan_finders" \/ (step' = "scan_algorithms" /\ index' = 1)
    BY <1>5, <1>8 DEF ScanFinder, Goto
  <2> QED BY <1>1, <1>4, <1>5, <2>1
<1>9. CASE ScanAlgorithm
  <2>1. /\ step = "scan_algorithms" /\ install' = install /\ outcome' = "none"
        /\ listFile' = listFile
    BY <1>5, <1>9 DEF ScanAlgorithm, Goto
  <2>2. CASE index > Len(algorithm_list)
    <3>1. algorithm_list' = algorithm_list /\ step' = "select"
      BY <1>5, <1>9, <2>2 DEF ScanAlgorithm, Goto
    <3>2. algorithm_list = Left(install.entries)
      BY <1>1, <1>3, <1>5, <2>1, <2>2
    <3> QED BY <2>1, <3>1, <3>2
  <2>3. CASE index <= Len(algorithm_list)
    <3>1. /\ step' = "scan_algorithms" /\ index' = index + 1
          /\ algorithm_list' = IF ValueOf(install.entries, algorithm_list[index]) = "Disable"
                               THEN RemoveAt(algorithm_list, index) ELSE algorithm_list
      BY <1>5, <1>9, <2>3 DEF ScanAlgorithm, Goto
    <3>2. index \in 1..Len(algorithm_list)
      BY <1>5, <2>3
    <3>3. Walk(install.entries, algorithm_list, index)
      BY <1>1, <2>1
    <3>4. Walk(install.entries, algorithm_list', index + 1)
      <4>1. CASE ValueOf(install.entries, algorithm_list[index]) = "Disable"
        BY <1>5, <3>1, <3>2, <3>3, <4>1, WalkRemoves
      <4>2. CASE ValueOf(install.entries, algorithm_list[index]) # "Disable"
        BY <1>5, <3>1, <3>2, <3>3, <4>2, WalkKeeps
      <4> QED BY <4>1, <4>2
    <3> QED BY <2>1, <3>1, <3>4
  <2> QED BY <1>5, <2>2, <2>3
<1>10. CASE SelectInputs \/ RunFinder \/ LimitAndCheckFiles \/ CallRunChain
  <2>1. CASE \E o \in {"exit", "crash"} : Stop(o)
    BY <1>s, <2>1
  <2>2. CASE ~\E o \in {"exit", "crash"} : Stop(o)
    <3>1. /\ step \in {"select", "find", "limit", "call"} /\ step' \in {"find", "limit", "call", "end"}
          /\ UNCHANGED <<install, listFile, algorithm_list>>
      BY <1>10, <2>2 DEF SelectInputs, RunFinder, LimitAndCheckFiles, CallRunChain, Goto, listVars
    <3> QED BY <1>1, <3>1
  <2> QED BY <2>1, <2>2
<1>11. CASE UNCHANGED mainVars \/ Ended
  <2>1. UNCHANGED <<install, step, outcome, listFile, algorithm_list, index>>
    BY <1>11 DEF Ended, mainVars, listVars
  <2> QED BY <1>1, <2>1
<1> QED BY <1>6, <1>7, <1>8, <1>9, <1>10, <1>11 DEF MainNext

\* The algorithms that are run are exactly those that the loop keeps, in the
\* order of the file, for every algorithm list.
THEOREM ListIsExact == MainSpec => []ListExact
<1>1. MainInit => TInv /\ LInv
  BY TypesInit, ListInit
<1>2. TInv /\ LInv /\ [MainNext]_mainVars => TInv' /\ LInv'
  BY TypesInductive, ListInductive
<1>3. LInv => ListExact
  BY DEF LInv, ListExact, Runs, Reached
<1> QED BY <1>1, <1>2, <1>3, PTL DEF MainSpec

-----------------------------------------------------------------------------
(* The L1b files *)

Distinct(s) == \A j, k \in 1..Len(s) : s[j] = s[k] => j = k

\* Neither --cs2testdir nor --file nor --dir: the finders are asked.
Searched == args.file = NoL1b /\ ~args.dir /\ ~args.cs2testdir

\* What a finder contributes, and the first n finders.
Picked(finder) == IF OnlyOther[finder] \in DOMAIN config THEN {} ELSE Hits(finder)
PickedBy(n) == UNION {Picked(finder_list[j]) : j \in 1..n}
Usable(n) == \A j \in 1..n : finder_list[j] \in DOMAIN Mode /\ ~FinderFails(finder_list[j])

SInv ==
    /\ l1b_file_list \in Seq(install.archive \cup {args.file})
    /\ step \notin {"find", "limit", "call", "end"} => l1b_file_list = <<>>
    /\ Distinct(finder_list)
    /\ step = "find" => /\ Usable(index - 1) /\ Distinct(l1b_file_list)
                        /\ ToSet(l1b_file_list) = PickedBy(index - 1)
    /\ Reached({"limit", "call"}) /\ Searched =>
         /\ Usable(Len(finder_list)) /\ Distinct(l1b_file_list)
         /\ ToSet(l1b_file_list) \subseteq PickedBy(Len(finder_list))
         /\ step = "limit" \/ args.max_files = 0 =>
              ToSet(l1b_file_list) = PickedBy(Len(finder_list))

\* Two lists one behind the other.
LEMMA JoinFacts ==
  ASSUME NEW T, NEW s \in Seq(T), NEW r \in Seq(T)
  PROVE  /\ s \o r \in Seq(T) /\ ToSet(s \o r) = ToSet(s) \cup ToSet(r)
         /\ Distinct(s) /\ Distinct(r) /\ ToSet(s) \cap ToSet(r) = {} => Distinct(s \o r)
<1> DEFINE c == s \o r
<1>1. /\ c \in Seq(T) /\ Len(c) = Len(s) + Len(r)
      /\ Len(s) \in Nat /\ Len(r) \in Nat
      /\ \A j \in 1..Len(s) + Len(r) : c[j] = IF j <= Len(s) THEN s[j] ELSE r[j - Len(s)]
  BY ConcatProperties, LenProperties
<1>2. DOMAIN c = 1..Len(c) /\ DOMAIN s = 1..Len(s) /\ DOMAIN r = 1..Len(r)
  BY <1>1, LenProperties
<1> HIDE DEF c
<1>3. ASSUME NEW j \in 1..Len(c)
      PROVE  \/ j \in 1..Len(s) /\ c[j] = s[j]
             \/ j - Len(s) \in 1..Len(r) /\ c[j] = r[j - Len(s)]
  BY <1>1
<1>4. \A j \in 1..Len(s) : j \in 1..Len(c) /\ c[j] = s[j]
  BY <1>1
<1>5. ASSUME NEW j \in 1..Len(r)
      PROVE  j + Len(s) \in 1..Len(c) /\ c[j + Len(s)] = r[j]
  <2>1. /\ j + Len(s) \in 1..Len(s) + Len(r) /\ ~(j + Len(s) <= Len(s))
        /\ (j + Len(s)) - Len(s) = j
    BY <1>1
  <2> QED BY <1>1, <2>1
<1>6. ToSet(c) = ToSet(s) \cup ToSet(r)
  <2>1. \A x \in ToSet(c) : x \in ToSet(s) \cup ToSet(r)
    BY <1>2, <1>3 DEF ToSet
  <2>2. \A x \in ToSet(s) : x \in ToSet(c)
    BY <1>2, <1>4 DEF ToSet
  <2>3. \A x \in ToSet(r) : x \in ToSet(c)
    BY <1>2, <1>5 DEF ToSet
  <2> QED BY <2>1, <2>2, <2>3
<1>7. ASSUME Distinct(s), Distinct(r), ToSet(s) \cap ToSet(r) = {},
             NEW j \in 1..Len(c), NEW k \in 1..Len(c), c[j] = c[k]
      PROVE  j = k
  <2>1. \A a \in 1..Len(s), b \in 1..Len(r) : s[a] # r[b]
    BY <1>2, <1>7, Zenon DEF ToSet
  <2>2. CASE j \in 1..Len(s) /\ c[j] = s[j]
    BY <1>3, <1>7, <2>1, <2>2 DEF Distinct
  <2>3. CASE j - Len(s) \in 1..Len(r) /\ c[j] = r[j - Len(s)]
    <3>1. k - Len(s) \in 1..Len(r) /\ c[k] = r[k - Len(s)]
      BY <1>3, <1>7, <2>1, <2>3
    <3>2. j - Len(s) = k - Len(s)
      BY <1>7, <2>3, <3>1 DEF Distinct
    <3> QED BY <1>1, <3>2
  <2> QED BY <1>3, <2>2, <2>3
<1>8. Distinct(s) /\ Distinct(r) /\ ToSet(s) \cap ToSet(r) = {} => Distinct(c)
  BY <1>7 DEF Distinct
<1> QED BY <1>1, <1>6, <1>8 DEF c

\* The files of a set in some order: each of them once.
LEMMA SeqsFacts ==
  ASSUME NEW S, IsFiniteSet(S), NEW s \in SetToSeqs(S)
  PROVE  s \in Seq(S) /\ Distinct(s) /\ ToSet(s) = S
<1> DEFINE n == Cardinality(S)
<1>1. n \in Nat
  BY FS_CardinalityType
<1>2. s \in [1..n -> S] /\ \A j, k \in 1..n : j # k => s[j] # s[k]
  BY DEF SetToSeqs
<1>3. IsFiniteSet(1..n) /\ Cardinality(1..n) = n
  BY <1>1, FS_Interval
<1> HIDE DEF n
<1>4. s \in Seq(S) /\ Len(s) = n /\ DOMAIN s = 1..n
  BY <1>1, <1>2
<1>5. Distinct(s)
  BY <1>2, <1>4 DEF Distinct
<1>6. s \in Injection(1..n, S)
  BY <1>2 DEF Injection, IsInjective
<1>7. s \in Surjection(1..n, S)
  BY <1>3, <1>6, FS_Injection DEF n
<1>8. ToSet(s) = S
  BY <1>2, <1>4, <1>7 DEF ToSet, Surjection
<1> QED BY <1>4, <1>5, <1>8

\* What a finder returns, and what two finders return.
LEMMA FoundFacts ==
  ASSUME IsFiniteSet(install.archive), NEW g, NEW files \in Found(g)
  PROVE  files \in Seq(install.archive) /\ Distinct(files) /\ ToSet(files) = Picked(g)
<1>1. CASE OnlyOther[g] \in DOMAIN config
  <2>1. files = <<>> /\ Picked(g) = {}
    BY <1>1 DEF Found, Picked
  <2> QED BY <2>1, EmptySeq, EmptyFacts DEF Distinct
<1>2. CASE OnlyOther[g] \notin DOMAIN config
  <2>1. files \in SetToSeqs(Hits(g)) /\ Picked(g) = Hits(g)
    BY <1>2 DEF Found, Picked, ByMonth
  <2>2. Hits(g) \in SUBSET install.archive
    BY DEF Hits
  <2>3. IsFiniteSet(Hits(g))
    BY <2>2, FS_Subset
  <2>4. files \in Seq(Hits(g)) /\ Distinct(files) /\ ToSet(files) = Hits(g)
    BY <2>1, <2>3, SeqsFacts
  <2>5. files \in Seq(install.archive)
    BY <2>2, <2>4, ElementOfSeq, LenProperties
  <2> QED BY <2>1, <2>4, <2>5
<1> QED BY <1>1, <1>2

LEMMA PickedApart ==
  ASSUME NEW g \in DOMAIN Mode, NEW h \in DOMAIN Mode, g # h
  PROVE  Picked(g) \cap Picked(h) = {}
<1>1. Mode[g] # Mode[h]
  BY DEF Mode
<1>2. /\ \A f \in Picked(g) : f.mode = Mode[g]
      /\ \A f \in Picked(h) : f.mode = Mode[h]
  BY DEF Picked, Hits
<1> QED BY <1>1, <1>2

\* Neither changes while the finders are asked.
LEMMA PickedStays ==
  ASSUME UNCHANGED <<args, install, config, finder_list>>, NEW n
  PROVE  PickedBy(n)' = PickedBy(n) /\ Usable(n)' = Usable(n)
<1>1. Years' = Years /\ Months' = Months
  BY DEF Years, Months, Given
<1>2. GreenlandOnly' = GreenlandOnly
  BY DEF GreenlandOnly
<1>3. \A g : Hits(g)' = Hits(g)
  BY <1>1, <1>2 DEF Hits
<1>4. \A g : FinderFails(g)' = FinderFails(g)
  BY <1>1, <1>2 DEF FinderFails
<1>5. \A g : Picked(g)' = Picked(g)
  BY <1>3 DEF Picked
<1> QED BY <1>4, <1>5 DEF PickedBy, Usable

LEMMA RemovedDistinct ==
  ASSUME NEW T, NEW s \in Seq(T), NEW k \in 1..Len(s), Distinct(s)
  PROVE  Distinct(RemoveAt(s, k))
<1> DEFINE r == RemoveAt(s, k)
<1>1. /\ Len(r) = Len(s) - 1 /\ Len(s) \in Nat
      /\ \A j \in 1..Len(s) - 1 : r[j] = IF j < k THEN s[j] ELSE s[j + 1]
  BY RemoveAtFacts, LenProperties
<1> HIDE DEF r
<1>2. ASSUME NEW a \in 1..Len(s) - 1, NEW b \in 1..Len(s) - 1, r[a] = r[b]
      PROVE  a = b
  <2> DEFINE x == IF a < k THEN a ELSE a + 1
             y == IF b < k THEN b ELSE b + 1
  <2>1. x \in 1..Len(s) /\ y \in 1..Len(s)
    BY <1>1
  <2>2. s[x] = s[y]
    BY <1>1, <1>2
  <2>3. x = y
    BY <2>1, <2>2 DEF Distinct
  <2> QED BY <1>1, <2>3
<1> QED BY <1>1, <1>2 DEF Distinct, r

\* The beginning of a list.
LEMMA BeginningFacts ==
  ASSUME NEW T, NEW s \in Seq(T), NEW n \in Int, n <= Len(s)
  PROVE  /\ SubSeq(s, 1, n) \in Seq(T) /\ ToSet(SubSeq(s, 1, n)) \subseteq ToSet(s)
         /\ Len(SubSeq(s, 1, n)) = IF n >= 0 THEN n ELSE 0
         /\ Distinct(s) => Distinct(SubSeq(s, 1, n))
<1> DEFINE r == SubSeq(s, 1, n)
<1>0. Len(s) \in Nat /\ DOMAIN s = 1..Len(s) /\ \A j \in 1..Len(s) : s[j] \in T
  BY LenProperties, ElementOfSeq
<1>1. \A j \in 1..n : s[j] \in T /\ j \in 1..Len(s)
  BY <1>0
<1>2. /\ r \in Seq(T) /\ Len(r) = IF 1 <= n THEN n - 1 + 1 ELSE 0
      /\ \A j \in 1..n - 1 + 1 : r[j] = s[1 + j - 1]
  BY <1>1, SubSeqProperties
<1> HIDE DEF r
<1>3. Len(r) = (IF n >= 0 THEN n ELSE 0) /\ DOMAIN r = 1..Len(r)
  BY <1>2, LenProperties
<1>4. \A j \in 1..Len(r) : j \in 1..Len(s) /\ r[j] = s[j]
  BY <1>0, <1>2, <1>3
<1>5. ToSet(r) \subseteq ToSet(s)
  BY <1>0, <1>3, <1>4, Zenon DEF ToSet
<1>6. Distinct(s) => Distinct(r)
  BY <1>4 DEF Distinct
<1> QED BY <1>2, <1>3, <1>5, <1>6 DEF r

LEMMA SelectionInit == MainInit => SInv
<1> SUFFICES ASSUME MainInit PROVE SInv
  OBVIOUS
<1>1. /\ step = "parse" /\ outcome = "none" /\ finder_list = <<>> /\ l1b_file_list = <<>>
  BY DEF MainInit
<1>2. Distinct(finder_list) /\ l1b_file_list \in Seq(install.archive \cup {args.file})
  BY <1>1, EmptySeq DEF Distinct
<1> QED BY <1>1, <1>2 DEF SInv, Reached

LEMMA SelectionInductive == TInv /\ SInv /\ [MainNext]_mainVars => SInv'
<1> SUFFICES ASSUME TInv, SInv, [MainNext]_mainVars PROVE SInv'
  OBVIOUS
<1> DEFINE All == install.archive \cup {args.file}
<1>0. /\ outcome = "none" <=> step # "end"
      /\ ModuleList(install.finders) /\ IsFiniteSet(install.archive) /\ args.max_files \in Int
      /\ finder_list \in Seq(Text) /\ index \in Nat \ {0} /\ Len(finder_list) \in Nat
      /\ step = "select" => index = 1
      /\ step = "find" => index <= Len(finder_list) + 1
  BY GivenFacts, LenProperties DEF TInv, MainTypeOK
<1>1. /\ l1b_file_list \in Seq(All) /\ Distinct(finder_list)
      /\ step \notin {"find", "limit", "call", "end"} => l1b_file_list = <<>>
      /\ step = "find" => /\ Usable(index - 1) /\ Distinct(l1b_file_list)
                         /\ ToSet(l1b_file_list) = PickedBy(index - 1)
      /\ (step \in {"limit", "call"} \/ outcome = "run") /\ Searched =>
           /\ Usable(Len(finder_list)) /\ Distinct(l1b_file_list)
           /\ ToSet(l1b_file_list) \subseteq PickedBy(Len(finder_list))
           /\ step = "limit" \/ args.max_files = 0 =>
                ToSet(l1b_file_list) = PickedBy(Len(finder_list))
  BY DEF SInv, Reached
<1>2. ASSUME UNCHANGED <<args, install>>,
             step' \notin {"find", "limit", "call"}, outcome' # "run",
             l1b_file_list' = l1b_file_list, Distinct(finder_list'),
             step' # "end" => step \notin {"find", "limit", "call", "end"}
      PROVE  SInv'
  BY <1>1, <1>2 DEF SInv, Reached, Distinct
<1>3. CASE \E o \in {"exit", "crash"} : Stop(o)
  BY <1>1, <1>2, <1>3 DEF Stop, listVars
<1>4. CASE /\ ~\E o \in {"exit", "crash"} : Stop(o)
           /\ ParseArgs \/ FindChainConfig \/ ReadChainConfig \/ CheckBaselineVersion
              \/ ApplyArguments \/ ApplyOption \/ CheckInputsAndLogs
  <2>1. /\ step' \in {"find_config", "read_config", "check", "apply", "options", "find_list"}
        /\ outcome' # "run" /\ step \notin {"find", "limit", "call", "end"}
        /\ UNCHANGED <<args, install, l1b_file_list, finder_list>>
    BY <1>0, <1>4 DEF ParseArgs, FindChainConfig, ReadChainConfig, CheckBaselineVersion,
          ApplyArguments, ApplyOption, CheckInputsAndLogs, Goto, listVars
  <2> QED BY <1>1, <1>2, <2>1
<1>5. CASE LoadAlgorithmList /\ ~\E o \in {"exit", "crash"} : Stop(o)
  <2>1. /\ step = "find_list" /\ step' \in {"scan_finders", "select"} /\ outcome' # "run"
        /\ finder_list' = [k \in DOMAIN install.finders |-> install.finders[k].name]
        /\ UNCHANGED <<args, install, l1b_file_list>>
    BY <1>0, <1>5 DEF LoadAlgorithmList, Goto
  <2>2. Len(finder_list') = Len(install.finders) /\ DOMAIN install.finders = 1..Len(install.finders)
    BY <1>0, <2>1, NamesFacts, Zenon
  <2>3. \A j, k \in DOMAIN install.finders :
          install.finders[j].name = install.finders[k].name => j = k
    BY <1>0 DEF ModuleList
  <2>4. Distinct(finder_list')
    BY <2>1, <2>2, <2>3 DEF Distinct
  <2> QED BY <1>2, <2>1, <2>4
<1>6. CASE ScanFinder \/ ScanAlgorithm
  <2>1. /\ step \in {"scan_finders", "scan_algorithms"} /\ outcome' # "run"
        /\ step' \in {"scan_finders", "scan_algorithms", "select"}
        /\ \/ finder_list' = finder_list
           \/ index <= Len(finder_list) /\ finder_list' = RemoveAt(finder_list, index)
        /\ UNCHANGED <<args, install, l1b_file_list>>
    BY <1>0, <1>6 DEF ScanFinder, ScanAlgorithm, Goto
  <2>2. Distinct(finder_list')
    <3>1. CASE finder_list' = finder_list
      BY <1>1, <3>1
    <3>2. CASE index <= Len(finder_list) /\ finder_list' = RemoveAt(finder_list, index)
      <4>1. index \in 1..Len(finder_list)
        BY <1>0, <3>2
      <4> QED BY <1>0, <1>1, <3>2, <4>1, RemovedDistinct
    <3> QED BY <2>1, <3>1, <3>2
  <2> QED BY <1>2, <2>1, <2>2
<1>7. CASE SelectInputs /\ ~\E o \in {"exit", "crash"} : Stop(o)
  <2>1. /\ step = "select" /\ outcome' = "none"
        /\ UNCHANGED <<args, install, config, finder_list, index>>
        /\ \/ step' = "limit" /\ ~Searched /\ l1b_file_list' \in SetToSeqs(install.archive)
           \/ step' = "limit" /\ ~Searched /\ l1b_file_list' = <<args.file>>
           \/ step' = "find" /\ l1b_file_list' = l1b_file_list
    BY <1>0, <1>7 DEF SelectInputs, Goto, Searched
  <2>2. Searched' = Searched
    BY <2>1 DEF Searched
  <2>3. CASE step' = "limit" /\ ~Searched
    <3>1. l1b_file_list' \in Seq(All)
      <4>1. CASE l1b_file_list' \in SetToSeqs(install.archive)
        <5>1. l1b_file_list' \in Seq(install.archive)
          BY <1>0, <4>1, SeqsFacts
        <5> QED BY <5>1, ElementOfSeq, LenProperties
      <4>2. CASE l1b_file_list' = <<args.file>>
        BY <4>2
      <4> QED BY <2>1, <2>3, <4>1, <4>2
    <3> QED BY <1>1, <2>1, <2>2, <2>3, <3>1 DEF SInv, Reached, Distinct
  <2>4. CASE step' = "find"
    <3>1. l1b_file_list' = <<>> /\ index' = 1
      BY <1>0, <1>1, <2>1, <2>4
    <3>2. Distinct(l1b_file_list') /\ ToSet(l1b_file_list') = {}
      BY <3>1, EmptyFacts DEF Distinct
    <3>3. Usable(0) /\ PickedBy(0) = {}
      BY DEF Usable, PickedBy
    <3>4. Usable(0)' /\ PickedBy(0)' = {}
      BY <2>1, <3>3, PickedStays
    <3>5. index' - 1 = 0
      BY <3>1
    <3>6. Usable(index - 1)' /\ ToSet(l1b_file_list') = PickedBy(index - 1)'
      BY <3>2, <3>4, <3>5
    <3>7. l1b_file_list' \in Seq(All)
      BY <1>1, <2>1, <2>4
    <3> QED BY <1>1, <2>1, <2>4, <3>2, <3>6, <3>7 DEF SInv, Reached, Distinct
  <2> QED BY <2>1, <2>3, <2>4
<1>8. CASE RunFinder /\ ~\E o \in {"exit", "crash"} : Stop(o)
  <2>1. step = "find" /\ outcome' = "none" /\ UNCHANGED <<args, install, config, finder_list>>
    BY <1>0, <1>8 DEF RunFinder, Goto, listVars
  <2>2. CASE index > Len(finder_list)
    <3>1. step' = "limit" /\ l1b_file_list' = l1b_file_list /\ index' = index
      BY <1>0, <1>8, <2>2 DEF RunFinder, Goto
    <3>2. index - 1 = Len(finder_list)
      BY <1>0, <2>1, <2>2
    <3>3. Usable(Len(finder_list)) /\ ToSet(l1b_file_list) = PickedBy(Len(finder_list))
      BY <1>1, <2>1, <3>2
    <3>4. Usable(Len(finder_list))' /\ ToSet(l1b_file_list') = PickedBy(Len(finder_list))'
      BY <2>1, <3>1, <3>3, PickedStays
    <3> QED BY <1>1, <2>1, <3>1, <3>4 DEF SInv, Reached, Distinct
  <2>3. CASE index <= Len(finder_list)
    <3> DEFINE g == finder_list[index]
    <3>1. /\ g \in DOMAIN Mode /\ ~FinderFails(g) /\ step' = "find" /\ index' = index + 1
          /\ \E files \in Found(g) : l1b_file_list' = l1b_file_list \o files
      <4>1. ~(index > Len(finder_list)) /\ ~Stop("exit")
        BY <1>0, <1>8, <2>3
      <4> QED BY <1>8, <4>1, Zenon DEF RunFinder, Goto
    <3>2. PICK files \in Found(g) : l1b_file_list' = l1b_file_list \o files
      BY <3>1
    <3>3. files \in Seq(install.archive) /\ Distinct(files) /\ ToSet(files) = Picked(g)
      BY <1>0, FoundFacts
    <3>4. files \in Seq(All)
      BY <3>3, ElementOfSeq, LenProperties
    <3>5. /\ Usable(index - 1) /\ Distinct(l1b_file_list)
          /\ ToSet(l1b_file_list) = PickedBy(index - 1)
      BY <1>1, <2>1
    <3>6. index \in 1..Len(finder_list)
      BY <1>0, <2>3
    <3>7. ASSUME NEW j \in 1..index - 1 PROVE Picked(finder_list[j]) \cap Picked(g) = {}
      <4>1. j \in 1..Len(finder_list) /\ j # index
        BY <1>0, <3>6
      <4>2. finder_list[j] # g
        BY <1>1, <3>6, <4>1 DEF Distinct
      <4>3. finder_list[j] \in DOMAIN Mode
        BY <3>5 DEF Usable
      <4> QED BY <3>1, <4>2, <4>3, PickedApart
    <3>8. ToSet(l1b_file_list) \cap ToSet(files) = {}
      <4>1. ASSUME NEW x \in PickedBy(index - 1) PROVE x \notin Picked(g)
        <5>1. PICK j \in 1..index - 1 : x \in Picked(finder_list[j])
          BY Zenon DEF PickedBy
        <5> QED BY <3>7, <5>1
      <4> QED BY <3>3, <3>5, <4>1, Zenon
    <3>9. /\ l1b_file_list' \in Seq(All) /\ Distinct(l1b_file_list')
          /\ ToSet(l1b_file_list') = PickedBy(index - 1) \cup Picked(g)
      BY <1>1, <3>2, <3>3, <3>4, <3>5, <3>8, JoinFacts
    <3>10. \A j : j \in 1..index <=> j \in 1..index - 1 \/ j = index
      BY <1>0
    <3>11. PickedBy(index) = PickedBy(index - 1) \cup Picked(g)
      BY <3>10, Zenon DEF PickedBy
    <3>12. Usable(index)
      BY <3>1, <3>5, <3>10 DEF Usable
    <3>13. index' - 1 = index
      BY <1>0, <3>1
    <3>14. Usable(index - 1)'
      BY <2>1, <3>12, <3>13, PickedStays
    <3>15. PickedBy(index - 1)' = PickedBy(index)
      BY <2>1, <3>13, PickedStays
    <3>16. ToSet(l1b_file_list') = PickedBy(index - 1)'
      BY <3>9, <3>11, <3>15
    <3> HIDE DEF g
    <3> QED BY <1>1, <2>1, <3>1, <3>9, <3>14, <3>16 DEF SInv, Reached, Distinct
  <2> QED BY <1>0, <2>2, <2>3
<1>9. CASE LimitAndCheckFiles /\ ~\E o \in {"exit", "crash"} : Stop(o)
  <2> DEFINE n == Len(l1b_file_list)
             m == IF args.max_files > 0 THEN args.max_files ELSE n + args.max_files
  <2>1. /\ step = "limit" /\ step' = "call" /\ outcome' = "none"
        /\ UNCHANGED <<args, install, config, finder_list>>
        /\ l1b_file_list' = IF args.max_files # 0 /\ n > args.max_files
                            THEN SubSeq(l1b_file_list, 1, m) ELSE l1b_file_list
    BY <1>0, <1>9 DEF LimitAndCheckFiles, Goto, listVars
  <2>2. n \in Nat
    BY <1>1, LenProperties
  <2>3. /\ l1b_file_list' \in Seq(All) /\ ToSet(l1b_file_list') \subseteq ToSet(l1b_file_list)
        /\ Distinct(l1b_file_list) => Distinct(l1b_file_list')
        /\ args.max_files = 0 => l1b_file_list' = l1b_file_list
    <3>1. CASE args.max_files # 0 /\ n > args.max_files
      <4>1. m \in Int /\ m <= n
        BY <1>0, <2>2, <3>1
      <4>2. l1b_file_list' = SubSeq(l1b_file_list, 1, m)
        BY <2>1, <3>1
      <4> HIDE DEF m
      <4> QED BY <1>1, <3>1, <4>1, <4>2, BeginningFacts
    <3>2. CASE ~(args.max_files # 0 /\ n > args.max_files)
      BY <1>1, <2>1, <3>2
    <3> QED BY <3>1, <3>2
  <2>4. Searched' = Searched
    BY <2>1 DEF Searched
  <2>5. CASE ~Searched
    BY <1>1, <2>1, <2>3, <2>4, <2>5 DEF SInv, Reached, Distinct
  <2>6. CASE Searched
    <3>1. /\ Usable(Len(finder_list)) /\ Distinct(l1b_file_list)
          /\ ToSet(l1b_file_list) = PickedBy(Len(finder_list))
      BY <1>1, <2>1, <2>6
    <3>2. Usable(Len(finder_list))' /\ PickedBy(Len(finder_list))' = PickedBy(Len(finder_list))
      BY <2>1, <3>1, PickedStays
    <3>3. /\ Distinct(l1b_file_list')
          /\ ToSet(l1b_file_list') \subseteq PickedBy(Len(finder_list))'
          /\ args.max_files = 0 => ToSet(l1b_file_list') = PickedBy(Len(finder_list))'
      BY <2>3, <3>1, <3>2
    <3> QED BY <1>1, <2>1, <2>3, <3>2, <3>3 DEF SInv, Reached, Distinct
  <2> QED BY <2>5, <2>6
<1>10. CASE \/ CallRunChain /\ ~\E o \in {"exit", "crash"} : Stop(o)
            \/ Ended \/ UNCHANGED mainVars
  <2>1. /\ UNCHANGED <<args, install, config, finder_list, l1b_file_list>>
        /\ \/ UNCHANGED <<step, outcome, index>>
           \/ step = "call" /\ step' = "end" /\ outcome' = "run"
    BY <1>10 DEF CallRunChain, Ended, mainVars, listVars
  <2>2. Searched' = Searched
    BY <2>1 DEF Searched
  <2>3. Distinct(l1b_file_list') = Distinct(l1b_file_list) /\ Distinct(finder_list')
    BY <1>1, <2>1
  <2>4. /\ Usable(Len(finder_list))' = Usable(Len(finder_list))
        /\ PickedBy(Len(finder_list))' = PickedBy(Len(finder_list))
    BY <2>1, PickedStays
  <2>5. CASE UNCHANGED <<step, outcome, index>>
    <3>1. Usable(index - 1)' = Usable(index - 1) /\ PickedBy(index - 1)' = PickedBy(index - 1)
      BY <2>1, <2>5, PickedStays
    <3> QED BY <1>1, <2>1, <2>2, <2>3, <2>4, <2>5, <3>1 DEF SInv, Reached, Distinct
  <2>6. CASE step = "call" /\ step' = "end" /\ outcome' = "run"
    BY <1>1, <2>1, <2>2, <2>3, <2>4, <2>6 DEF SInv, Reached, Distinct
  <2> QED BY <2>1, <2>5, <2>6
<1> QED BY <1>3, <1>4, <1>5, <1>6, <1>7, <1>8, <1>9, <1>10 DEF MainNext

LEMMA DistinctCount ==
  ASSUME NEW T, NEW s \in Seq(T), Distinct(s)
  PROVE  Cardinality(ToSet(s)) = Len(s)
<1> DEFINE n == Len(s)
<1>1. n \in Nat /\ DOMAIN s = 1..n /\ s \in [1..n -> ToSet(s)]
      /\ ToSet(s) = {s[j] : j \in 1..n}
  BY LenProperties DEF ToSet
<1>2. \A j, k \in 1..n : s[j] = s[k] => j = k
  BY DEF Distinct
<1> HIDE DEF n
<1>3. IsFiniteSet(1..n) /\ Cardinality(1..n) = n
  <2>1. n \in Nat
    BY <1>1
  <2> QED BY <2>1, FS_Interval
<1>4. s \in Surjection(1..n, ToSet(s))
  BY <1>1 DEF Surjection
<1>5. s \in Injection(1..n, ToSet(s))
  BY <1>1, <1>2 DEF Injection, IsInjective
<1> QED BY <1>3, <1>4, <1>5, FS_Surjection DEF n

\* A finder that did not fail contributes the files of its mode that the
\* command line asks for.
LEMMA PickedRequested ==
  ASSUME NEW g \in ToSet(finder_list), g \in DOMAIN Mode, NEW f \in Picked(g)
  PROVE  Requested(f)
<1>1. /\ OnlyOther[g] \notin DOMAIN config /\ f.mode = Mode[g] /\ f.wanted
      /\ f.year \in Years /\ f.month \in Months /\ (GreenlandOnly => InGreenland(f))
  BY DEF Picked, Hits
<1>2. f.year = args.year /\ args.month \in {NoMonth, f.month}
  <2>1. f.year = args.year /\ (Given(args.month) \/ args.month = NoMonth)
    BY <1>1 DEF Years
  <2>2. Given(args.month) => f.month = args.month
    BY <1>1 DEF Months
  <2> QED BY <2>1, <2>2, Zenon
<1>3. \/ g = "find_lrm" /\ f.mode = "LRM" /\ <<"sin_only">> \notin DOMAIN config
      \/ g = "find_sin" /\ f.mode = "SIN" /\ <<"lrm_only">> \notin DOMAIN config
  BY <1>1 DEF Mode, OnlyOther
<1>4. \E finder \in ToSet(finder_list) : Mode[finder] = f.mode
  BY <1>1
<1> QED BY <1>1, <1>2, <1>3, <1>4, Zenon DEF Requested

LEMMA RequestedPicked ==
  ASSUME NEW f \in install.archive, f.month \in 1..12, Requested(f),
         \A g \in ToSet(finder_list) : g \in DOMAIN Mode /\ ~FinderFails(g)
  PROVE  \E g \in ToSet(finder_list) : f \in Picked(g)
<1>1. PICK g \in ToSet(finder_list) : Mode[g] = f.mode
  BY DEF Requested
<1>2. g \in DOMAIN Mode /\ ~FinderFails(g)
  OBVIOUS
<1>3. OnlyOther[g] \notin DOMAIN config
  <2>1. CASE g = "find_lrm"
    <3>1. f.mode = "LRM" /\ OnlyOther[g] = <<"sin_only">>
      BY <1>1, <2>1 DEF Mode, OnlyOther
    <3> QED BY <3>1, Zenon DEF Requested
  <2>2. CASE g = "find_sin"
    <3>1. f.mode = "SIN" /\ OnlyOther[g] = <<"lrm_only">>
      BY <1>1, <2>2 DEF Mode, OnlyOther
    <3> QED BY <3>1, Zenon DEF Requested
  <2> QED BY <1>2, <2>1, <2>2 DEF Mode
<1>4. Years # {}
  BY <1>2, <1>3, Zenon DEF FinderFails
<1>5. f.year \in Years
  BY <1>4 DEF Years, Requested
<1>6. f.month \in Months
  BY DEF Months, Given, Requested
<1>7. f \in Hits(g)
  BY <1>1, <1>5, <1>6 DEF Hits, Requested
<1> QED BY <1>3, <1>7 DEF Picked

\* What the chain is run on are the files that the command line asks for,
\* none of them twice, and without --max_files all of them, for every
\* archive and every order in which the directories are listed.
THEOREM SelectionIsExact == MainSpec => []SelectedExactly
<1>1. MainInit => TInv /\ SInv
  BY TypesInit, SelectionInit
<1>2. TInv /\ SInv /\ [MainNext]_mainVars => TInv' /\ SInv'
  BY TypesInductive, SelectionInductive
<1>3. TInv /\ SInv => SelectedExactly
  <2> SUFFICES ASSUME TInv, SInv, Runs, Searched
               PROVE  /\ Cardinality(ToSet(l1b_file_list)) = Len(l1b_file_list)
                      /\ \A f \in ToSet(l1b_file_list) : Requested(f)
                      /\ args.max_files = 0 =>
                           {f \in install.archive : Requested(f)} \subseteq ToSet(l1b_file_list)
    BY DEF SelectedExactly, Searched
  <2> DEFINE L == Len(finder_list)
  <2>1. /\ Usable(L) /\ Distinct(l1b_file_list) /\ ToSet(l1b_file_list) \subseteq PickedBy(L)
        /\ args.max_files = 0 => ToSet(l1b_file_list) = PickedBy(L)
        /\ l1b_file_list \in Seq(install.archive \cup {args.file})
    BY DEF SInv, Reached, Runs
  <2>2. /\ finder_list \in Seq(Text) /\ \A f \in install.archive : f.month \in 1..12
    BY GivenFacts DEF TInv
  <2>3. ToSet(finder_list) = {finder_list[j] : j \in 1..L}
    BY <2>2, LenProperties DEF ToSet
  <2>4. \A g \in ToSet(finder_list) : g \in DOMAIN Mode /\ ~FinderFails(g)
    BY <2>1, <2>3 DEF Usable
  <2>5. PickedBy(L) = UNION {Picked(g) : g \in ToSet(finder_list)}
    BY <2>3 DEF PickedBy
  <2> HIDE DEF L
  <2>6. Cardinality(ToSet(l1b_file_list)) = Len(l1b_file_list)
    BY <2>1, DistinctCount
  <2>7. ASSUME NEW f \in ToSet(l1b_file_list) PROVE Requested(f)
    <3>1. PICK g \in ToSet(finder_list) : f \in Picked(g)
      BY <2>1, <2>5
    <3> QED BY <2>4, <3>1, PickedRequested
  <2>8. ASSUME args.max_files = 0, NEW f \in install.archive, Requested(f)
        PROVE  f \in ToSet(l1b_file_list)
    <3>1. \E g \in ToSet(finder_list) : f \in Picked(g)
      BY <2>2, <2>4, <2>8, RequestedPicked
    <3> QED BY <2>1, <2>5, <2>8, <3>1
  <2> QED BY <2>6, <2>7, <2>8
<1> QED BY <1>1, <1>2, <1>3, PTL DEF MainSpec

-----------------------------------------------------------------------------
(* What main() hands to run_chain() *)

\* The option of index k sets the path.
Sets(k, path) == Len(args.conf_opts[k]) > 1 /\ Front(args.conf_opts[k]) = path

\* The value of a path before any option: of a switch, else of the chain
\* configuration, else of the main configuration.
Base(path) ==
    LET switch == IF path = StopOnError THEN args.stop_on_error
                  ELSE args.multiprocessing \/ args.sequentialprocessing
        switched == path = StopOnError \/ ~args.sequentialprocessing
    IN  IF switch THEN Bool(switched)
        ELSE IF path \in DOMAIN install.content[chainFile] THEN install.content[chainFile][path]
        ELSE install.main[path]

\* The value that a path has after the first n options.
ValueAfter(path, n, v) ==
    \/ (\A k \in 1..n : ~Sets(k, path)) /\ v = Base(path)
    \/ \E k \in 1..n : /\ Sets(k, path) /\ v = Convert(Last(args.conf_opts[k]))
                       /\ \A j \in 1..n : Sets(j, path) => j <= k

\* A configuration after the first n options.  An option that replaces the
\* section "chain" by a value removes its settings, and no later option can
\* set one of them again.
Right(c, n) ==
    /\ \A path \in {MultiProcessing, StopOnError} :
         path \in DOMAIN c => ValueAfter(path, n, c[path])
    /\ \/ {SharedMemory, MaxProcesses} \subseteq DOMAIN c
       \/ <<"chain">> \in DOMAIN c /\ MultiProcessing \notin DOMAIN c

CInv ==
    /\ step \in {"check", "apply"} => config = FileConfig
    /\ step \notin Switching \cup {"end"} => opt = 1
    /\ Reached(Switching) => /\ Right(config, opt - 1)
                             /\ args.sharedmem => Truthy(Base(MultiProcessing))
    /\ Reached({"find_list"} \cup ListRead) => opt = Len(args.conf_opts) + 1
    /\ Reached({"find", "limit", "call"}) => MultiProcessing \in DOMAIN config
    /\ Reached({"call"}) =>
         /\ ToSet(l1b_file_list) \cap install.archive # {}
         /\ args.max_files > 0 => Len(l1b_file_list) <= args.max_files
    /\ Runs => /\ StopOnError \in DOMAIN config
               /\ runBreakpoint = Empty \/ Contains(algorithm_list, runBreakpoint)

\* Neither changes with the parts of main().
LEMMA RightStays ==
  ASSUME UNCHANGED <<args, install, chainFile>>, NEW c, NEW n
  PROVE  Right(c, n)' = Right(c, n) /\ Base(MultiProcessing)' = Base(MultiProcessing)
<1>1. \A path : Base(path)' = Base(path)
  BY DEF Base
<1>2. \A k, path : Sets(k, path)' = Sets(k, path)
  BY DEF Sets
<1>3. \A path, v : ValueAfter(path, n, v)' = ValueAfter(path, n, v)
  BY <1>1, <1>2 DEF ValueAfter
<1>4. Right(c, n)' = Right(c, n)
  BY <1>3 DEF Right
<1> QED BY <1>1, <1>4

LEMMA PathFacts ==
  /\ MultiProcessing # SharedMemory /\ MultiProcessing # MaxProcesses
  /\ MultiProcessing # StopOnError
  /\ StopOnError # SharedMemory /\ StopOnError # MaxProcesses
  /\ \A path \in {MultiProcessing, StopOnError, SharedMemory, MaxProcesses} :
       path[1] = "chain" /\ Len(path) = 2
  BY DEF MultiProcessing, SharedMemory, MaxProcesses, StopOnError

\* A configuration d that comes from c by a switch of the command line.
Changed(d, c, b, path, v) ==
    /\ \A p : p \in DOMAIN d <=> p \in DOMAIN c \/ (b /\ p = path)
    /\ b => d[path] = v
    /\ \A p \in DOMAIN c : p # path \/ ~b => d[p] = c[p]

LEMMA SwitchFacts ==
  ASSUME NEW c, NEW b \in BOOLEAN, NEW path, NEW v, NEW d, b => d = With(c, path, v), ~b => d = c
  PROVE  Changed(d, c, b, path, v)
<1>1. CASE b
  <2>1. d = With(c, path, v)
    BY <1>1
  <2>2. /\ DOMAIN d = DOMAIN c \cup {path} /\ d[path] = v
        /\ \A p \in DOMAIN c : p # path => d[p] = c[p]
    BY <2>1 DEF With
  <2>3. \A p : p \in DOMAIN d <=> p \in DOMAIN c \/ p = path
    BY <2>2
  <2> QED BY <1>1, <2>2, <2>3, Zenon DEF Changed
<1>2. CASE ~b
  BY <1>2, Zenon DEF Changed
<1> QED BY <1>1, <1>2

\* The switches of the command line, on the configuration of the files.
LEMMA SwitchedRight ==
  ASSUME {SharedMemory, MaxProcesses} \subseteq DOMAIN install.main,
         config = FileConfig,
         ~SharedMemRefused, args.sharedmem => MultiProcessing \in DOMAIN Switched
  PROVE  Right(Switched, 0) /\ (args.sharedmem => Truthy(Base(MultiProcessing)))
<1> DEFINE mp == IF args.multiprocessing THEN With(config, MultiProcessing, Bool(TRUE)) ELSE config
           sp == IF args.sequentialprocessing THEN With(mp, MultiProcessing, Bool(FALSE)) ELSE mp
           sm == IF args.sharedmem THEN With(sp, SharedMemory, Bool(TRUE)) ELSE sp
           np == IF args.nprocs # 0 THEN With(sm, MaxProcesses, Num(args.nprocs)) ELSE sm
           se == IF args.stop_on_error THEN With(np, StopOnError, Bool(TRUE)) ELSE np
           bmp == IF args.multiprocessing THEN TRUE ELSE FALSE
           bsp == IF args.sequentialprocessing THEN TRUE ELSE FALSE
           bsm == IF args.sharedmem THEN TRUE ELSE FALSE
           bnp == args.nprocs # 0
           bse == IF args.stop_on_error THEN TRUE ELSE FALSE
           File(path) == IF path \in DOMAIN install.content[chainFile] THEN install.content[chainFile][path]
                         ELSE install.main[path]
           Keeps(c) == /\ SharedMemory \in DOMAIN c /\ MaxProcesses \in DOMAIN c
                       /\ StopOnError \in DOMAIN c => c[StopOnError] = File(StopOnError)
           Chosen == IF bsp THEN Bool(FALSE) ELSE IF bmp THEN Bool(TRUE) ELSE File(MultiProcessing)
           Has(c) == MultiProcessing \in DOMAIN c => c[MultiProcessing] = Chosen
<1>1. /\ SharedMemory \in DOMAIN config /\ MaxProcesses \in DOMAIN config
      /\ \A path \in DOMAIN config : config[path] = File(path)
  BY DEF Merged, FileConfig
<1>2. Changed(mp, config, bmp, MultiProcessing, Bool(TRUE))
  BY SwitchFacts, Zenon
<1>3. Switched = se
  BY Zenon DEF Switched
<1>4. Base(MultiProcessing) = Chosen
  BY PathFacts, Zenon DEF Base
<1>5. Base(StopOnError) = IF bse THEN Bool(TRUE) ELSE File(StopOnError)
  BY Zenon DEF Base
<1> HIDE DEF mp, File
<1>7. Changed(sp, mp, bsp, MultiProcessing, Bool(FALSE))
  BY SwitchFacts, Zenon
<1> HIDE DEF sp
<1>8. Changed(sm, sp, bsm, SharedMemory, Bool(TRUE))
  BY SwitchFacts, Zenon
<1> HIDE DEF sm
<1>9. Changed(np, sm, bnp, MaxProcesses, Num(args.nprocs))
  BY SwitchFacts, Zenon
<1> HIDE DEF np
<1>10. Changed(se, np, bse, StopOnError, Bool(TRUE))
  BY SwitchFacts, Zenon
<1> HIDE DEF se, bmp, bsp, bsm, bnp, bse
<1>12. Keeps(mp)
  BY <1>1, <1>2, PathFacts, Zenon DEF Changed
<1>13. Keeps(sp) /\ Has(sp)
  <2>1. Keeps(sp)
    BY <1>7, <1>12, PathFacts, Zenon DEF Changed
  <2>2. CASE bsp
    <3>1. sp[MultiProcessing] = Bool(FALSE)
      BY <1>7, <2>2, Zenon DEF Changed
    <3> QED BY <2>1, <2>2, <3>1, Zenon
  <2>3. CASE ~bsp /\ bmp
    <3>1. mp[MultiProcessing] = Bool(TRUE) /\ MultiProcessing \in DOMAIN mp
      BY <1>2, <2>3, Zenon DEF Changed
    <3>2. sp[MultiProcessing] = mp[MultiProcessing]
      BY <1>7, <2>3, <3>1, Zenon DEF Changed
    <3> QED BY <2>1, <2>3, <3>1, <3>2, Zenon
  <2>4. CASE ~bsp /\ ~bmp
    BY <1>1, <1>2, <1>7, <2>4, Zenon DEF Changed
  <2> QED BY <2>1, <2>2, <2>3, <2>4
<1> HIDE DEF Chosen
<1>14. Keeps(sm) /\ Has(sm)
  BY <1>8, <1>13, PathFacts, Zenon DEF Changed
<1>15. Keeps(np) /\ Has(np)
  BY <1>9, <1>14, PathFacts, Zenon DEF Changed
<1>16. /\ SharedMemory \in DOMAIN se /\ MaxProcesses \in DOMAIN se /\ Has(se)
  BY <1>10, <1>15, PathFacts, Zenon DEF Changed
<1>17. StopOnError \in DOMAIN se =>
         se[StopOnError] = IF bse THEN Bool(TRUE) ELSE File(StopOnError)
  <2>1. CASE bse
    BY <1>10, <2>1, Zenon DEF Changed
  <2>2. CASE ~bse
    BY <1>10, <1>15, <2>2, Zenon DEF Changed
  <2> QED BY <2>1, <2>2
<1>18. ASSUME NEW path \in {MultiProcessing, StopOnError}, path \in DOMAIN Switched
       PROVE  ValueAfter(path, 0, Switched[path])
  <2>1. Switched[path] = Base(path)
    BY <1>3, <1>4, <1>5, <1>16, <1>17, <1>18
  <2>2. 1..0 = {}
    OBVIOUS
  <2> QED BY <2>1, <2>2 DEF ValueAfter
<1>19. args.sharedmem => Truthy(Base(MultiProcessing))
  BY <1>3, <1>4, <1>16, Zenon DEF SharedMemRefused
<1> QED BY <1>3, <1>16, <1>18, <1>19 DEF Right

\* A configuration c that comes from config by the option that gives the
\* path a value.  A key takes the place of a section of that name.
Replaced(c, path) ==
    /\ \A p : p \in DOMAIN c <=> p = path \/ (p \in DOMAIN config /\ p[1] # path[1])
    /\ \A p \in DOMAIN c : p # path => c[p] = config[p]

Applied(c, path, value) ==
    /\ ~(Len(path) = 2 /\ <<path[1]>> \in DOMAIN config)
    /\ Len(path) = 1 => path = <<path[1]>> /\ Replaced(c, path)
    /\ Len(path) = 2 => Changed(c, config, TRUE, path, value)
    /\ Len(path) \notin {1, 2} => c = config

\* One more option.
LEMMA OptionRight ==
  ASSUME NEW n \in Nat \ {0}, Right(config, n - 1), NEW c, NEW path, NEW value,
         Applied(c, path, value),
         \A p : Len(p) = 2 => (Sets(n, p) <=> path = p),
         Len(path) = 2 => value = Convert(Last(args.conf_opts[n]))
  PROVE  Right(c, n)
<1>1. ~(Len(path) = 2 /\ <<path[1]>> \in DOMAIN config)
  BY DEF Applied
<1>2. Len(path) = 1 => path = <<path[1]>> /\ Replaced(c, path)
  BY DEF Applied
<1>3. Len(path) = 2 => Changed(c, config, TRUE, path, value)
  BY DEF Applied
<1>4. Len(path) \notin {1, 2} => c = config
  BY DEF Applied
<1>5. ASSUME NEW p \in {MultiProcessing, StopOnError}, p \in DOMAIN c
      PROVE  ValueAfter(p, n, c[p])
  <2>1. Len(p) = 2 /\ p[1] = "chain"
    BY PathFacts
  <2>2. CASE Sets(n, p)
    <3>1. path = p /\ Len(path) = 2
      BY <2>1, <2>2
    <3>2. c[p] = value
      BY <1>3, <3>1, Zenon DEF Changed
    <3>3. c[p] = Convert(Last(args.conf_opts[n]))
      BY <3>1, <3>2
    <3>4. n \in 1..n /\ \A j \in 1..n : j <= n
      OBVIOUS
    <3> QED BY <2>2, <3>3, <3>4 DEF ValueAfter
  <2>3. CASE ~Sets(n, p)
    <3>1. p # path
      BY <2>1, <2>3
    <3>2. p \in DOMAIN config /\ c[p] = config[p]
      <4>1. CASE Len(path) = 1
        BY <1>2, <1>5, <3>1, <4>1, Zenon DEF Replaced
      <4>2. CASE Len(path) = 2
        BY <1>3, <1>5, <3>1, <4>2, Zenon DEF Changed
      <4>3. CASE Len(path) \notin {1, 2}
        BY <1>4, <1>5, <4>3
      <4> QED BY <4>1, <4>2, <4>3
    <3>3. ValueAfter(p, n - 1, c[p])
      BY <3>2 DEF Right
    <3>4. \A k : k \in 1..n <=> k \in 1..n - 1 \/ k = n
      OBVIOUS
    <3> QED BY <2>3, <3>3, <3>4, Zenon DEF ValueAfter
  <2> QED BY <2>2, <2>3
<1>6. \/ SharedMemory \in DOMAIN c /\ MaxProcesses \in DOMAIN c
      \/ <<"chain">> \in DOMAIN c /\ MultiProcessing \notin DOMAIN c
  <2>0. \/ SharedMemory \in DOMAIN config /\ MaxProcesses \in DOMAIN config
        \/ <<"chain">> \in DOMAIN config /\ MultiProcessing \notin DOMAIN config
    BY DEF Right
  <2>1. /\ MultiProcessing[1] = "chain" /\ SharedMemory[1] = "chain" /\ MaxProcesses[1] = "chain"
        /\ Len(MultiProcessing) = 2 /\ Len(SharedMemory) = 2 /\ Len(MaxProcesses) = 2
    BY PathFacts
  <2>2. CASE Len(path) = 1 /\ path[1] = "chain"
    <3>1. path = <<"chain">> /\ path \in DOMAIN c
      BY <1>2, <2>2 DEF Replaced
    <3>2. MultiProcessing # path
      BY <2>1, <2>2
    <3>3. MultiProcessing \notin DOMAIN c
      BY <1>2, <2>1, <2>2, <3>2 DEF Replaced
    <3> QED BY <3>1, <3>3
  <2>3. CASE Len(path) = 1 /\ path[1] # "chain"
    <3>1. \A p : p[1] = "chain" /\ p # path => (p \in DOMAIN c <=> p \in DOMAIN config)
      BY <1>2, <2>3 DEF Replaced
    <3>2. <<"chain">>[1] = "chain" /\ <<"chain">> # path
      BY <2>3
    <3>3. MultiProcessing # path /\ SharedMemory # path /\ MaxProcesses # path
      BY <2>1, <2>3
    <3> QED BY <2>0, <2>1, <3>1, <3>2, <3>3, Zenon
  <2>4. CASE Len(path) = 2
    <3>1. \A p : p \in DOMAIN c <=> p \in DOMAIN config \/ p = path
      BY <1>3, <2>4, Zenon DEF Changed
    <3>2. <<"chain">> \in DOMAIN config => path # MultiProcessing
      BY <1>1, <2>1, <2>4
    <3> QED BY <2>0, <3>1, <3>2
  <2>5. CASE Len(path) \notin {1, 2}
    BY <1>4, <2>0, <2>5
  <2> QED BY <2>2, <2>3, <2>4, <2>5
<1> QED BY <1>5, <1>6 DEF Right

\* What ApplyOption makes of the configuration.
LEMMA OptionApplied ==
  ASSUME TInv, ApplyOption, ~\E e \in {"exit", "crash"} : Stop(e)
  PROVE  Right(config, opt - 1) => Right(config', opt)
<1> DEFINE o == args.conf_opts[opt]
           path == IF Len(o) = 1 THEN o ELSE Front(o)
           value == IF Len(o) = 1 THEN Bool(TRUE) ELSE Convert(Last(o))
           rest == [p \in {q \in DOMAIN config : q[1] # path[1]} |-> config[p]]
<1>1. /\ opt <= Len(args.conf_opts)
      /\ ~(Len(path) = 2 /\ <<path[1]>> \in DOMAIN config)
      /\ config' = CASE Len(path) = 1 -> With(rest, path, value)
                     [] Len(path) = 2 -> With(config, path, value)
                     [] OTHER -> config
  BY DEF ApplyOption
<1>2. /\ args.conf_opts \in Seq(Seq(Text)) /\ Len(args.conf_opts) \in Nat
      /\ \A k \in DOMAIN args.conf_opts : args.conf_opts[k] # <<>>
      /\ opt \in 1..Len(args.conf_opts) + 1
  BY GivenFacts DEF TInv, MainTypeOK
<1>3. opt \in 1..Len(args.conf_opts) /\ opt \in Nat \ {0}
  BY <1>1, <1>2
<1>4. o \in Seq(Text) /\ o # <<>>
  BY <1>2, <1>3, ElementOfSeq
<1> HIDE DEF o
<1>5. /\ Len(o) \in Nat \ {0} /\ Len(path) = IF Len(o) = 1 THEN 1 ELSE Len(o) - 1
  BY <1>4, OptionFacts, Zenon
<1>6. path \in Seq(Text)
  <2>1. \A m \in Nat : m <= Len(o) => SubSeq(o, 1, m) \in Seq(Text)
    BY <1>4, <1>5
  <2>2. Len(o) - 1 \in Nat /\ Len(o) - 1 <= Len(o)
    BY <1>5
  <2>3. Front(o) \in Seq(Text)
    BY <2>1, <2>2 DEF Front
  <2> QED BY <1>4, <2>3
<1>7. Len(path) = 2 => value = Convert(Last(o))
  <2>1. CASE Len(o) = 1
    <3>1. Len(path) = 1
      BY <1>5, <2>1
    <3> QED BY <3>1
  <2>2. CASE Len(o) # 1
    BY <2>2, Zenon
  <2> QED BY <2>1, <2>2
<1>8. ASSUME NEW p, Len(p) = 2 PROVE (Len(o) > 1 /\ Front(o) = p) <=> path = p
  <2>1. CASE Len(o) = 1
    <3>1. Len(path) = 1
      BY <1>5, <2>1
    <3> QED BY <1>8, <2>1, <3>1
  <2>2. CASE Len(o) # 1
    <3>1. path = Front(o)
      BY <2>2
    <3>2. Len(o) > 1
      BY <1>5, <2>2
    <3> QED BY <3>1, <3>2
  <2> QED BY <2>1, <2>2
<1>9. /\ \A p : p \in DOMAIN rest <=> p \in DOMAIN config /\ p[1] # path[1]
      /\ \A p \in DOMAIN rest : rest[p] = config[p]
  OBVIOUS
<1> HIDE DEF path, value, rest
<1>10. Len(path) = 1 => path = <<path[1]>>
  BY <1>6
<1>11. ASSUME Len(path) = 1 PROVE Replaced(config', path)
  <2>1. config' = With(rest, path, value)
    BY <1>1, <1>11
  <2>2. /\ DOMAIN config' = DOMAIN rest \cup {path}
        /\ \A p \in DOMAIN rest : p # path => config'[p] = rest[p]
    BY <2>1 DEF With
  <2>3. \A p : p \in DOMAIN config' <=> p \in DOMAIN rest \/ p = path
    BY <2>2
  <2> QED BY <1>9, <2>2, <2>3, Zenon DEF Replaced
<1>12. ASSUME Len(path) = 2 PROVE Changed(config', config, TRUE, path, value)
  <2>1. config' = With(config, path, value)
    BY <1>1, <1>12
  <2> QED BY <2>1, SwitchFacts
<1>13. Len(path) \notin {1, 2} => config' = config
  BY <1>1
<1>14. Applied(config', path, value)
  BY <1>1, <1>10, <1>11, <1>12, <1>13 DEF Applied
<1>15. \A p : Len(p) = 2 => (Sets(opt, p) <=> path = p)
  BY <1>8 DEF Sets, o
<1>16. Len(path) = 2 => value = Convert(Last(args.conf_opts[opt]))
  BY <1>7 DEF o
<1> QED BY <1>3, <1>14, <1>15, <1>16, OptionRight

LEMMA RequestInit == MainInit => CInv
  BY DEF MainInit, CInv, Reached, Switching, ListRead, Runs

LEMMA RequestInductive == TInv /\ SInv /\ CInv /\ [MainNext]_mainVars => CInv'
<1> SUFFICES ASSUME TInv, SInv, CInv, [MainNext]_mainVars PROVE CInv'
  OBVIOUS
<1>0. /\ outcome = "none" <=> step # "end"
      /\ opt \in 1..Len(args.conf_opts) + 1 /\ Len(args.conf_opts) \in Nat
      /\ {SharedMemory, MaxProcesses} \subseteq DOMAIN install.main
      /\ args.max_files \in Int
  BY GivenFacts DEF TInv, MainTypeOK
<1> DEFINE Shared == args.sharedmem => Truthy(Base(MultiProcessing))
           Limited == /\ ToSet(l1b_file_list) \cap install.archive # {}
                      /\ args.max_files > 0 => Len(l1b_file_list) <= args.max_files
<1>1. /\ step \in {"check", "apply"} => config = FileConfig
      /\ step \notin Switching \cup {"end"} => opt = 1
      /\ step \in Switching \/ outcome = "run" => Right(config, opt - 1) /\ Shared
      /\ step \in {"find_list"} \cup ListRead \/ outcome = "run" => opt = Len(args.conf_opts) + 1
      /\ step \in {"find", "limit", "call"} \/ outcome = "run" => MultiProcessing \in DOMAIN config
      /\ step = "call" \/ outcome = "run" => Limited
  BY DEF CInv, Reached
<1> USE DEF Switching, ListRead
\* sys.exit() and an uncaught exception
<1>3. CASE \E o \in {"exit", "crash"} : Stop(o)
  <2>1. step' = "end" /\ outcome' # "run"
    BY <1>3 DEF Stop
  <2> QED BY <2>1 DEF CInv, Reached, Runs
<1>4. CASE /\ ~\E o \in {"exit", "crash"} : Stop(o)
           /\ ParseArgs \/ FindChainConfig \/ ReadChainConfig \/ CheckBaselineVersion
  <2>1. /\ outcome' = "none" /\ opt' = opt /\ UNCHANGED <<args, install>>
        /\ step \in {"parse", "find_config", "read_config", "check"}
        /\ step' \in {"find_config", "read_config", "check", "apply"}
        /\ step' \in {"check", "apply"} =>
             \/ step = "check" /\ config' = config
             \/ config' = FileConfig
        /\ step' \in {"check", "apply"} => chainFile' = chainFile
    BY <1>0, <1>4 DEF ParseArgs, FindChainConfig, ReadChainConfig, CheckBaselineVersion, Goto
  <2>2. step' \in {"check", "apply"} => config' = FileConfig'
    BY <1>1, <2>1 DEF FileConfig
  <2>3. opt' = 1
    BY <1>1, <2>1
  <2> QED BY <2>1, <2>2, <2>3 DEF CInv, Reached, Runs
<1>5. CASE ApplyArguments /\ ~\E o \in {"exit", "crash"} : Stop(o)
  <2>1. /\ step = "apply" /\ step' = "options" /\ config' = Switched
        /\ ~SharedMemRefused /\ (args.sharedmem => MultiProcessing \in DOMAIN Switched)
        /\ UNCHANGED <<args, install, outcome, opt, chainFile>>
    BY <1>5, Zenon DEF ApplyArguments, Goto
  <2>2. Right(Switched, 0) /\ Shared
    BY <1>0, <1>1, <2>1, SwitchedRight
  <2>3. opt' - 1 = 0
    BY <1>1, <2>1
  <2>4. Right(config, opt - 1)'
    BY <2>1, <2>2, <2>3, RightStays
  <2>5. args'.sharedmem => Truthy(Base(MultiProcessing)')
    BY <2>1, <2>2, RightStays
  <2> QED BY <1>0, <2>1, <2>4, <2>5 DEF CInv, Reached, Runs, Truthy
<1>6. CASE ApplyOption /\ ~\E o \in {"exit", "crash"} : Stop(o)
  <2>1. /\ step = "options" /\ step' = "options" /\ opt' = opt + 1
        /\ UNCHANGED <<args, install, outcome, chainFile>>
    BY <1>6 DEF ApplyOption, Goto
  <2>2. Right(config', opt)
    BY <1>1, <1>6, <2>1, OptionApplied
  <2>3. opt' - 1 = opt
    BY <1>0, <2>1
  <2>4. Right(config, opt - 1)'
    BY <2>1, <2>2, <2>3, RightStays
  <2>5. args'.sharedmem => Truthy(Base(MultiProcessing)')
    BY <1>1, <2>1, RightStays
  <2> QED BY <1>0, <2>1, <2>4, <2>5 DEF CInv, Reached, Runs, Truthy
\* The parts that only go on once the options have been applied.
<1>7. ASSUME UNCHANGED <<args, install, config, opt, chainFile>>,
             step \in Switching \/ outcome = "run", step' \in Switching \/ outcome' = "run",
             outcome' = "none" \/ step' = "end",
             opt = Len(args.conf_opts) + 1,
             step' \in {"find", "limit", "call"} \/ outcome' = "run" =>
               MultiProcessing \in DOMAIN config,
             step' = "call" \/ outcome' = "run" =>
               /\ ToSet(l1b_file_list') \cap install.archive # {}
               /\ args.max_files > 0 => Len(l1b_file_list') <= args.max_files,
             outcome' = "run" =>
               /\ StopOnError \in DOMAIN config
               /\ runBreakpoint' = Empty \/ Contains(algorithm_list', runBreakpoint')
      PROVE  CInv'
  <2>1. Right(config, opt - 1)'
    BY <1>1, <1>7, RightStays
  <2>2. args'.sharedmem => Truthy(Base(MultiProcessing)')
    BY <1>1, <1>7, RightStays
  <2>3. step' \notin {"check", "apply"} /\ step' \in Switching \cup {"end"}
    BY <1>7
  <2>4. Runs' => /\ StopOnError \in DOMAIN config'
                 /\ runBreakpoint' = Empty \/ Contains(algorithm_list', runBreakpoint')
    BY <1>7 DEF Runs
  <2> HIDE DEF Switching, ListRead
  <2> QED BY <1>7, <2>1, <2>2, <2>3, <2>4 DEF CInv, Reached, Truthy
<1>8. CASE CheckInputsAndLogs /\ ~\E o \in {"exit", "crash"} : Stop(o)
  <2>1. /\ step = "options" /\ step' = "find_list" /\ opt > Len(args.conf_opts)
        /\ UNCHANGED <<args, install, outcome, config, opt, chainFile>>
    BY <1>8 DEF CheckInputsAndLogs, Goto
  <2>2. opt = Len(args.conf_opts) + 1
    BY <1>0, <2>1
  <2> QED BY <1>0, <1>7, <2>1, <2>2
<1>9. CASE /\ ~\E o \in {"exit", "crash"} : Stop(o)
           /\ LoadAlgorithmList \/ ScanFinder \/ ScanAlgorithm
  <2>1. /\ step \in {"find_list", "scan_finders", "scan_algorithms"}
        /\ step' \in {"scan_finders", "scan_algorithms", "select"}
        /\ UNCHANGED <<args, install, outcome, config, opt, chainFile>>
    BY <1>9 DEF LoadAlgorithmList, ScanFinder, ScanAlgorithm, Goto
  <2> QED BY <1>0, <1>1, <1>7, <2>1
<1>10. CASE SelectInputs /\ ~\E o \in {"exit", "crash"} : Stop(o)
  <2>1. /\ step = "select" /\ step' \in {"find", "limit"} /\ MultiProcessing \in DOMAIN config
        /\ UNCHANGED <<args, install, outcome, config, opt, chainFile>>
    BY <1>10 DEF SelectInputs, Goto
  <2> QED BY <1>0, <1>1, <1>7, <2>1
<1>11. CASE RunFinder /\ ~\E o \in {"exit", "crash"} : Stop(o)
  <2>1. /\ step = "find" /\ step' \in {"find", "limit"}
        /\ UNCHANGED <<args, install, outcome, config, opt, chainFile>>
    BY <1>11 DEF RunFinder, Goto
  <2> QED BY <1>0, <1>1, <1>7, <2>1
<1>12. CASE LimitAndCheckFiles /\ ~\E o \in {"exit", "crash"} : Stop(o)
  <2> DEFINE n == Len(l1b_file_list)
             m == IF args.max_files > 0 THEN args.max_files ELSE n + args.max_files
  <2>1. /\ step = "limit" /\ step' = "call"
        /\ UNCHANGED <<args, install, outcome, config, opt, chainFile>>
        /\ l1b_file_list' = IF args.max_files # 0 /\ n > args.max_files
                            THEN SubSeq(l1b_file_list, 1, m) ELSE l1b_file_list
        /\ ToSet(l1b_file_list') \cap install.archive # {}
    BY <1>12 DEF LimitAndCheckFiles, Goto
  <2>2. ASSUME args.max_files > 0 PROVE Len(l1b_file_list') <= args.max_files
    <3>1. l1b_file_list \in Seq(install.archive \cup {args.file}) /\ n \in Nat
      BY LenProperties DEF SInv
    <3>2. CASE n > args.max_files
      <4>1. l1b_file_list' = SubSeq(l1b_file_list, 1, args.max_files)
        BY <1>0, <2>1, <2>2, <3>2
      <4>2. args.max_files <= Len(l1b_file_list) /\ args.max_files \in Int
        BY <1>0, <3>1, <3>2
      <4>3. Len(SubSeq(l1b_file_list, 1, args.max_files)) = args.max_files
        <5>1. Len(SubSeq(l1b_file_list, 1, args.max_files))
                = IF args.max_files >= 0 THEN args.max_files ELSE 0
          BY <3>1, <4>2, BeginningFacts
        <5> QED BY <1>0, <2>2, <5>1
      <4> QED BY <1>0, <4>1, <4>3
    <3>3. CASE ~(n > args.max_files)
      <4>1. l1b_file_list' = l1b_file_list
        BY <2>1, <3>3
      <4> QED BY <1>0, <3>1, <3>3, <4>1
    <3> QED BY <3>2, <3>3
  <2> QED BY <1>0, <1>1, <1>7, <2>1, <2>2
<1>13. CASE CallRunChain /\ ~\E o \in {"exit", "crash"} : Stop(o)
  <2>1. /\ step = "call" /\ step' = "end" /\ outcome' = "run"
        /\ UNCHANGED <<args, install, config, opt, chainFile, l1b_file_list, algorithm_list>>
        /\ StopOnError \in DOMAIN config /\ runBreakpoint' = args.breakpoint_after
        /\ args.breakpoint_after = Empty \/ Contains(algorithm_list, args.breakpoint_after)
    BY <1>13 DEF CallRunChain, listVars
  <2> QED BY <1>0, <1>1, <1>7, <2>1
<1>14. CASE Ended \/ UNCHANGED mainVars
  <2>1. UNCHANGED mainVars
    BY <1>14 DEF Ended
  <2>2. UNCHANGED <<args, install, step, outcome, chainFile, config, opt, algorithm_list,
                    l1b_file_list, runBreakpoint>>
    BY <2>1 DEF mainVars, listVars
  <2>3. Right(config, opt - 1)' = Right(config, opt - 1)
    BY <2>2, RightStays
  <2>4. Base(MultiProcessing)' = Base(MultiProcessing)
    BY <2>2, RightStays
  <2> HIDE DEF Switching, ListRead
  <2> QED BY <2>2, <2>3, <2>4 DEF CInv, Reached, Runs, Truthy, FileConfig
<1> QED BY <1>3, <1>4, <1>5, <1>6, <1>8, <1>9, <1>10, <1>11, <1>12, <1>13, <1>14 DEF MainNext

\* The value that a path has after all options, in the words of LastOption.
LEMMA LastValue ==
  ASSUME args.conf_opts \in Seq(Seq(Text)), NEW path, NEW v,
         ValueAfter(path, Len(args.conf_opts), v)
  PROVE  v = IF LastOption(path) # 0 THEN Convert(Last(args.conf_opts[LastOption(path)]))
             ELSE Base(path)
<1> DEFINE n == Len(args.conf_opts)
           S == {0} \cup {k \in DOMAIN args.conf_opts : Sets(k, path)}
<1>1. n \in Nat /\ DOMAIN args.conf_opts = 1..n
  BY LenProperties
<1>2. LastOption(path) = Max(S)
  BY Zenon DEF LastOption, Sets
<1>3. \A k : k \in S <=> k = 0 \/ (k \in 1..n /\ Sets(k, path))
  BY <1>1
<1>4. ValueAfter(path, n, v)
  OBVIOUS
<1> HIDE DEF n, S
<1>5. S \in SUBSET (0..n) /\ S # {}
  BY <1>1, <1>3
<1>6. Max(S) \in S /\ \A x \in S : x <= Max(S)
  BY <1>1, <1>5, MaxFacts
<1>7. CASE (\A k \in 1..n : ~Sets(k, path)) /\ v = Base(path)
  <2>1. Max(S) = 0
    BY <1>3, <1>6, <1>7
  <2> QED BY <1>2, <1>7, <2>1
<1>8. CASE \E k \in 1..n : /\ Sets(k, path) /\ v = Convert(Last(args.conf_opts[k]))
                           /\ \A j \in 1..n : Sets(j, path) => j <= k
  <2>1. PICK k \in 1..n : /\ Sets(k, path) /\ v = Convert(Last(args.conf_opts[k]))
                          /\ \A j \in 1..n : Sets(j, path) => j <= k
    BY <1>8
  <2>2. k \in S /\ k <= Max(S) /\ k > 0
    BY <1>1, <1>3, <1>6, <2>1
  <2>3. Max(S) \in 1..n /\ Sets(Max(S), path)
    BY <1>1, <1>3, <1>6, <2>2
  <2>4. Max(S) <= k
    BY <2>1, <2>3
  <2>5. Max(S) = k /\ k # 0
    BY <1>1, <2>2, <2>3, <2>4
  <2> QED BY <1>2, <2>1, <2>5
<1> QED BY <1>4, <1>7, <1>8 DEF ValueAfter

\* What main() hands to run_chain() is complete and every setting has the
\* value of the most specific place that sets it, for every command line,
\* every number of options and every pair of configuration files.
THEOREM RequestIsSound == MainSpec => []RequestSound
<1>1. MainInit => TInv /\ SInv /\ CInv
  BY TypesInit, SelectionInit, RequestInit
<1>2. TInv /\ SInv /\ CInv /\ [MainNext]_mainVars => TInv' /\ SInv' /\ CInv'
  BY TypesInductive, SelectionInductive, RequestInductive
<1>3. TInv /\ CInv => RequestSound
  <2> SUFFICES ASSUME TInv, CInv PROVE RequestSound
    OBVIOUS
  <2>1. MainTypeOK
    BY DEF TInv
  <2>2. args.conf_opts \in Seq(Seq(Text)) /\ Len(args.conf_opts) \in Nat
    BY GivenFacts DEF TInv
  <2>3. CASE ~Runs
    BY <2>1, <2>3 DEF RequestSound, Precedence, SharedMemNeedsMp, BreakpointKnown, RequestComplete
  <2>4. CASE Runs
    <3>1. /\ Right(config, opt - 1) /\ (args.sharedmem => Truthy(Base(MultiProcessing)))
          /\ opt = Len(args.conf_opts) + 1
          /\ MultiProcessing \in DOMAIN config /\ StopOnError \in DOMAIN config
          /\ ToSet(l1b_file_list) \cap install.archive # {}
          /\ args.max_files > 0 => Len(l1b_file_list) <= args.max_files
          /\ runBreakpoint = Empty \/ Contains(algorithm_list, runBreakpoint)
      BY <2>4 DEF CInv, Reached, Runs
    <3>2. opt - 1 = Len(args.conf_opts)
      BY <2>2, <3>1
    <3>3. \A path \in {MultiProcessing, StopOnError} :
            ValueAfter(path, Len(args.conf_opts), config[path])
      BY <3>1, <3>2 DEF Right
    <3>4. ASSUME NEW path \in {MultiProcessing, StopOnError}
          PROVE  config[path] =
                   IF LastOption(path) # 0 THEN Convert(Last(args.conf_opts[LastOption(path)]))
                   ELSE Base(path)
      <4>1. ValueAfter(path, Len(args.conf_opts), config[path])
        BY <3>3
      <4> QED BY <2>2, <4>1, LastValue
    <3>5. Precedence
      BY <3>4, Zenon DEF Precedence, Base
    <3>6. SharedMemNeedsMp
      BY <3>1, <3>4 DEF SharedMemNeedsMp
    <3>7. BreakpointKnown
      BY <3>1 DEF BreakpointKnown
    <3>8. {MultiProcessing, SharedMemory, StopOnError, MaxProcesses} \subseteq DOMAIN config
      BY <3>1 DEF Right
    <3>9. RequestComplete
      BY <3>1, <3>8 DEF RequestComplete
    <3> QED BY <2>1, <3>5, <3>6, <3>7, <3>9 DEF RequestSound
  <2> QED BY <2>3, <2>4
<1> QED BY <1>1, <1>2, <1>3, PTL DEF MainSpec
=============================================================================
