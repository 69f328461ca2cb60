----------------------------- MODULE Retracker -----------------------------
(***************************************************************************)
(* Waveform quality tests (waveform_qc_checks.py) and the two retrackers   *)
(* of the chain: TCOG for LRM (cs2_tcog_retracker.py) and maximum          *)
(* coherence for SARin (cs2_sin_max_coherence_retracker.py).  Both search  *)
(* the oversampled smoothed waveform for a leading edge in the same way    *)
(* and set a point on it, or a flag that says why there is none.           *)
(*                                                                         *)
(* A waveform is given normalised, in units of 1/Unit.  All arithmetic is  *)
(* exact: an interpolated sample is a multiple of 1/(Unit * Last), and of  *)
(* 1/(Unit * Last * SmScale) when it is smoothed, and the square root of   *)
(* TCOG is squared away.                                                   *)
(***************************************************************************)
EXTENDS Integers, FiniteSets, FiniteSetsExt

CONSTANTS
    NRecords,           \* number of waveforms in the file
    W, Q,               \* bins of a waveform, wf_oversampling_factor
    Unit,               \* normalised power 1.0
    Waveforms,          \* functions 0..W-1 -> 0..Unit, maximum Unit or 0
    Coherences,         \* functions 0..W-1 -> Nat
    SavGol(_), SmScale, \* external: savgol_filter(), times SmScale
    NoiseBins,          \* samples of lowest power that are noise: 6
    NoiseThr,           \* noise_threshold
    LeId, LeDps,        \* le_id_threshold, values of le_dp_threshold
    TcogThr,            \* retrack_threshold_lrm
    Width,              \* coherence_smoothing_width
    NaN,                \* numpy.nan: in no comparison
    PowerThr, NoisePower, PeakLow, PeakHigh, PosLow, PosHigh, \* quality tests
    EchoScaled          \* the scale of the echo is passed to the quality tests

ASSUME ParametersAssumption ==
    /\ NRecords \in Nat /\ W \in Nat /\ W > 1 /\ Q \in Nat /\ Q > 1
    /\ LeDps \subseteq Int /\ SmScale \in Nat \ {0} /\ Unit \in Nat
    /\ NaN \notin Int

(* The width of the boxcar is odd, and small against the waveform.         *)
ASSUME WidthAssumption ==
    Width \in Nat /\ Width % 2 = 1 /\ Width > 1 /\ 2 * Width <= W

Bins == 0..W - 1
ASSUME WaveformsAssumption ==
    /\ Waveforms \subseteq [Bins -> 0..Unit] /\ Coherences \subseteq [Bins -> Nat]
    /\ \A w \in Waveforms : SavGol(w) \in [Bins -> Int]

N == W * Q
Last == N - 1
Samples == 0..Last

Total(w) == MapThenSumSet(LAMBDA k : w[k], DOMAIN w)
-----------------------------------------------------------------------------
(* Quality tests.  The thresholds of peakiness are in tenths.              *)

(* The first bin of largest power.                                         *)
ArgMax(w) == Min({k \in Bins : \A j \in Bins : w[j] <= w[k]})
Peak(w) == w[ArgMax(w)]

(* lrm_waveform_qc_checks(): total power, peakiness, and not too much of   *)
(* the power in the first quarter.                                         *)
LrmQc(w) ==
    /\ EchoScaled => Total(w) >= PowerThr
    /\ 10 * (W \div 2) * Peak(w) >= PeakLow * Total(w)
    /\ 10 * (W \div 2) * Peak(w) <= PeakHigh * Total(w)
    /\ LET left == MapThenSumSet(LAMBDA k : w[k], {k \in Bins : k < W \div 4})
       IN  2 * left <= Total(w) - left

(* sarin_waveform_qc_checks(): total power, power above the noise,         *)
(* peakiness, and the position of the maximum.                             *)
SarinQc(w) ==
    /\ Total(w) >= PowerThr
    /\ MapThenSumSet(LAMBDA k : Max({w[k] - NoisePower, 0}), Bins) >= PowerThr
    /\ 10 * (W - W \div 4) * Peak(w) >= PeakLow * Total(w)
    /\ ArgMax(w) \in PosLow..PosHigh
-----------------------------------------------------------------------------
(* Signal processing.                                                      *)

(* wfnorm_sm[wfnorm_sm == 0] = np.nan                                      *)
Smoothed(w) == [k \in Bins |-> IF SavGol(w)[k] = 0 THEN NaN ELSE SavGol(w)[k]]

(* Mean of the NoiseBins lowest samples, times NoiseBins.                  *)
Noise(w) ==
    LET Lower(j, k) == w[j] < w[k] \/ (w[j] = w[k] /\ j < k)
        lowest == {k \in Bins : Cardinality({j \in Bins : Lower(j, k)}) < NoiseBins}
    IN  MapThenSumSet(LAMBDA k : w[k], lowest)
NoiseCount == Min({NoiseBins, W})

(* np.interp(wf_bin_numi, wf_bin_num, s), times Last: sample j is at       *)
(* j * (W - 1) / Last bins.                                                *)
Interp(s) ==
    [j \in Samples |->
       LET k == (j * (W - 1)) \div Last
           frac == (j * (W - 1)) % Last
       IN  IF s[k] = NaN \/ (frac > 0 /\ s[k + 1] = NaN) THEN NaN
           ELSE s[k] * (Last - frac) + (IF frac = 0 THEN 0 ELSE s[k + 1] * frac)]

(* np.gradient(): what its sign needs, the difference of the neighbours.   *)
Gradient(v) ==
    [j \in Samples |->
       LET a == IF j = 0 THEN 0 ELSE j - 1
           b == IF j = Last THEN Last ELSE j + 1
       IN  IF v[a] = NaN \/ v[b] = NaN THEN NaN ELSE v[b] - v[a]]

(* np.rint() of the bin of sample j: halves go to the even bin.            *)
NearestBin(j) ==
    LET k == (j * (W - 1)) \div Last
        twice == 2 * ((j * (W - 1)) % Last)
    IN  IF twice < Last \/ (twice = Last /\ k % 2 = 0) THEN k ELSE k + 1

(* Round half of n to an integer, to the even one in a tie: np.around().   *)
HalfEven(n) == IF n % 2 = 0 THEN n \div 2
               ELSE IF (n \div 2) % 2 = 0 THEN n \div 2 ELSE n \div 2 + 1

(* The sum of the first n elements of y[0..L-1], for n in 0..L.            *)
Running(y, L) ==
    LET sum[n \in 0..L] == IF n = 0 THEN 0 ELSE sum[n - 1] + y[n - 1]
    IN  sum

(* fastsmooth(): a boxcar of the given odd width over y[0..L-1], where     *)
(* L >= 2 * width, as <<sum, count>>.  The last element stays zero, and    *)
(* the last full window lacks one sample.                                  *)
Fastsmooth(y, L, width) ==
    LET halfw == HalfEven(width)
        start == (width + 1) \div 2
        Sum(a, b) == Running(y, L)[b + 1] - Running(y, L)[a]
    IN  [k \in 0..L - 1 |->
           CASE k = 0 -> <<y[0] + y[1], 2>>
             [] 1 <= k /\ k < start -> <<Sum(0, 2 * k), 2 * k + 1>>
             [] start <= k /\ k < L - width + halfw - 1 ->
                  <<Sum(k - halfw + 1, k - halfw + width), width>>
             [] k = L - width + halfw - 1 /\ k < L - start -> <<Sum(L - width + 1, L - 1), width>>
             [] L - start <= k /\ k < L - 1 ->
                  <<Sum(L - 2 * (L - 1 - k), L - 2), 2 * (L - 1 - k) - 1>>
             [] OTHER -> <<0, width>>]
-----------------------------------------------------------------------------
VARIABLES
    cfg,      \* retracker, retrack_smooth_wf, le_dp_threshold, and whether
              \* include_measurements_array is given, and of the right length
    i,        \* the record
    pc,
    wf, coh,  \* its waveform and coherence
    wave,     \* what is computed from the waveform: see Wave
    prev,     \* previous_le_ind
    dp,       \* le_dp
    le, peak, \* le_index, first_peak_ind
    flag,     \* flag[r]: the flags of record r
    point,    \* point[r]: the retracking point of record r, or NaN
    skipped,  \* records that include_measurements_array leaves out
    failures  \* the number of failures returned

vars == <<cfg, i, pc, wf, coh, wave, prev, dp, le, peak, flag, point,
          skipped, failures>>
search == <<prev, dp, le, peak>>

Records == 0..NRecords - 1
Zeros == [k \in Bins |-> 0]

(* The oversampled waveform, the smoothed one and its slope, the noise     *)
(* (NoiseCount * wf_noise_mean), and the two sums of tcog_amp.             *)
Wave(w) ==
    LET sm == Interp(Smoothed(w))
    IN  [wfi |-> Interp(w), wfi_sm |-> sm, d_wf_sm |-> Gradient(sm), noise |-> Noise(w),
         s2 |-> MapThenSumSet(LAMBDA k : w[k] * w[k], Bins),
         s4 |-> MapThenSumSet(LAMBDA k : w[k] * w[k] * w[k] * w[k], Bins)]
Waves == [w \in Waveforms |-> Wave(w)]
NoWave == [wfi |-> <<>>, wfi_sm |-> <<>>, d_wf_sm |-> <<>>, noise |-> 0, s2 |-> 0, s4 |-> 0]
wfi == wave.wfi
wfi_sm == wave.wfi_sm
d_wf_sm == wave.d_wf_sm

Init ==
    /\ cfg \in [retracker : {"tcog", "mc"}, smooth : BOOLEAN, le_dp : LeDps,
               include : {"none", "array", "short"}]
    /\ i = 0 /\ pc = "check"
    /\ wf = Zeros /\ coh = Zeros /\ wave = NoWave
    /\ prev = 0 /\ dp = 0 /\ le = 0 /\ peak = 0
    /\ flag = [r \in Records |-> {}]
    /\ point = [r \in Records |-> NaN]
    /\ skipped = {} /\ failures = 0

(* The tests of the arguments; that of the thresholds is TCOG's alone.     *)
Rejected ==
    \/ cfg.retracker = "tcog" /\ \E t \in {TcogThr, NoiseThr, cfg.le_dp} : t \notin 0..Unit
    \/ cfg.include = "short"

Check ==
    /\ pc = "check"
    /\ pc' = IF Rejected THEN "raised" ELSE "take"
    /\ UNCHANGED <<cfg, i, wf, coh, wave, search, flag, point, skipped, failures>>

(* Waveforms of another size, or without any power: the quality tests,     *)
(* which include_measurements_array comes from, call sys.exit(), and the   *)
(* retrackers raise ValueError (for the size only).                        *)
UnfitFile ==
    /\ pc = "check"
    /\ pc' = IF cfg.include = "array" THEN "exited" ELSE "raised"
    /\ UNCHANGED <<cfg, i, wf, coh, wave, search, flag, point, skipped, failures>>

(* The next waveform; what the last one left behind is of no use to it.    *)
NextRecord ==
    /\ i' = i + 1 /\ pc' = "take"
    /\ wf' = Zeros /\ coh' = Zeros /\ wave' = NoWave
    /\ prev' = 0 /\ dp' = 0 /\ le' = 0 /\ peak' = 0

Fail(n) ==
    /\ flag' = [flag EXCEPT ![i] = @ \cup {n}]
    /\ NextRecord

LrmAccepted == {w \in Waveforms : LrmQc(w)}
SarinAccepted == {w \in Waveforms : SarinQc(w)}
Accepted(w) == IF cfg.retracker = "tcog" THEN w \in LrmAccepted ELSE w \in SarinAccepted

(* A record that failed the quality tests, or is outside the masks.        *)
Exclude ==
    /\ pc = "take" /\ i < NRecords
    /\ cfg.include = "array"
    /\ NextRecord
    /\ skipped' = skipped \cup {i}
    /\ UNCHANGED <<cfg, flag, point, failures>>

(* Flag 0: a waveform of zeros, or the noise is too high.  NaN cannot      *)
(* occur in a waveform of the file.                                        *)
TooNoisy(w) == Waves[w].noise > NoiseThr * NoiseCount
Unusable ==
    /\ pc = "take" /\ i < NRecords
    /\ \E w \in Waveforms :
         /\ cfg.include = "array" => Accepted(w)
         /\ Peak(w) = 0 \/ TooNoisy(w)
    /\ Fail(0)
    /\ UNCHANGED <<cfg, point, skipped, failures>>

Begin ==
    /\ pc = "take" /\ i < NRecords
    /\ \E w \in Waveforms, c \in Coherences :
         /\ cfg.include = "array" => Accepted(w)
         /\ Peak(w) # 0 /\ ~TooNoisy(w)
         /\ wf' = w /\ wave' = Waves[w]
         /\ coh' = IF cfg.retracker = "mc" THEN c ELSE Zeros
    /\ pc' = "search"
    /\ UNCHANGED <<cfg, i, search, flag, point, skipped, failures>>
-----------------------------------------------------------------------------
(* The search for the leading edge: while le_dp < le_dp_threshold.         *)

Searching == pc = "search" /\ dp # NaN /\ dp < cfg.le_dp * SmScale * Last

(* The sample rises, and is above the noise by more than LeId.             *)
Rising(j) ==
    /\ wfi_sm[j] # NaN
    /\ wfi_sm[j] * NoiseCount > (wave.noise + LeId * NoiseCount) * SmScale * Last
    /\ d_wf_sm[j] # NaN /\ d_wf_sm[j] > 0

Candidates == {j \in Samples : Rising(j) /\ j > prev + Q}
Falling(j) == d_wf_sm[j] # NaN /\ d_wf_sm[j] <= 0

(* Flag 1: no sample is far enough above the noise.                        *)
NoEdge ==
    /\ Searching /\ Candidates = {}
    /\ Fail(1)
    /\ UNCHANGED <<cfg, point, skipped, failures>>

EdgeStart ==
    /\ Searching /\ Candidates # {}
    /\ le' = Min(Candidates)
    /\ pc' = "peak"
    /\ UNCHANGED <<cfg, i, wf, coh, wave, prev, dp, peak, flag, point, skipped, failures>>

Falls == {j \in Samples : Falling(j) /\ j > le}

(* Flag 2: no peak after the edge.                                         *)
NoPeak ==
    /\ pc = "peak" /\ Falls = {}
    /\ Fail(2)
    /\ UNCHANGED <<cfg, point, skipped, failures>>

(* Flag 3: the peak is at the end of the waveform.                         *)
AtEnd ==
    /\ pc = "peak" /\ Falls # {}
    /\ Min(Falls) > N - Q - 1
    /\ Fail(3)
    /\ UNCHANGED <<cfg, point, skipped, failures>>

(* Mutant for EdgeSound: the highest sample of the waveform.               *)
PeakFoundHighest ==
    /\ pc = "peak" /\ Falls # {}
    /\ Min(Falls) <= N - Q - 1
    /\ peak' = Min({j \in Samples : wfi_sm[j] # NaN /\ \A k \in Samples :
                                       wfi_sm[k] # NaN => wfi_sm[k] <= wfi_sm[j]})
    /\ prev' = Min(Falls)
    /\ dp' = IF wfi_sm[peak'] = NaN THEN NaN ELSE wfi_sm[peak'] - wfi_sm[le]
    /\ pc' = "search"
    /\ UNCHANGED <<cfg, i, wf, coh, wave, le, flag, point, skipped, failures>>

(* Mutant for Termination: previous_le_ind is not set.                     *)
PeakFoundNotNoted ==
    /\ pc = "peak" /\ Falls # {}
    /\ Min(Falls) <= N - Q - 1
    /\ peak' = Min(Falls)
    /\ dp' = IF wfi_sm[peak'] = NaN THEN NaN ELSE wfi_sm[peak'] - wfi_sm[le]
    /\ pc' = "search"
    /\ UNCHANGED <<cfg, i, wf, coh, wave, prev, le, flag, point, skipped, failures>>

PeakFound ==
    /\ pc = "peak" /\ Falls # {}
    /\ Min(Falls) <= N - Q - 1
    /\ peak' = Min(Falls) /\ prev' = Min(Falls)
    /\ dp' = IF wfi_sm[peak'] = NaN THEN NaN ELSE wfi_sm[peak'] - wfi_sm[le]
    /\ pc' = "search"
    /\ UNCHANGED <<cfg, i, wf, coh, wave, le, flag, point, skipped, failures>>
-----------------------------------------------------------------------------
(* The retracking point.                                                   *)

EdgeFound == pc = "search" /\ ~Searching /\ cfg.le_dp > 0

(* Sample v, times scale * Last, is above the threshold, a fraction of the *)
(* TCOG amplitude sqrt(sum(wf ** 4) / sum(wf ** 2)).                       *)
AboveTcog(v, scale) ==
    LET t == TcogThr * scale * Last
    IN  v > 0 /\ v * v * wave.s2 * Unit * Unit > t * t * wave.s4

AboveThreshold ==
    IF cfg.smooth
      THEN {j \in Samples : wfi_sm[j] # NaN /\ AboveTcog(wfi_sm[j], SmScale)}
      ELSE {j \in Samples : AboveTcog(wfi[j], 1) /\ j > le}

(* The first sample above the threshold, or flag 5.                        *)
TcogPoint ==
    /\ EdgeFound /\ cfg.retracker = "tcog"
    /\ AboveThreshold # {}
    /\ point' = [point EXCEPT ![i] = Min(AboveThreshold)]
    /\ NextRecord
    /\ UNCHANGED <<cfg, flag, skipped, failures>>

(* le_dp_threshold <= 0, which the tests let pass or do not look at: the   *)
(* loop is not entered, le_index does not exist, and its use raises        *)
(* UnboundLocalError.  Only TCOG may find, without it, that there is no    *)
(* point.                                                                  *)
LoopSkipped == pc = "search" /\ ~Searching /\ cfg.le_dp <= 0
NoneAbove == cfg.retracker = "tcog" /\ cfg.smooth /\ AboveThreshold = {}

NoIndex ==
    /\ LoopSkipped /\ ~NoneAbove
    /\ pc' = "raised"
    /\ UNCHANGED <<cfg, i, wf, coh, wave, search, flag, point, skipped, failures>>

(* The bins of the top half of the leading edge.                           *)
TopOfEdge ==
    {NearestBin(j) : j \in {k \in le..peak :
       IF cfg.smooth THEN /\ wfi_sm[k] # NaN
                          /\ 2 * (wfi_sm[k] - wfi_sm[le]) > dp
                     ELSE 2 * SmScale * (wfi[k] - wfi[le]) > dp}}

(* np.argmax(coherence_sm[top_of_le_indices]): the first largest.          *)
MostCoherent ==
    LET sm == Fastsmooth(coh, W, Width)
        Below(a, b) == sm[a][1] * sm[b][2] < sm[b][1] * sm[a][2]
    IN  Min({k \in TopOfEdge : \A j \in TopOfEdge : ~Below(k, j)})

(* Power at the point: NaN is not zero.                                    *)
McPower == IF cfg.smooth THEN wfi_sm[MostCoherent * Q] ELSE wf[MostCoherent]

McHit == TopOfEdge # {} /\ McPower # 0

McPoint ==
    /\ EdgeFound /\ cfg.retracker = "mc"
    /\ McHit
    /\ point' = [point EXCEPT ![i] = MostCoherent]
    /\ NextRecord
    /\ UNCHANGED <<cfg, flag, skipped, failures>>

(* Mutant for Verdicts: the flag is not set.                               *)
NoPointUnflagged ==
    /\ \/ EdgeFound /\ IF cfg.retracker = "tcog" THEN AboveThreshold = {} ELSE ~McHit
       \/ LoopSkipped /\ NoneAbove
    /\ NextRecord
    /\ UNCHANGED <<cfg, flag, point, skipped, failures>>

(* Flag 5: no point, or zero power at it.                                  *)
NoPoint ==
    /\ \/ EdgeFound /\ IF cfg.retracker = "tcog" THEN AboveThreshold = {} ELSE ~McHit
       \/ LoopSkipped /\ NoneAbove
    /\ Fail(5)
    /\ UNCHANGED <<cfg, point, skipped, failures>>

(* n_retracker_failures, and the return.                                   *)
CountFailures ==
    /\ pc = "take" /\ i = NRecords
    /\ failures' = Cardinality({r \in Records : flag[r] \cap {0, 1, 2, 3, 5} # {}})
    /\ pc' = "done"
    /\ UNCHANGED <<cfg, i, wf, coh, wave, search, flag, point, skipped>>

Next ==
    \/ Check \/ UnfitFile \/ Exclude \/ Unusable \/ Begin
    \/ NoEdge \/ EdgeStart \/ NoPeak \/ AtEnd \/ PeakFound
    \/ TcogPoint \/ McPoint \/ NoPoint \/ NoIndex \/ CountFailures

Spec == Init /\ [][Next]_vars /\ WF_vars(Next)
-----------------------------------------------------------------------------
(* Types of all variables; neither retracker sets flag 4.                  *)
TypeOK ==
    /\ i \in 0..NRecords
    /\ pc \in {"check", "take", "search", "peak", "done", "raised", "exited"}
    /\ prev \in Samples /\ le \in Samples /\ peak \in Samples
    /\ dp \in Int \cup {NaN}
    /\ flag \in [Records -> SUBSET {0, 1, 2, 3, 5}]
    /\ point \in [Records -> Samples \cup {NaN}]
    /\ skipped \subseteq Records /\ failures \in 0..NRecords

(* When the search ends the edge rises from le_index, above the noise, to  *)
(* the first peak after it, and by le_dp_threshold.                        *)
EdgeSound ==
    EdgeFound =>
      /\ Rising(le) /\ le < peak /\ Falling(peak)
      /\ \A j \in Samples : le < j /\ j < peak => ~Falling(j)
      /\ dp # NaN /\ wfi_sm[peak] - wfi_sm[le] >= cfg.le_dp * SmScale * Last

(* Every record is looked at, and the search of each ends, unless the call *)
(* ends in an exception.                                                   *)
Termination == <>(pc \in {"done", "raised", "exited"})

(* A record that is done has a retracking point or exactly one flag; one   *)
(* that was left out has neither.                                          *)
OneVerdict ==
    \A r \in Records : r < i =>
      IF r \in skipped THEN flag[r] = {} /\ point[r] = NaN
      ELSE IF point[r] = NaN THEN Cardinality(flag[r]) = 1 ELSE flag[r] = {}

(* The number returned is that of the records included that have no point: *)
(* alg_retrack makes a percentage of it.                                   *)
FailuresExact ==
    pc = "done" => failures = Cardinality({r \in Records \ skipped : point[r] = NaN})

(* Each record gets one verdict, and the verdicts add up.                  *)
Verdicts == TypeOK /\ OneVerdict /\ FailuresExact

============================================================================
