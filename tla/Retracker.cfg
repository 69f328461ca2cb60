CONSTANTS
    NRecords = 2
    W = 8
    Q = 2
    Unit = 4
    Waveforms <- MCWaveforms
    Coherences <- MCCoherences
    SavGol <- MCSavGol
    SmScale = 3
    NoiseBins = 2
    NoiseThr = 1
    LeId = 0
    LeDps <- MCLeDps
    TcogThr = 2
    Width = 3
    NaN = NaN
    PowerThr = 5
    NoisePower = 1
    PeakLow = 9
    PeakHigh = 28
    PosLow = 1
    PosHigh = 6
    EchoScaled = TRUE
SPECIFICATION Spec
CHECK_DEADLOCK FALSE
INVARIANTS
    EdgeSound
    Verdicts
PROPERTIES
    Termination
