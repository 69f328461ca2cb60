---------------------------- MODULE MCRetracker ----------------------------
(* Instances of Retracker.                                                 *)
EXTENDS Retracker

(* Two pulses, the second one of full power, on a floor of noise.          *)
MCWaveforms ==
    {[k \in Bins |-> CASE k = b -> Unit
                       [] k = a /\ k # b -> h
                       [] k = b + 1 /\ k # a -> 2
                       [] OTHER -> floor] :
      a \in Bins, b \in Bins, h \in {1, 3, 4}, floor \in {0, 1}} \cup {Zeros}

(* Smoothing over three bins, times SmScale = 3; the ends stay.            *)
MCSavGol(w) ==
    [k \in Bins |-> IF k \in {0, W - 1} THEN 3 * w[k]
                    ELSE w[k - 1] + w[k] + w[k + 1]]

MCLeDps == {-1, 0, 1}
MCCoherences == {[k \in Bins |-> k], [k \in Bins |-> IF k % 2 = 0 THEN 3 ELSE 1]}
============================================================================
