------------------------------ MODULE MCGrids ------------------------------
(* Instances of Grids.                                                     *)
EXTENDS Grids

(* No void, one in each corner that is first in some file, two voids.      *)
MCVoids == {{}, {<<NR - 1, 0>>}, {<<0, 0>>}, {<<NR - 1, 0>>, <<NR - 1, 1>>}}

(* On and between the nodes, on the edges and outside.                     *)
MCPoints == {-2, 0, 1, 4, 5} \X {0, 1, 6, 7}

(* Points alone, with one that is NaN, and with one far away.              *)
MCQueries == {{p} : p \in MCPoints} \cup {{p, NaNPoint} : p \in MCPoints}
             \cup {{p, <<2, 2>>} : p \in MCPoints} \cup {{NaNPoint}}

MCBounds == {<<-3, 7, -3, 9>>, <<0, 4, 0, 6>>, <<1, 3, 1, 5>>, <<2, 4, 2, 4>>, <<-5, -3, 0, 6>>}

MCDirectories ==
    {[given |-> {}, have |-> {"default"}],
     [given |-> {"config", "argument"}, have |-> {"config"}],
     [given |-> {"config", "argument"}, have |-> {"argument", "default"}]}

(* Small rates, and one that is too large, in the corner and inside.       *)
MCRates == {[c \in Cells |-> IF c = big THEN 12 ELSE (5 * c[1] + 3 * c[2]) % 7] :
             big \in {<<NR - 1, 0>>, <<1, 1>>, <<NR, NC>>}}

MCSurface == [c \in Cells |-> (c[1] + 2 * c[2]) % 3]
MCBasins == {<<>>, <<1>>, <<0, 2>>, <<2, 2>>}

(* Claim of "return a cropped segment of the slopes" (slopes.py:483) and   *)
(* dems.py: every value whose node is within the bounds is part of it.     *)
SegmentCropped ==
    ans.op = "segment" /\ Sound =>
      \A c \in Cells \ cfg.voids :
        (/\ ans.at[1] <= 2 * c[1] /\ 2 * c[1] <= ans.at[2]
         /\ ans.at[3] <= 2 * c[2] /\ 2 * c[2] <= ans.at[4])
           => \E e \in ans.val : e[2] = c
============================================================================
