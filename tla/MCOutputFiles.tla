--------------------------- MODULE MCOutputFiles ---------------------------
(* Four L1b files: two of one month, one of the next month in the last     *)
(* half second of a day, and a second version of the first.  The leap      *)
(* seconds are ten seconds from the start and one at the end of day 0.     *)
EXTENDS OutputFiles

A(g, s) == [group |-> g, kind |-> "array", shape |-> s]
V(g, k) == [group |-> g, kind |-> k, shape |-> <<>>]

(* Flat; nested, with sizes that first occur outside, inside, and in a     *)
(* sibling; with a value of another type.                                  *)
Flat    == <<A(<<>>, <<3>>), V(<<>>, "value"), A(<<>>, <<3, 2>>), V(<<>>, "deep")>>
Nested  == <<A(<<>>, <<3>>), A(<<"g">>, <<3, 2>>), A(<<"g", "h">>, <<2, 3, 4>>)>>
Sibling == <<A(<<"g">>, <<2>>), A(<<>>, <<2>>)>>
Unknown == <<A(<<>>, <<2, 2>>), V(<<"g">>, "other")>>

Month(m) == <<"ANTARC", "2020", m>>
Pass(m, t, u, d) == [dir |-> Month(m), start |-> t, end |-> u, cycle |-> 1, orbit |-> 7, dict |-> d]

MCFiles == {"f1", "f2", "f3", "f4"}
(* f1 and f2 start within the same second and end apart; f4 ends half a    *)
(* second after f1.                                                        *)
MCL1b ==
    [f1 |-> Pass("01", 3599 * Second + 10501, 3700 * Second, Flat),
     f2 |-> Pass("01", 3599 * Second + 10900, 3702 * Second, Sibling),
     f3 |-> Pass("02", Day + 10 * Second - 499, Day + 11 * Second - 400, Nested),
     f4 |-> Pass("01", 3599 * Second + 10501, 3700 * Second + 500, Unknown)]
MCLeaps == <<[at |-> 0, offset |-> 10 * Second], [at |-> Day, offset |-> 11 * Second]>>
MCMade == {<<"ANTARC">>}
-----------------------------------------------------------------------------
(* src/src/clev2er/__init__.py: "Breakpoints can be set after any          *)
(* Algorithm", "the contents of the chain's shared_dict will be saved" and *)
(* "a NetCDF group will be created for each level".  The code does not     *)
(* keep this promise for every shared_dict.                                *)
BreakpointAlways == \A f \in Files : pc[f] # "unsaved"
============================================================================
