---------------------------- MODULE ChainLedger ----------------------------
(***************************************************************************)
(* What run_chain() promises its caller, without processes, chunks or      *)
(* queues.  Each L1b file is settled at most once, in any order, as ok,    *)
(* skip, error, lost (its process died), or as a skip or an error that an  *)
(* error in its clean-up followed.  At some point the run is closed with a *)
(* report, and from then on nothing changes.  The report counts settled    *)
(* files only, never counts a lost one, counts one with an error in its    *)
(* clean-up twice, and leaves out at most one other, the file that Ctrl-C  *)
(* interrupted, which may still be among the processed.                    *)
(***************************************************************************)
EXTENDS Integers, FiniteSets

CONSTANT Files

VARIABLES
  outcome,      \* what has become of each file
  report        \* NoReport, or what the caller is told

Results  == {"ok", "skip", "error"}
Twice    == {"skip_error", "error_error"}
NoReport == [ok |-> FALSE, errors |-> -1, processed |-> -1, skipped |-> -1]
Refused  == [ok |-> FALSE, errors |-> 1, processed |-> 0, skipped |-> 0]

\* The report that counts the files of S.
ReportOf(S) ==
  LET With(R) == {f \in S : outcome[f] \in R}
  IN [ok        |-> With({"error"} \cup Twice) = {},
      errors    |-> Cardinality(With({"error"} \cup Twice))
                    + Cardinality(With({"error_error"})),
      processed |-> Cardinality(With(Results \cup Twice))
                    + Cardinality(With(Twice)),
      skipped   |-> Cardinality(With({"skip", "skip_error"}))]

Init == outcome = [f \in Files |-> "none"] /\ report = NoReport

Settle(f) ==
  /\ report = NoReport /\ outcome[f] = "none"
  /\ \E r \in Results \cup Twice \cup {"lost"} : outcome' = [outcome EXCEPT ![f] = r]
  /\ UNCHANGED report

\* The algorithms could not be loaded: no file has been touched.
Refuse ==
  /\ report = NoReport /\ \A f \in Files : outcome[f] = "none"
  /\ report' = Refused
  /\ UNCHANGED outcome

Close ==
  LET settled == {f \in Files : outcome[f] # "none"} IN
  /\ report = NoReport
  /\ \E S \in SUBSET settled :
       /\ Cardinality(settled \ S) <= 1
       /\ \/ report' = ReportOf(S)
          \/ S # settled /\ report' = [ReportOf(S) EXCEPT !.processed = @ + 1]
  /\ UNCHANGED outcome

Next == Refuse \/ Close \/ \E f \in Files : Settle(f)

Spec == Init /\ [][Next]_<<outcome, report>>
=============================================================================
