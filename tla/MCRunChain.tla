---------------------------- MODULE MCRunChain ----------------------------
(***************************************************************************)
(* RunChain for TLC (the sizes are in the .cfg files), and what a test and *)
(* a comment expect of run_chain() where the code does something else.     *)
(***************************************************************************)
EXTENDS RunChain

-----------------------------------------------------------------------------
(* Expectations that the code does not meet *)

\* The test of run_chain() expects a successful run to have processed as many
\* files as it was given.  A process that dies on an exception which
\* run_chain_on_single_file() does not catch queues nothing: its file is
\* neither processed nor an error.
SuccessProcessedAll ==
  CompletedLoad /\ cfg.mp /\ ret.ok => ret.processed = NFiles

\* "If there is a failure we must clean up any shared memory already
\* allocated" (the comment where an instance for shared memory cannot be
\* initialised).  The return after a failed import finalises no instance.
FailedLoadCleans == pc = "returned" => shmLive = {}
=============================================================================
