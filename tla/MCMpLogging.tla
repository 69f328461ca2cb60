---------------------------- MODULE MCMpLogging ----------------------------
(***************************************************************************)
(* MpLogging for TLC, and what the documentation says of the merged log.   *)
(***************************************************************************)
EXTENDS MpLogging

(* "messages relating to each L1b file processing are collected together   *)
(* in order. This is then merged in to the main log file": at the end the  *)
(* main log holds every message that was logged.                           *)
LogsMerged == pc = "end" => Logged \subseteq {mainLog[i] : i \in DOMAIN mainLog}
=============================================================================
