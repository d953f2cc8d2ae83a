---------------------------- MODULE MCAgentJobs ----------------------------
(* Small instances of AgentJobs for TLC.                                   *)
EXTENDS AgentJobs, TLC

\* Runs and workers are interchangeable; used by the safety runs only.
Symmetry == Permutations(Runs) \cup Permutations(Workers)
=============================================================================
