---------------------------- MODULE MCMcpServer ----------------------------
(***************************************************************************)
(* An instance of McpServer for TLC: two jobs of two PDFs, and two runs.   *)
(***************************************************************************)
EXTENDS McpServer, TLC

CONSTANTS j1, j2, r1, r2, s1, s2

TwoJobs  == {j1, j2}
TwoRuns  == {r1, r2}
TwoStems == {s1, s2}
OwnStems == j1 :> s1 @@ j2 :> s2
=============================================================================
