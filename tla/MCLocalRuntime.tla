---------------------------- MODULE MCLocalRuntime ----------------------------
(***************************************************************************)
(* An instance of LocalRuntime for TLC: two jobs, each with its capability *)
(* task, and one client request or none.                                   *)
(***************************************************************************)
EXTENDS LocalRuntime

CONSTANTS j1, j2, n1, n2, r1

TwoJobs      == {j1, j2}
Capabilities == {n1, n2, r1}
NestedOf     == [j \in TwoJobs |-> IF j = j1 THEN n1 ELSE n2]
=============================================================================
