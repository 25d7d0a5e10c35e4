-------------------------- MODULE MCPersistentJobs --------------------------
(***************************************************************************)
(* Instances of PersistentJobs for TLC.  The outcome of process() is taken *)
(* from the whole range unless a run is about something else.              *)
(***************************************************************************)
EXTENDS PersistentJobs, TLC

CONSTANTS e1, e2, j1, j2

OneEngine  == {e1}
TwoEngines == {e1, e2}
OneJob     == {j1}
TwoJobs    == {j1, j2}

AllOutcomes   == {"completed", "review_required", "no_value", "failed"}
PlainOutcomes == {"completed", "failed"}

(* Sound for invariants only: the specification treats all jobs and all    *)
(* engines alike.                                                          *)
Symmetric == Permutations(Jobs) \cup Permutations(Engines)
=============================================================================
