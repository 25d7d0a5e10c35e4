---------------------------- MODULE JobLifecycle ----------------------------
(***************************************************************************)
(* What the job service promises a client of one engine                    *)
(* (docs/architecture/persistent-local-jobs.md, "Transicoes"): each job    *)
(* walks the documented table once, a result appears exactly when the job  *)
(* enters the status that announces it, and a terminal job never changes.  *)
(* Crashes, recovery, versions, tasks and SQL statements do not show.      *)
(***************************************************************************)
EXTENDS JobPolicy

CONSTANT Jobs

VARIABLES
  status,   (* what get_status reports; "absent" before submit             *)
  outcome   (* what get_result can return: "none" or the kind of result    *)

lifecycle == <<status, outcome>>

Init ==
  /\ status  = [j \in Jobs |-> "absent"]
  /\ outcome = [j \in Jobs |-> "none"]

Create(j) ==
  /\ status[j] = "absent"
  /\ status' = [status EXCEPT ![j] = "created"]
  /\ UNCHANGED outcome

(* A documented transition that announces no result. *)
Move(j, to) ==
  /\ <<status[j], to>> \in allowed_transitions
  /\ to \notin ResultStatuses
  /\ status' = [status EXCEPT ![j] = to]
  /\ UNCHANGED outcome

(* The result becomes readable in the step that announces it. *)
Publish(j, to) ==
  /\ <<status[j], to>> \in allowed_transitions
  /\ to \in ResultStatuses
  /\ status'  = [status EXCEPT ![j] = to]
  /\ outcome' = [outcome EXCEPT ![j] = to]

Next ==
  \E j \in Jobs :
    \/ Create(j)
    \/ \E to \in JobStatus : Move(j, to) \/ Publish(j, to)

Spec == Init /\ [][Next]_lifecycle
=============================================================================
